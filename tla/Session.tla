------------------------------- MODULE Session -------------------------------
(***************************************************************************)
(* Who the SPA believes is signed in (features/auth/, components/AppLayout *)
(* .tsx, AppNav.tsx, AdminGate.tsx, AuditGate.tsx, api/client.ts), and the *)
(* token section of the Claude page (features/skill/TokenSection.tsx).     *)
(*                                                                         *)
(* The browser's session is its cookie, known by its number: one more at   *)
(* each login, logout and expiry. A request is answered for the cookie it  *)
(* was sent with, at any later time. A user's token is known by its        *)
(* number, 0 for none.                                                     *)
(***************************************************************************)
EXTENDS Integers, FiniteSets

CONSTANTS
    Users,
    Role,           \* of each user: "ADMIN", "AUDITOR" or "VIEWER"
    LoginRequired,  \* the deployment asks for a login
    nobody,         \* a session of no user
    nil,            \* nothing loaded, in flight, or shown
    MaxSessions,    \* bound: changes of the session
    MaxTokens       \* bound: tokens of one user

\* nil is no session; the page opens with one, a visitor's or a user's.
ASSUME SessionAssumption ==
    /\ MaxSessions \in Nat \ {0} /\ MaxTokens \in Nat
    /\ nil \notin [number : Nat, user : Users \cup {nobody}]

VARIABLES
    session,        \* the browser's cookie: [number, user]
    me,             \* GET /auth/me as cached, nil before the first answer
    meFailed,       \* its last fetch failed
    meFetch,        \* nil, or the cookie it was sent with
    told,           \* the newest session an answer told the browser of
    login,          \* of the login form: [status, user]
    logout,         \* a logout is in flight
    call,           \* a request of the page: nil, or the cookie it was sent with
    path,           \* the route
    tokens,         \* the live token of each user
    token,          \* GET /auth/token as cached: [user, number], nil
    tokenIsStale,   \* it is older than the stale time
    tokenFetch,     \* nil, or the user it was sent for
    fresh,          \* the created token on screen, nil
    change          \* the POST or DELETE in flight: [kind, user, number], nil

authVars == <<session, me, meFailed, meFetch, told, login, logout, call>>
tokenVars == <<tokens, token, tokenIsStale, tokenFetch, fresh, change>>
sessionVars == <<authVars, path, tokenVars>>

NoLogin == [status |-> "idle", user |-> nobody]
Later(m, n) == IF m > n THEN m ELSE n

----------------------------------------------------------------------------
(* What is rendered *)

Authenticated == me # nil /\ (LoginRequired => me.user # nobody)
role == IF me = nil THEN nil
        ELSE IF ~LoginRequired THEN "ADMIN"
        ELSE IF me.user = nobody THEN nil ELSE Role[me.user]
useCanReadAudit == role \in {"ADMIN", "AUDITOR"}
useIsAdmin == role = "ADMIN"

IsPending == me = nil /\ ~meFailed
LoginPageIsShown == LoginRequired /\ me # nil /\ me.user = nobody
AppIsShown == ~IsPending /\ ~LoginPageIsShown

Paths == {"/", "/servers", "/events", "/jobs", "/rules", "/skill"}
AuditGate == path = "/events" => useCanReadAudit
AdminGate == path = "/jobs" => useIsAdmin
Links == {to \in Paths : (to = "/events" => useCanReadAudit) /\ (to = "/jobs" => useIsAdmin)}
AccountMenu == AppIsShown /\ LoginRequired /\ Authenticated

\* Leaving a page drops its state: the created token is not shown again.
Leave == fresh' = nil

----------------------------------------------------------------------------
(* GET /auth/me *)

\* Mutant: the refetch joins the fetch under way.
InvalidateMeJoins == meFetch' = IF meFetch = nil THEN session' ELSE meFetch

\* Invalidating it cancels a fetch under way and starts another.
InvalidateMe == meFetch' = session'

\* The page under the layout goes when its user does.
MeArrives ==
    /\ meFetch # nil
    /\ me' = meFetch /\ meFailed' = FALSE
    /\ meFetch' = nil
    /\ IF LoginPageIsShown' THEN Leave ELSE UNCHANGED fresh
    /\ UNCHANGED <<session, told, login, logout, call, path, tokens, token, tokenIsStale,
                   tokenFetch, change>>

MeFails ==
    /\ meFetch # nil
    /\ meFailed' = TRUE /\ meFetch' = nil
    /\ UNCHANGED <<session, me, told, login, logout, call, path, tokenVars>>

\* A component that asks for it mounts while it is stale.
MeIsAskedAgain ==
    /\ meFetch = nil
    /\ meFetch' = session
    /\ UNCHANGED <<session, me, meFailed, told, login, logout, call, path, tokenVars>>

----------------------------------------------------------------------------
(* Login, logout, expiry *)

NewSession(user) ==
    /\ session.number < MaxSessions
    /\ session' = [number |-> session.number + 1, user |-> user]

SubmitLogin(user) ==
    /\ LoginPageIsShown /\ login.status # "pending"
    /\ login' = [status |-> "pending", user |-> user]
    /\ UNCHANGED <<session, me, meFailed, meFetch, told, logout, call, path, tokenVars>>

\* The answer sets the cookie, and /auth/me is asked with it.
LoggedIn ==
    /\ login.status = "pending"
    /\ NewSession(login.user)
    /\ login' = NoLogin
    /\ told' = session'.number
    /\ InvalidateMe
    /\ UNCHANGED <<me, meFailed, logout, call, path, tokenVars>>

LoginFails ==
    /\ login.status = "pending"
    /\ login' = [NoLogin EXCEPT !.status = "error"]
    /\ UNCHANGED <<session, me, meFailed, meFetch, told, logout, call, path, tokenVars>>

PressLogOut ==
    /\ AccountMenu /\ ~logout
    /\ logout' = TRUE
    /\ UNCHANGED <<session, me, meFailed, meFetch, told, login, call, path, tokenVars>>

LoggedOut ==
    /\ logout /\ logout' = FALSE
    /\ NewSession(nobody)
    /\ told' = session'.number
    /\ InvalidateMe
    /\ UNCHANGED <<me, meFailed, login, call, path, tokenVars>>

LogoutFails ==
    /\ logout /\ logout' = FALSE
    /\ UNCHANGED <<session, me, meFailed, meFetch, told, login, call, path, tokenVars>>

Expire ==
    /\ session.user # nobody /\ NewSession(nobody)
    /\ UNCHANGED <<me, meFailed, meFetch, told, login, logout, call, path, tokenVars>>

----------------------------------------------------------------------------
(* The page's own requests: apiFetch *)

Call ==
    /\ AppIsShown /\ AuditGate /\ AdminGate /\ call = nil
    /\ call' = session
    /\ UNCHANGED <<session, me, meFailed, meFetch, told, login, logout, path, tokenVars>>

IsRefused(cookie) == LoginRequired /\ cookie.user = nobody

Served ==
    /\ call # nil /\ ~IsRefused(call)
    /\ call' = nil
    /\ UNCHANGED <<session, me, meFailed, meFetch, told, login, logout, path, tokenVars>>

\* A 401 is no verdict on who is signed in: it has /auth/me asked again.
Refused ==
    /\ call # nil /\ IsRefused(call)
    /\ call' = nil
    /\ told' = Later(told, call.number)
    /\ UNCHANGED session /\ InvalidateMe
    /\ UNCHANGED <<me, meFailed, login, logout, path, tokenVars>>

Visit(to) ==
    /\ AppIsShown /\ to \in Links /\ to # path
    /\ path' = to
    /\ Leave
    /\ UNCHANGED <<authVars, tokens, token, tokenIsStale, tokenFetch, change>>

----------------------------------------------------------------------------
(* The token section: one cache entry, whoever is signed in *)

OnSkillPage == path = "/skill" /\ AppIsShown
enabled == OnSkillPage /\ LoginRequired /\ Authenticated
TokenIsShown == enabled /\ token # nil

InvalidateToken == tokenFetch' = session.user

\* On mount, unless a fresh enough answer is cached.
FetchToken ==
    /\ enabled /\ tokenFetch = nil
    /\ token = nil \/ tokenIsStale
    /\ InvalidateToken
    /\ UNCHANGED <<authVars, path, tokens, token, tokenIsStale, fresh, change>>

TokenArrives ==
    /\ tokenFetch \in Users
    /\ token' = [user |-> tokenFetch, number |-> tokens[tokenFetch]]
    /\ tokenIsStale' = FALSE
    /\ tokenFetch' = nil
    /\ UNCHANGED <<authVars, path, tokens, fresh, change>>

\* A refusal too: its path is under /auth/, so /auth/me is not asked again.
TokenFails ==
    /\ tokenFetch # nil
    /\ tokenFetch' = nil
    /\ UNCHANGED <<authVars, path, tokens, token, tokenIsStale, fresh, change>>

TokenAges ==
    /\ token # nil /\ ~tokenIsStale
    /\ tokenIsStale' = TRUE
    /\ UNCHANGED <<authVars, path, tokens, token, tokenFetch, fresh, change>>

\* Create, Replace or Revoke; one is in flight at a time, a bound.
PressToken(kind) ==
    /\ TokenIsShown /\ change = nil /\ session.user # nobody
    /\ kind = "revoke" => token.number # 0
    /\ kind = "create" => tokens[session.user] < MaxTokens
    /\ tokens' = [tokens EXCEPT ![session.user] = IF kind = "create" THEN @ + 1 ELSE 0]
    /\ change' = [kind |-> kind, user |-> session.user, number |-> tokens'[session.user]]
    /\ UNCHANGED <<authVars, path, token, tokenIsStale, tokenFetch, fresh>>

\* A page that is gone shows nothing, but the cache is stale all the same.
TokenChanged ==
    /\ change # nil
    /\ fresh' = IF OnSkillPage /\ change.kind = "create"
                THEN [user |-> change.user, number |-> change.number] ELSE nil
    /\ change' = nil
    /\ tokenIsStale' = (token # nil)
    /\ IF enabled THEN InvalidateToken ELSE UNCHANGED tokenFetch
    /\ UNCHANGED <<authVars, path, tokens, token>>

\* The change failed, or only its answer did.
ChangeFails ==
    /\ change # nil
    /\ change' = nil
    /\ UNCHANGED <<authVars, path, tokens, token, tokenIsStale, tokenFetch, fresh>>

----------------------------------------------------------------------------
SessionInit ==
    /\ session \in [number : {1}, user : Users \cup {nobody}]
    /\ me = nil /\ meFailed = FALSE /\ meFetch = session /\ told = 0
    /\ login = NoLogin /\ logout = FALSE /\ call = nil
    /\ path \in {"/", "/jobs", "/skill"}
    /\ tokens = [u \in Users |-> 0]
    /\ token = nil /\ tokenIsStale = FALSE /\ tokenFetch = nil
    /\ fresh = nil /\ change = nil

SessionNext ==
    \/ MeArrives \/ MeFails \/ MeIsAskedAgain
    \/ \E user \in Users : SubmitLogin(user)
    \/ LoggedIn \/ LoginFails \/ PressLogOut \/ LoggedOut \/ LogoutFails \/ Expire
    \/ Call \/ Served \/ Refused \/ \E to \in Paths : Visit(to)
    \/ FetchToken \/ TokenArrives \/ TokenFails \/ TokenAges
    \/ \E kind \in {"create", "revoke"} : PressToken(kind)
    \/ TokenChanged \/ ChangeFails

SessionSpec == SessionInit /\ [][SessionNext]_sessionVars

----------------------------------------------------------------------------
(* Properties *)

Sessions == [number : 0 .. MaxSessions, user : Users \cup {nobody}]
TokensShown == [user : Users, number : 0 .. MaxTokens]
SessionTypeOK ==
    /\ session \in Sessions /\ me \in Sessions \cup {nil}
    /\ meFetch \in Sessions \cup {nil} /\ call \in Sessions \cup {nil}
    /\ told \in 0 .. MaxSessions
    /\ login \in [status : {"idle", "pending", "error"}, user : Users \cup {nobody}]
    /\ path \in Paths
    /\ token \in TokensShown \cup {nil} /\ fresh \in TokensShown \cup {nil}
    /\ tokenFetch \in Users \cup {nil, nobody}

\* With nothing under way and the last answer good, the user on screen is at
\* least as recent as every login, logout and 401 this browser was told of,
\* in whatever order their answers came: a 401 of the session before does not
\* sign the new one out, nor does an /auth/me sent before the login.
SettledMeIsCurrent == meFetch = nil /\ ~meFailed /\ me # nil => me.number >= told

\* The token section shows the signed-in user's token, as its comment says:
\* stated of a browser that knows who is signed in and has no request for the
\* token under way. Its cache entry has no user in its key and outlives the
\* session, so the next user is shown it, for 30 s without even a refetch.
TokenIsTheSignedInUsers ==
    TokenIsShown /\ me = session /\ meFetch = nil /\ tokenFetch = nil => token.user = me.user
=============================================================================
