---------------------------- MODULE OperatorSessions ----------------------------
(***************************************************************************)
(* How an operator stays signed in (auth/operator): a browser with two     *)
(* cookies, a server that keeps nothing, and answers that come back in any *)
(* order.  A script with an API key needs neither.                         *)
(***************************************************************************)
EXTENDS Integers

CONSTANTS
    Tabs,           \* requests the browser may have under way at once
    SessionTtl,     \* config.operator.sessionTtlMs
    ProtectReads,   \* config.operator.protectReads
    MaxClock

VARIABLES
    clock,
    jar,        \* the cookies of the browser: [session, csrf]
    tab,        \* tab[t]: the request of the tab
    lastSeen    \* when the operator last did something, Never once he paused too long

sessionVars == <<clock, jar, tab, lastSeen>>

-----------------------------------------------------------------------------
Never == 0

\* A session cookie is a signed pair of times, and a CSRF cookie a random token that
\* the page echoes: what tells two apart is whether there is one.  Both carry the
\* lifetime of a session as Max-Age, after which the browser drops them.
NoSession == [issuedAt |-> Never, expiresAt |-> Never]
NoCookies == [session |-> NoSession, csrf |-> Never]

Closed == [stage |-> "closed", method |-> "GET", route |-> "none", bearer |-> "none",
           cookies |-> NoCookies, answer |-> "none", set |-> NoCookies, at |-> Never]

SessionsInit ==
    /\ clock = 1 /\ lastSeen = Never
    /\ jar = NoCookies
    /\ tab = [t \in Tabs |-> Closed]

\* What the browser still sends at a time.
Sent(cookies, time) ==
    [session |-> IF time < cookies.session.expiresAt THEN cookies.session ELSE NoSession,
     csrf |-> IF time < cookies.csrf THEN cookies.csrf ELSE Never]

\* createSessionToken
CreateSessionToken(time) == [issuedAt |-> time, expiresAt |-> time + SessionTtl]

\* verifySessionToken, of a token this server signed
VerifySessionToken(session, time) == session # NoSession /\ time < session.expiresAt

\* Mutant: a session is renewed in its last moment only.
ShouldRenewLate(session, time) == time - session.issuedAt >= SessionTtl - 1

\* shouldRenewSession: from half of its life on.
ShouldRenewSession(session, time) == 2 * (time - session.issuedAt) >= SessionTtl

\* The CSRF cookie, by when it lapses; after the last tick, it does not matter when.
CreateCsrfToken(time) ==
    IF time + SessionTtl > MaxClock THEN MaxClock + 1 ELSE time + SessionTtl

-----------------------------------------------------------------------------
(* The middleware *)

\* resolveOperator: an API key decides alone when one is sent, and cookies otherwise.
ResolveOperator(r, time) ==
    IF r.bearer # "none" THEN (IF r.bearer = "right" THEN "API_KEY" ELSE "nobody")
    ELSE IF VerifySessionToken(r.cookies.session, time) THEN "SESSION" ELSE "nobody"

\* renewSessionCookie: the session alone; the CSRF cookie keeps the lifetime it has.
Renewed(r, time) ==
    IF ResolveOperator(r, time) = "SESSION" /\ ShouldRenewSession(r.cookies.session, time)
    THEN CreateSessionToken(time) ELSE NoSession

\* csrfTokensMatch, of a page that sends in the header what its cookie holds
CsrfTokensMatch(r) == r.cookies.csrf # Never

\* requireOperator with enforceCsrf
RequireOperator(r, time) ==
    CASE ResolveOperator(r, time) = "nobody" -> "UNAUTHORIZED"
      [] ResolveOperator(r, time) = "SESSION" /\ r.method = "POST"
             /\ ~CsrfTokensMatch(r) -> "CSRF_INVALID"
      [] OTHER -> "done"

RequireOperatorForWrites(r, time) ==
    IF r.method = "GET" THEN "done" ELSE RequireOperator(r, time)

RequireOperatorForReads(r, time) ==
    IF ~ProtectReads THEN "done" ELSE RequireOperator(r, time)

\* The routers of the console are mounted one after the other at /api, each behind its
\* guard, and a request passes every guard above the router that answers it.
Guarded(r, time) ==
    LET verdicts == {RequireOperator(r, time), RequireOperatorForWrites(r, time),
                     RequireOperatorForReads(r, time)}
    IN  IF verdicts = {"done"} THEN "done" ELSE CHOOSE v \in verdicts : v # "done"

-----------------------------------------------------------------------------
(* The browser *)

\* The console sends its cookies with every request, a script its key.
Send(t) ==
    /\ tab[t].stage = "closed"
    /\ \E route \in {"login", "logout", "me", "csrf", "console"}, method \in {"GET", "POST"},
          bearer \in {"none", "right", "wrong"} :
          /\ route \in {"login", "logout"} => method = "POST"
          /\ route \in {"me", "csrf"} => method = "GET"
          /\ bearer # "none" => route = "console" /\ method = "POST"
          /\ tab' = [tab EXCEPT ![t] =
                [Closed EXCEPT !.stage = "sent", !.method = method, !.route = route,
                    !.bearer = bearer, !.at = clock,
                    !.cookies = IF bearer = "none" THEN Sent(jar, clock) ELSE NoCookies]]
    /\ UNCHANGED <<clock, jar, lastSeen>>

\* The answer of the server, with the cookies it sets
Answer(t, answer, set) ==
    /\ tab' = [tab EXCEPT ![t] = [Closed EXCEPT !.stage = "answered", !.method = tab[t].method,
                            !.answer = answer, !.set = set, !.at = tab[t].at]]
    /\ UNCHANGED <<clock, jar>>

At(t, routes) == tab[t].stage = "sent" /\ tab[t].route \in routes

\* No more than half of a life since, less the time that answers take.
Lively == lastSeen # Never /\ 2 * (clock - lastSeen) < SessionTtl - 2

\* No session is left, in the jar or under way.
SignedOut ==
    /\ Sent(jar, clock).session = NoSession
    /\ \A t \in Tabs : NoSession = tab[t].cookies.session /\ NoSession = tab[t].set.session

Seen(t) ==
    lastSeen' = IF ResolveOperator(tab[t], clock) # "SESSION" THEN lastSeen
                ELSE IF Lively THEN clock ELSE Never

\* POST /login with the right password, and a wrong one
Login(t) ==
    /\ At(t, {"login"})
    /\ Answer(t, "done", [session |-> CreateSessionToken(clock), csrf |-> CreateCsrfToken(clock)])
    /\ lastSeen' = IF Lively \/ SignedOut THEN clock ELSE Never

LoginFails(t) == At(t, {"login"}) /\ Answer(t, "UNAUTHORIZED", NoCookies) /\ UNCHANGED lastSeen

\* POST /logout never fails, and does not renew what it is about to clear.
Logout(t) == At(t, {"logout"}) /\ Answer(t, "cleared", NoCookies) /\ UNCHANGED lastSeen

\* GET /me answers both ways; a renewed session comes with it.
Me(t) ==
    /\ At(t, {"me"})
    /\ Answer(t, "done", [NoCookies EXCEPT !.session = Renewed(tab[t], clock)])
    /\ Seen(t)

\* GET /csrf asks for nothing.
Csrf(t) ==
    /\ At(t, {"csrf"})
    /\ Answer(t, "done", [NoCookies EXCEPT !.csrf = CreateCsrfToken(clock)])
    /\ UNCHANGED lastSeen

\* Any route of the console
Console(t) ==
    /\ At(t, {"console"})
    /\ Answer(t, Guarded(tab[t], clock), [NoCookies EXCEPT !.session = Renewed(tab[t], clock)])
    /\ Seen(t)

\* The answer arrives and its cookies replace those in the jar.
Receive(t) ==
    /\ tab[t].stage = "answered"
    /\ LET new == tab[t].set IN
       jar' = IF tab[t].answer = "cleared" THEN NoCookies
              ELSE [session |-> IF new.session = NoSession THEN jar.session ELSE new.session,
                    csrf |-> IF new.csrf = Never THEN jar.csrf ELSE new.csrf]
    /\ tab' = [tab EXCEPT ![t] = Closed]
    /\ UNCHANGED <<clock, lastSeen>>

\* Time passes, and the browser drops what has lapsed; a request is answered within a tick.
ClockTicks ==
    /\ clock < MaxClock /\ clock' = clock + 1
    /\ \A t \in Tabs : tab[t].stage # "closed" => tab[t].at = clock
    /\ jar' = Sent(jar, clock')
    /\ lastSeen' = IF Lively THEN lastSeen ELSE Never
    /\ UNCHANGED tab

SessionsNext ==
    \/ \E t \in Tabs : \/ Send(t) \/ Login(t) \/ LoginFails(t) \/ Logout(t) \/ Me(t) \/ Csrf(t)
                       \/ Console(t) \/ Receive(t)
    \/ ClockTicks

SessionsSpec == SessionsInit /\ [][SessionsNext]_sessionVars

-----------------------------------------------------------------------------
(* Properties *)

\* An operator who does something in every half of a session's life stays signed in
\* until he signs out, in whatever order the answers of several tabs come back: the
\* cookie in the jar was never the last one to be renewed too early or overwritten by
\* one that is about to expire.
ActiveStaysSignedIn ==
    \A t \in Tabs :
        tab[t].stage = "sent" /\ tab[t].cookies.session # NoSession /\ Lively
            => VerifySessionToken(tab[t].cookies.session, clock)

\* Not guaranteed by the code (README, section 11).
\* The middleware renews the cookie "so an active operator gets a sliding window": what
\* an operator who is signed in writes is then not refused for want of a CSRF cookie.
ActiveOperatorWrites ==
    \A t \in Tabs : tab[t].answer # "CSRF_INVALID"

\* The guards of the console leave "GETs readable ... so enabling auth cannot black out a
\* dashboard whose login screen is not deployed yet": unless reads are protected, one
\* without a session is answered.  Not guaranteed by the code (README, section 11).
ReadsStayOpen ==
    ~ProtectReads => \A t \in Tabs : tab[t].method = "GET" => tab[t].answer # "UNAUTHORIZED"

=============================================================================
