--------------------------------- MODULE SignIn ---------------------------------
(***************************************************************************)
(* What a page knows of its session: the token in its memory, the cookies    *)
(* it shares with other pages, whether the server asks for a login at all,  *)
(* and the user it shows. Sessions end on the server, cookies end in the     *)
(* browser, other pages log in and out; the page hears of it from answers,  *)
(* which may cross each other and what the user does meanwhile.             *)
(***************************************************************************)
EXTENDS Naturals, FiniteSets

CONSTANTS
    WebRequests,    \* requests that may be under way together
    MaxSessions     \* bound on the sessions begun, here or in other pages

ASSUME SignInAssumption == MaxSessions \in Nat

NoSession == 0
Sessions == 1 .. MaxSessions

VARIABLES
    authOn,     \* server: the setting authEnabled
    valid,      \* server: the sessions that are neither over nor revoked
    begun,      \* sessions begun so far
    cookie,     \* browser: the session in the cookies, that of CSRF with it
    page,       \* AuthProvider and lib/auth.ts
    web,        \* the page's requests
    \* What the properties remember since the page was opened:
    missed,     \* it cannot know: the status was not read, or the switch turned since, or
                \* the user was answered that a password or code was wrong
    crossed     \* an answer came after a login, a logout or an end of session it preceded

signInVars == <<authOn, valid, begun, cookie, page, web, missed, crossed>>

Kinds == {"status", "me", "call", "refresh", "disable", "login", "totp", "logout", "farewell"}
Answers == {"none", "ok", "off", "code", "refused", "wrong", "failed"}
NoWebRequest == [kind |-> "none", with |-> NoSession, answer |-> "none", late |-> FALSE]
NewPage == [loaded |-> FALSE, authEnabled |-> FALSE, user |-> FALSE, memory |-> NoSession,
            expired |-> FALSE, form |-> "password"]

SignInTypeOK ==
    /\ authOn \in BOOLEAN /\ valid \subseteq Sessions /\ begun \in 0 .. MaxSessions
    /\ cookie \in Sessions \cup {NoSession}
    /\ page \in [loaded : BOOLEAN, authEnabled : BOOLEAN, user : BOOLEAN,
                 memory : Sessions \cup {NoSession}, expired : BOOLEAN,
                 form : {"password", "totp"}]
    /\ web \in [WebRequests -> [kind : Kinds \cup {"none"}, with : Sessions \cup {NoSession},
                                answer : Answers, late : BOOLEAN]]
    /\ missed \in BOOLEAN /\ crossed \in BOOLEAN

ShowsForm == page.loaded /\ page.authEnabled /\ ~ page.user
ShowsApp == page.loaded /\ (page.authEnabled => page.user)

\* request(): the token in memory, or else the cookie; kept where the server looks at it.
Credential == IF page.memory # NoSession THEN page.memory ELSE cookie
ForSession == {"me", "call", "refresh", "disable"}
Asking(kind) ==
    [NoWebRequest EXCEPT
         !.kind = kind, !.with = IF kind \in ForSession THEN Credential ELSE NoSession]
Under(kinds) == {r \in WebRequests : web[r].kind \in kinds}

--------------------------------------------------------------------------------
\* The page

\* The module's variables and the provider's states are new; loadAuth asks for the status.
OpenPage ==
    /\ page' = NewPage
    /\ \E r \in WebRequests :
         web' = [q \in WebRequests |->
           IF q = r THEN [NoWebRequest EXCEPT !.kind = "status"] ELSE NoWebRequest]
    /\ missed' = FALSE /\ crossed' = FALSE
    /\ UNCHANGED <<authOn, valid, begun, cookie>>

Sends(r, kind) ==
    /\ web[r] = NoWebRequest
    /\ web' = [web EXCEPT ![r] = Asking(kind)]
    /\ UNCHANGED <<authOn, valid, begun, cookie, page, missed, crossed>>

\* Any of the app's requests; those of the section on two-factor codes; and logging out.
UsesApp(r, kind) == ShowsApp /\ kind = "call" /\ Sends(r, kind)
UsesAccount(r, kind) ==
    /\ ShowsApp /\ page.authEnabled /\ kind \in {"refresh", "disable", "logout"}
    /\ Sends(r, kind)

\* The form is disabled while it is sent.
SubmitsForm(r) ==
    /\ ShowsForm /\ Under({"login", "totp"}) = {}
    /\ Sends(r, IF page.form = "password" THEN "login" ELSE "totp")

GoesBack ==
    /\ ShowsForm /\ page.form = "totp" /\ Under({"totp"}) = {}
    /\ page' = [page EXCEPT !.form = "password"]
    /\ UNCHANGED <<authOn, valid, begun, cookie, web, missed, crossed>>

--------------------------------------------------------------------------------
\* The server answers; when it does not, or not in time, the request has failed

SessionAnswer(r) == IF authOn /\ web[r].with \notin valid THEN "refused" ELSE "ok"

\* /auth/me and the code's routes ask for a session even if the switch is off.
SessionAnswerAlways(r) == IF web[r].with \in valid THEN "ok" ELSE "refused"

ServerAnswers(r) ==
    LET Is(kind) == web[r].kind = kind
        Gets(answer) == web' = [web EXCEPT ![r] =
                                  [web[r] EXCEPT !.answer = answer, !.with = NoSession]]
        NewSession == begun + 1
    IN
    /\ web[r] # NoWebRequest /\ web[r].answer = "none"
    /\ \/ Gets("failed") /\ UNCHANGED <<valid, begun>>
       \/ Is("status") /\ Gets(IF authOn THEN "ok" ELSE "off") /\ UNCHANGED <<valid, begun>>
       \/ Is("call") /\ Gets(SessionAnswer(r)) /\ UNCHANGED <<valid, begun>>
       \/ (Is("me") \/ Is("refresh") \/ Is("disable")) /\ Gets(SessionAnswerAlways(r))
            /\ UNCHANGED <<valid, begun>>
       \/ Is("disable") /\ SessionAnswerAlways(r) = "ok" /\ Gets("wrong")
            /\ UNCHANGED <<valid, begun>>
       \/ (Is("logout") \/ Is("farewell")) /\ Gets("ok") /\ UNCHANGED <<valid, begun>>
       \/ (Is("login") \/ Is("totp")) /\ Gets("wrong") /\ UNCHANGED <<valid, begun>>
       \/ Is("login") /\ Gets("code") /\ UNCHANGED <<valid, begun>>
       \/ /\ Is("login") \/ Is("totp")
          /\ begun < MaxSessions
          /\ begun' = NewSession /\ valid' = valid \cup {NewSession}
          /\ web' = [web EXCEPT ![r] = [web[r] EXCEPT !.answer = "ok", !.with = NewSession]]
    /\ UNCHANGED <<authOn, cookie, page, missed, crossed>>

--------------------------------------------------------------------------------
\* Answers arrive

\* The request is over, and those under way are older than what it has changed.
Over(r) == [web EXCEPT ![r] = NoWebRequest]
Outdated(requests) ==
    [q \in WebRequests |-> IF requests[q] = NoWebRequest THEN NoWebRequest
                           ELSE [requests[q] EXCEPT !.late = TRUE]]

Arrived(r, kind, answer) ==
    /\ web[r].kind = kind /\ web[r].answer = answer
    /\ crossed' = (crossed \/ web[r].late)

HasSign == page.memory # NoSession \/ cookie # NoSession

\* Mutated form: the flag is never taken back.
LoggedInExpired(r) ==
    [page EXCEPT !.memory = web[r].with, !.authEnabled = TRUE, !.user = TRUE, !.form = "password"]

\* setSessionToken and onSuccess.
LoggedIn(r) ==
    [page EXCEPT !.memory = web[r].with, !.expired = FALSE,
                 !.authEnabled = TRUE, !.user = TRUE, !.form = "password"]

\* notifyUnauthorized: the login form, and the cookies are cleared in the background; but
\* nothing when no sign of a session is left, or when it has been said already.
Notified(r, given) ==
    IF ~ HasSign \/ page.expired
    THEN page' = [given EXCEPT !.memory = NoSession] /\ web' = Over(r)
    ELSE /\ page' = [given EXCEPT !.memory = NoSession, !.expired = TRUE, !.user = FALSE]
         /\ web' = [Outdated(web) EXCEPT
                      ![r] = [NoWebRequest EXCEPT !.kind = "farewell"]]

\* loadAuth goes on to /auth/me, or ends.
StatusArrives(r) ==
    \/ /\ Arrived(r, "status", "ok")
       /\ page' = [page EXCEPT !.authEnabled = TRUE]
       /\ web' = [web EXCEPT ![r] = Asking("me")]
       /\ UNCHANGED <<cookie, missed>>
    \/ /\ Arrived(r, "status", "off")
       /\ page' = [page EXCEPT !.loaded = TRUE]
       /\ web' = Over(r)
       /\ UNCHANGED <<cookie, missed>>
    \/ /\ Arrived(r, "status", "failed")
       /\ page' = [page EXCEPT !.loaded = TRUE, !.memory = NoSession]
       /\ web' = Over(r) /\ missed' = TRUE
       /\ UNCHANGED cookie

MeArrives(r) ==
    /\ \/ /\ Arrived(r, "me", "ok")
          /\ page' = [page EXCEPT !.loaded = TRUE, !.user = TRUE] /\ web' = Over(r)
       \/ /\ Arrived(r, "me", "refused")
          /\ Notified(r, [page EXCEPT !.loaded = TRUE, !.user = FALSE])
       \/ /\ Arrived(r, "me", "failed")
          /\ page' = [page EXCEPT !.loaded = TRUE, !.memory = NoSession] /\ web' = Over(r)
    /\ UNCHANGED <<cookie, missed>>

\* A wrong code is a 401 like a refused session.
CallArrives(r) ==
    /\ \/ /\ \E kind \in {"call", "disable"}, answer \in {"ok", "failed"} :
               Arrived(r, kind, answer)
          /\ page' = page /\ web' = Over(r)
          /\ UNCHANGED missed
       \/ /\ Arrived(r, "refresh", "ok")
          /\ page' = [page EXCEPT !.user = TRUE] /\ web' = Over(r)
          /\ UNCHANGED missed
       \/ /\ Arrived(r, "refresh", "failed")
          /\ page' = page /\ web' = Over(r)
          /\ UNCHANGED missed
       \/ /\ \E kind \in {"call", "refresh", "disable"} : Arrived(r, kind, "refused")
          /\ Notified(r, page)
          /\ UNCHANGED missed
       \/ /\ Arrived(r, "disable", "wrong")
          /\ Notified(r, page)
          /\ missed' = TRUE
    /\ UNCHANGED cookie

LoginArrives(r) ==
    /\ \E kind \in {"login", "totp"} :
         \/ /\ Arrived(r, kind, "ok")
            /\ cookie' = web[r].with
            /\ page' = LoggedIn(r)
            /\ web' = Outdated(Over(r))
         \/ /\ Arrived(r, kind, "code")
            /\ page' = [page EXCEPT !.form = IF ShowsForm THEN "totp" ELSE page.form]
            /\ web' = Over(r)
            /\ UNCHANGED cookie
         \/ /\ \E answer \in {"wrong", "failed"} : Arrived(r, kind, answer)
            /\ web' = Over(r)
            /\ UNCHANGED <<cookie, page>>
    /\ UNCHANGED missed

\* The token goes and the form is shown even if logging out failed; the cookies stay then.
LogoutArrives(r) ==
    /\ \E answer \in {"ok", "failed"} :
         /\ Arrived(r, "logout", answer)
         /\ cookie' = IF answer = "ok" THEN NoSession ELSE cookie
    /\ page' = [page EXCEPT !.memory = NoSession, !.user = FALSE]
    /\ web' = Outdated(Over(r))
    /\ UNCHANGED missed

FarewellArrives(r) ==
    /\ \E answer \in {"ok", "failed"} :
         /\ Arrived(r, "farewell", answer)
         /\ cookie' = IF answer = "ok" THEN NoSession ELSE cookie
    /\ web' = Over(r)
    /\ UNCHANGED <<page, missed>>

AnswerArrives(r) ==
    /\ \/ StatusArrives(r) \/ MeArrives(r) \/ CallArrives(r)
       \/ LoginArrives(r) \/ LogoutArrives(r) \/ FarewellArrives(r)
    /\ UNCHANGED <<authOn, valid, begun>>

--------------------------------------------------------------------------------
\* The rest of the world

\* The token's time is up, or the account was changed.
SessionEnds(s) ==
    /\ s \in valid /\ valid' = valid \ {s}
    /\ UNCHANGED <<authOn, begun, cookie, page, web, missed, crossed>>

\* The cookies are given the token's time to live.
CookieEnds ==
    /\ cookie # NoSession /\ cookie \notin valid /\ cookie' = NoSession
    /\ UNCHANGED <<authOn, valid, begun, page, web, missed, crossed>>

\* Another page of this browser logs in or out.
OtherPage ==
    /\ \/ cookie' = NoSession /\ UNCHANGED <<valid, begun>>
       \/ /\ begun < MaxSessions
          /\ begun' = begun + 1 /\ valid' = valid \cup {begun + 1} /\ cookie' = begun + 1
    /\ crossed' = TRUE
    /\ UNCHANGED <<authOn, page, web, missed>>

SwitchTurned ==
    /\ authOn' = ~ authOn /\ missed' = TRUE
    /\ UNCHANGED <<valid, begun, cookie, page, web, crossed>>

SignInInit ==
    /\ authOn \in BOOLEAN /\ valid = {} /\ begun = 0 /\ cookie = NoSession
    /\ page = NewPage
    /\ \E r \in WebRequests :
         web = [q \in WebRequests |->
           IF q = r THEN [NoWebRequest EXCEPT !.kind = "status"] ELSE NoWebRequest]
    /\ missed = FALSE /\ crossed = FALSE

SignInNext ==
    \/ OpenPage \/ GoesBack \/ CookieEnds \/ OtherPage \/ SwitchTurned
    \/ \E s \in Sessions : SessionEnds(s)
    \/ \E r \in WebRequests :
         \/ \E kind \in Kinds : UsesApp(r, kind) \/ UsesAccount(r, kind)
         \/ SubmitsForm(r) \/ ServerAnswers(r) \/ AnswerArrives(r)

SignInSpec == SignInInit /\ [][SignInNext]_signInVars

--------------------------------------------------------------------------------
\* Properties

\* As long as the page could know and no answers crossed:
Tracking == ~ missed /\ ~ crossed

\* the session it shows is the one the next page of this browser would have;
OneSession == page.user /\ page.memory # NoSession => cookie \in {page.memory, NoSession}

\* it leaves the app only when its session was refused, or the user logged out or reloaded;
LeavesApp ==
    (page.user /\ ~ page'.user) =>
      \/ page' = NewPage
      \/ \E r \in WebRequests : web[r].kind = "logout" \/ web[r].answer = "refused"

\* and whenever its session is refused it shows the login form, the second time too, unless
\* nothing was left that told of a session: then it shows an app whose requests all fail.
RefusedShowsForm ==
    \A r \in WebRequests :
      (web[r].answer = "refused" /\ web'[r] # web[r] /\ page' # NewPage /\ HasSign) =>
         page'.loaded /\ page'.authEnabled /\ ~ page'.user

\* What the page shows is what the server would say (notifyUnauthorized, auth.ts:41;
\* AuthProvider, auth-provider.tsx:189).
SignInIsTrue ==
    [][Tracking' => OneSession' /\ LeavesApp /\ RefusedShowsForm]_signInVars
================================================================================
