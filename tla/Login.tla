-------------------------------- MODULE Login --------------------------------
(***************************************************************************)
(* How the server logs in to the cloud: pkg/api/client.go, Login,          *)
(* LoginWithCaptcha, postLogin; pkg/web/handler.go, the login handlers;    *)
(* cmd/server/main.go, attemptLogin; static/login.html, the page that      *)
(* shows a captcha and lets its user answer it or ask for another.         *)
(*                                                                         *)
(* The API client's mutex makes each call to the cloud one step. What a    *)
(* handler read before it, and what it stores after it, are steps of their *)
(* own, and the handlers of several pages and the attempt at the start of  *)
(* the server interleave.                                                  *)
(***************************************************************************)
EXTENDS Integers, FiniteSets

CONSTANTS
    Pages,         \* browser tabs on /login
    Boot,          \* attemptLogin
    Challenges,    \* identities of captchas; only whether two differ counts
    None,
    MaxErrors,     \* bound on the posts that fail for another reason
    MaxExpiries    \* bound on the tokens that expire

Actors == Pages \cup {Boot}

ASSUME LoginAssumption == /\ Boot \notin Pages /\ IsFiniteSet(Pages)
                          /\ Challenges \subseteq Nat /\ None \notin Challenges
                          /\ MaxErrors \in Nat /\ MaxExpiries \in Nat

VARIABLES
    token,           \* of the API client: "none", "valid" or "expired"
    lastLoginReq,    \* whether there is one to post again
    loggedIn, captcha, \* of the web server
    call,            \* what each actor's call to the API is about
    latest,          \* the challenge the cloud issued last
    view, sees,      \* what each page shows, and which challenge
    loads,           \* loaders that have not yet asked for the stations
    stations,        \* the stations are loaded
    errors, expiries

api    == <<token, lastLoginReq>>
server == <<loggedIn, captcha>>
pages  == <<view, sees>>
load   == <<loads, stations>>
vars   == <<api, server, call, latest, pages, load, errors, expiries>>

Idle == [at |-> "idle", id |-> None, right |-> FALSE, result |-> "none"]

\* Login has no answer to a challenge.
LoginCall == [Idle EXCEPT !.at = "api"]

AnswerCall(id, right) == [LoginCall EXCEPT !.id = id, !.right = right]

Init ==
    /\ token = "none"
    /\ lastLoginReq = FALSE
    /\ loggedIn = FALSE
    /\ captcha = None
    /\ call = [a \in Actors |-> IF a = Boot THEN LoginCall ELSE Idle]
    /\ latest = None
    /\ view = [p \in Pages |-> "checking"]
    /\ sees = [p \in Pages |-> None]
    /\ loads = 0
    /\ stations = FALSE
    /\ errors = 0
    /\ expiries = 0

-----------------------------------------------------------------------------
(* The API client and the cloud.                                           *)

InUse == {captcha, latest} \cup {call[a].id : a \in Actors} \cup {sees[p] : p \in Pages}

Result(a, r) == call' = [call EXCEPT ![a].at = "assign", ![a].result = r]

\* postLogin: the cloud lets the user in, or asks for (another) captcha, or
\* something else is wrong: no answer, a second factor, a wrong password. An
\* answer to a challenge it has replaced may still be good.
Post(a) ==
    LET c == call[a] IN
    \/ /\ c.id = None \/ c.right
       /\ Result(a, "ok")
       /\ token' = "valid"
       /\ UNCHANGED <<latest, errors>>
    \/ /\ ~(c.right /\ c.id = latest)
       /\ \E id \in Challenges \ InUse :
             /\ \A j \in Challenges \ InUse : id <= j
             /\ latest' = id
             /\ call' = [call EXCEPT ![a] = [c EXCEPT !.at = "assign", !.result = "captcha", !.id = id]]
       /\ UNCHANGED <<token, errors>>
    \/ /\ errors < MaxErrors
       /\ errors' = errors + 1
       /\ Result(a, "error")
       /\ UNCHANGED <<token, latest>>

\* Mutant: only a login that goes well leaves a request to post again.
CallApiForgets(a) ==
    /\ call[a].at = "api"
    /\ IF token = "valid" /\ (call[a].id = None \/ ~lastLoginReq)
       THEN Result(a, "ok") /\ UNCHANGED <<api, latest, errors>>
       ELSE Post(a) /\ lastLoginReq' = (lastLoginReq \/ token' = "valid")
    /\ UNCHANGED <<server, pages, load, expiries>>

\* A login with a token that is still valid asks nobody; an answer is posted
\* in any case.
CallApi(a) ==
    /\ call[a].at = "api"
    /\ IF token = "valid" /\ (call[a].id = None \/ ~lastLoginReq)
       THEN Result(a, "ok") /\ UNCHANGED <<api, latest, errors>>
       ELSE Post(a) /\ lastLoginReq' = TRUE
    /\ UNCHANGED <<server, pages, load, expiries>>

Expire ==
    /\ token = "valid" /\ expiries < MaxExpiries
    /\ token' = "expired"
    /\ expiries' = expiries + 1
    /\ UNCHANGED <<lastLoginReq, server, call, latest, pages, load, errors>>

-----------------------------------------------------------------------------
(* attemptLogin and the loaders.                                           *)

BootDone ==
    /\ call[Boot].at = "assign"
    /\ call' = [call EXCEPT ![Boot] = Idle]
    /\ CASE call[Boot].result = "ok" ->
              loggedIn' = TRUE /\ loads' = loads + 1 /\ UNCHANGED captcha
         [] call[Boot].result = "captcha" ->
              captcha' = call[Boot].id /\ UNCHANGED <<loggedIn, loads>>
         [] OTHER -> UNCHANGED <<server, loads>>
    /\ UNCHANGED <<api, latest, pages, stations, errors, expiries>>

\* GetStations; a loader that fails is not started again.
Load ==
    /\ loads > 0
    /\ loads' = loads - 1
    /\ \/ token = "valid" /\ stations' = TRUE /\ UNCHANGED errors
       \/ /\ token # "valid" \/ errors < MaxErrors
          /\ errors' = IF token = "valid" THEN errors + 1 ELSE errors
          /\ UNCHANGED stations
    /\ UNCHANGED <<api, server, call, latest, pages, expiries>>

-----------------------------------------------------------------------------
(* The pages and their handlers.                                           *)

Show(p, v) == view' = [view EXCEPT ![p] = v]

\* checkStatus, with what LoginStatusHandler answers.
CheckStatus(p) ==
    /\ view[p] = "checking"
    /\ \/ loggedIn /\ Show(p, "connecting")
       \/ ~loggedIn /\ captcha # None /\ Show(p, "fetching")
    /\ UNCHANGED <<api, server, call, latest, sees, load, errors, expiries>>

\* loadCaptchaImage, with what LoginCaptchaDataHandler answers.
FetchCaptcha(p) ==
    /\ view[p] = "fetching"
    /\ sees' = [sees EXCEPT ![p] = captcha]
    /\ Show(p, "captcha")
    /\ UNCHANGED <<api, server, call, latest, load, errors, expiries>>

Ready(p) == view[p] = "captcha" /\ call[p] = Idle

\* The answer is to what the page shows; the handler adds the challenge the
\* server holds now. Without one the page stays as it is.
Submit(p, knows) ==
    /\ Ready(p) /\ sees[p] # None
    /\ captcha # None
    /\ call' = [call EXCEPT ![p] = AnswerCall(captcha, knows /\ sees[p] = captcha)]
    /\ UNCHANGED <<api, server, latest, pages, load, errors, expiries>>

Refresh(p) ==
    /\ Ready(p)
    /\ call' = [call EXCEPT ![p] = LoginCall]
    /\ UNCHANGED <<api, server, latest, pages, load, errors, expiries>>

\* Mutant: the new challenge goes to the page only.
RespondKeepsChallenge(p) ==
    /\ call[p].at = "assign"
    /\ call' = [call EXCEPT ![p] = Idle]
    /\ CASE call[p].result = "ok" ->
              /\ loggedIn' = TRUE
              /\ captcha' = None
              /\ loads' = loads + 1
              /\ Show(p, "connecting")
         [] call[p].result = "captcha" ->
              Show(p, "fetching") /\ UNCHANGED <<server, loads>>
         [] OTHER -> UNCHANGED <<server, loads, view>>
    /\ UNCHANGED <<api, latest, sees, stations, errors, expiries>>

\* The end of LoginSubmitHandler and of LoginRefreshHandler, and what the page
\* does with the response.
Respond(p) ==
    /\ call[p].at = "assign"
    /\ call' = [call EXCEPT ![p] = Idle]
    /\ CASE call[p].result = "ok" ->
              /\ loggedIn' = TRUE
              /\ captcha' = None
              /\ loads' = loads + 1
              /\ Show(p, "connecting")
         [] call[p].result = "captcha" ->
              /\ captcha' = call[p].id
              /\ Show(p, "fetching")
              /\ UNCHANGED <<loggedIn, loads>>
         [] OTHER -> UNCHANGED <<server, loads, view>>
    /\ UNCHANGED <<api, latest, sees, stations, errors, expiries>>

\* pollStatus leaves for the index page when a station is connected.
Poll(p) ==
    /\ view[p] = "connecting" /\ stations
    /\ Show(p, "index")
    /\ sees' = [sees EXCEPT ![p] = None]
    /\ UNCHANGED <<api, server, call, latest, load, errors, expiries>>

\* The user opens /login again, once it has loaded.
Reload(p) ==
    /\ view[p] \in {"captcha", "connecting", "index"}
    /\ call[p] = Idle
    /\ Show(p, "checking")
    /\ sees' = [sees EXCEPT ![p] = None]
    /\ UNCHANGED <<api, server, call, latest, load, errors, expiries>>

Next ==
    \/ \E a \in Actors : CallApi(a)
    \/ Expire
    \/ BootDone
    \/ Load
    \/ \E p \in Pages : \/ CheckStatus(p) \/ FetchCaptcha(p) \/ Refresh(p) \/ Respond(p)
                        \/ Poll(p) \/ Reload(p)
                        \/ \E knows \in BOOLEAN : Submit(p, knows)

Spec == Init /\ [][Next]_vars

\* Requests have a timeout, and the page asks again every second. No user has
\* to do anything.
Fairness ==
    /\ \A a \in Actors : WF_vars(CallApi(a))
    /\ WF_vars(BootDone) /\ WF_vars(Load)
    /\ \A p \in Pages : /\ WF_vars(CheckStatus(p)) /\ WF_vars(FetchCaptcha(p))
                        /\ WF_vars(Respond(p)) /\ WF_vars(Poll(p))

FairSpec == Spec /\ Fairness

-----------------------------------------------------------------------------
(* Properties.                                                             *)

\* Every variable has its type, and a challenge comes with the login request it
\* belongs to: LoginWithCaptcha has something to post again.
TypeOK ==
    /\ token \in {"none", "valid", "expired"}
    /\ lastLoginReq \in BOOLEAN /\ loggedIn \in BOOLEAN /\ stations \in BOOLEAN
    /\ captcha \in Challenges \cup {None} /\ latest \in Challenges \cup {None}
    /\ call \in [Actors -> [at : {"idle", "api", "assign"}, id : Challenges \cup {None},
                            right : BOOLEAN, result : {"none", "ok", "captcha", "error"}]]
    /\ view \in [Pages -> {"checking", "fetching", "captcha", "connecting", "index"}]
    /\ sees \in [Pages -> Challenges \cup {None}]
    /\ loads \in 0 .. Cardinality(Actors)
    /\ errors \in 0 .. MaxErrors /\ expiries \in 0 .. MaxExpiries
    /\ captcha # None => lastLoginReq

\* A user who answers whatever the page goes on showing, and not always wrongly.
Persistent(p) == SF_vars(Submit(p, TRUE))

OthersIdle(p) == \A a \in Actors \ {p} : call[a] = Idle

\* Handlers of several pages replace each other's challenges, store them out of
\* order, and join an answer to a challenge its user did not see. Whatever they
\* have left behind: once the others leave the login alone, a user who goes
\* on answering gets the server logged in.
CaptchaGetsIn ==
    \A p \in Pages : <>[]OthersIdle(p) /\ Persistent(p) => (captcha # None ~> loggedIn)

\* What attemptLogin says when it fails: the login can be tried again at /login.
RetryAtLogin == <>loggedIn

\* What the README says: the server maintains its session on its own.
SessionMaintained == token = "expired" ~> token = "valid"
=============================================================================
