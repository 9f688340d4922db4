------------------------------- MODULE HttpEndpoint -------------------------------
(***************************************************************************)
(* An HTTP endpoint: the session of one HttpPostEndpoint object            *)
(* (HttpEndpointImpl.cpp) on the HTTP server that all endpoints share      *)
(* (KmsHttpEPServer.cpp), the POST controller that listens to the request  *)
(* (KmsHttpPost.cpp) and the element that takes the data                   *)
(* (kmshttppostendpoint.c).                                                *)
(*                                                                         *)
(* Threads.  The server's loop runs every callback of the requests, the    *)
(* session timer and the registrations, one at a time; the application     *)
(* makes and releases the object in a thread of its own, which waits for   *)
(* the loop to register and to unregister the endpoint.  The name of the   *)
(* server is resolved in the main thread.  One action is one callback of   *)
(* the loop or one step of the application.                                *)
(*                                                                         *)
(* The clients are arbitrary.  libsoup is not in the repository: it runs   *)
(* "got-headers" once per request, then the chunks of its body, then       *)
(* "finished", also when the connection is lost.                           *)
(***************************************************************************)
EXTENDS Integers

CONSTANTS
    Clients,      \* HTTP clients; each keeps the cookie it was given
    MaxRequests   \* bound: requests made on the endpoint's URL

None == "none"
NoRequest == 0
Requests == 1 .. MaxRequests

\* A POST the controller accepts, one whose Content-Type it refuses, a preflight,
\* and the methods the server does not allow.
Methods == {"POST", "BADPOST", "OPTIONS", "GET", "PUT"}

\* A server that could not be bound, or whose name was not resolved, stays deaf.
Servers == {"none", "resolving", "running", "deaf"}

ASSUME ConstantsAssumption == MaxRequests \in Nat /\ None \notin Clients

VARIABLES
    server,       \* the one server: whether it is made, and whether it listens
    registered,   \* the URL is in the server's handlers
    urlSet,       \* the object's flag for it
    connected,    \* the object listens to the server's signals
    started,      \* sessionStarted
    told,         \* the last session event the application got
    cookie,       \* the client that was given the endpoint's cookie
    made,         \* requests made so far
    method,       \* what each request is
    client,       \* who made it
    open,         \* the requests whose connection is open
    bound,        \* kms-message: the request that keeps the session
    attached,     \* the controller's soup-message
    listening,    \* the controller follows the body of that message
    installed,    \* the endpoint follows the controller
    timer,        \* kms-timeout-id is set
    timers,       \* session timers in the loop
    fed, ended,   \* the element has its pipeline; the pipeline got end-of-stream
    feeders,      \* history: the clients whose data reached the element
    loop,         \* where the loop is in sessionTerminatedLambda
    app,          \* where the application is in the life of the object
    aborted       \* the process crashed

session == <<urlSet, connected, started, told>>
requests == <<made, method, client, open>>
upload == <<attached, listening, installed>>
clock == <<timer, timers>>
element == <<fed, ended, feeders>>
threads == <<loop, app>>
vars == <<server, registered, session, cookie, requests, bound, upload, clock, element,
          threads, aborted>>

\* Another endpoint may have made the server.
Init ==
    /\ server \in Servers
    /\ registered = FALSE /\ urlSet = FALSE /\ connected = FALSE
    /\ started = FALSE /\ told = "nothing"
    /\ cookie = None
    /\ made = 0
    /\ method = [r \in Requests |-> None] /\ client = [r \in Requests |-> None]
    /\ open = {}
    /\ bound = NoRequest
    /\ attached = NoRequest /\ listening = FALSE /\ installed = FALSE
    /\ timer = FALSE /\ timers = 0
    /\ fed = FALSE /\ ended = FALSE /\ feeders = {}
    /\ loop = "idle" /\ app = "new"
    /\ aborted = FALSE

-----------------------------------------------------------------------------
(* Pieces of the callbacks. *)

LoopFree == loop = "idle" /\ ~aborted

\* kms_http_ep_server_remove_timeout.  (KeepTimeout, which forgets the timer but
\* leaves it in the loop, and UncheckedTimeout, which does not ask whether there is
\* one, are mutants.)
KeepTimeout ==
    /\ timer' = FALSE
    /\ UNCHANGED timers

UncheckedTimeout ==
    /\ timer' = FALSE
    /\ timers' = timers - 1

RemoveTimeout ==
    /\ timer' = FALSE
    /\ timers' = IF timer THEN timers - 1 ELSE timers

\* destroy_pending_message for a GET disconnects a handler whose identifier nobody
\* stored on the message.
Crashes(r) == r # NoRequest /\ method[r] = "GET"

\* destroy_pending_message for a POST: the controller lets its message go.
\* r is the request that was bound.
Released(r) == r # NoRequest /\ method[r] \in {"POST", "BADPOST"}

\* The session belongs to the client that has the cookie; a preflight needs none.
\* (AnyCookie, which only looks for a cookie, is a mutant.)
AnyCookie(c, m) == c \in Clients
ManageCookie(c, m) == m = "OPTIONS" \/ cookie \in {None, c}

\* kms_http_ep_server_clean_http_end_point.  (CleanTimeoutOnly is a mutant.)
CleanTimeoutOnly ==
    /\ RemoveTimeout
    /\ UNCHANGED <<upload, bound>>

CleanEndPoint ==
    /\ RemoveTimeout
    /\ installed' = FALSE
    /\ bound' = NoRequest
    /\ attached' = IF Released(bound) THEN NoRequest ELSE attached
    /\ listening' = IF Released(bound) THEN FALSE ELSE listening

-----------------------------------------------------------------------------
(* An endpoint is made: the server first, if there is none, then the URL. *)

\* kms_http_ep_server_create_server: it listens, or the address cannot be bound.
CreateServer == server' \in {"running", "deaf"}

\* kms_http_ep_server_start: an address given in the configuration has to be resolved.
Start(iface) == IF iface THEN server' = "resolving" ELSE CreateServer

\* getHttpEndPointServer, by the constructor, which then asks the loop for a URL.
Construct(iface) ==
    /\ app = "new"
    /\ app' = "registering"
    /\ IF server = "none" THEN Start(iface) ELSE UNCHANGED server
    /\ UNCHANGED <<registered, session, cookie, requests, bound, upload, clock, element,
                   loop, aborted>>

\* soup_address_callback: resolved, unknown, or cancelled when its time is over.
Resolved ==
    /\ server = "resolving" /\ ~aborted
    /\ CreateServer
    /\ UNCHANGED <<registered, session, cookie, requests, bound, upload, clock, element,
                   threads, aborted>>

\* The object hears of its URL in the loop, connects to the server's signals and goes on.
HearUrl == connected' = TRUE /\ urlSet' = TRUE /\ app' = "using"

\* register_end_point_cb, whatever the server does by then.
Register ==
    /\ LoopFree /\ app = "registering"
    /\ registered' = TRUE
    /\ HearUrl
    /\ UNCHANGED <<server, started, told, cookie, requests, bound, upload, clock, element,
                   loop, aborted>>

-----------------------------------------------------------------------------
(* Requests: the callbacks libsoup runs in the loop. *)

\* The URL is a new one: nobody asks for it before the application has it.
NewRequest(c, m) ==
    /\ LoopFree /\ made < MaxRequests
    /\ server = "running" /\ app \notin {"new", "registering"}
    /\ UNCHANGED server
    /\ made' = made + 1
    /\ method' = [method EXCEPT ![made'] = m]
    /\ client' = [client EXCEPT ![made'] = c]

\* got_headers_handler, the URL is not registered or the cookie is not the client's.
RequestDeclined(c, m) ==
    /\ NewRequest(c, m)
    /\ ~registered \/ ~ManageCookie(c, m)
    /\ UNCHANGED <<registered, session, cookie, open, bound, upload, clock, element,
                   threads, aborted>>

\* install_http_post_signals: the controller follows the new message; a POST that
\* it refuses is not heard.
InstallPostSignals(m) ==
    attached' = made' /\ listening' = (m = "POST") /\ installed' = TRUE

\* got_headers_handler, the request takes the session over.
GotHeaders(c, m) ==
    /\ NewRequest(c, m)
    /\ registered /\ ManageCookie(c, m)
    /\ cookie' = IF m # "OPTIONS" /\ cookie = None THEN c ELSE cookie
    /\ RemoveTimeout
    /\ bound' = made'
    /\ aborted' = Crashes(bound)
    /\ IF m \in {"POST", "BADPOST"}
       THEN InstallPostSignals(m)
       ELSE /\ attached' = IF Released(bound) THEN NoRequest ELSE attached
            /\ listening' = IF Released(bound) THEN FALSE ELSE listening
            /\ UNCHANGED installed
    /\ open' = IF m = "POST" THEN open \union {made'} ELSE open
    /\ IF m \in {"POST", "BADPOST"} /\ connected /\ ~started
       THEN started' = TRUE /\ told' = "started"
       ELSE UNCHANGED <<started, told>>
    /\ UNCHANGED <<registered, urlSet, connected, element, threads>>

\* The element's push-buffer and end-of-stream actions: the first buffer makes its
\* pipeline, and after end-of-stream it refuses buffers.
PushBuffer(c) ==
    /\ fed' = TRUE
    /\ feeders' = IF ended THEN feeders ELSE feeders \union {c}

EndOfStream == ended' = (ended \/ fed)

GotChunk(r) ==
    /\ LoopFree /\ r \in open
    /\ attached = r /\ listening /\ installed
    /\ PushBuffer(client[r])
    /\ UNCHANGED <<server, registered, session, cookie, requests, bound, upload, clock,
                   ended, threads, aborted>>

\* finished_cb of a message the controller does not follow any more.
FinishedUnheard(r) ==
    /\ LoopFree /\ r \in open
    /\ ~(attached = r /\ listening)
    /\ open' = open \ {r}
    /\ UNCHANGED <<server, registered, session, cookie, made, method, client, bound, upload,
                   clock, element, threads, aborted>>

\* emit_expiration_signal: the session waits for another request.  (NoTimeout is a
\* mutant.)
NoTimeout == UNCHANGED clock
StartTimeout == timer' = TRUE /\ timers' = timers + 1

\* finished_cb and finished_post_cb: end-of-stream, and the session timer if a
\* request is bound.
Finished(r) ==
    /\ LoopFree /\ r \in open
    /\ attached = r /\ listening
    /\ open' = open \ {r}
    /\ attached' = NoRequest /\ listening' = FALSE
    /\ IF installed THEN EndOfStream ELSE UNCHANGED ended
    /\ IF installed /\ bound # NoRequest
       THEN StartTimeout /\ bound' = NoRequest
       ELSE UNCHANGED <<clock, bound>>
    /\ UNCHANGED <<server, registered, session, cookie, made, method, client, installed,
                   fed, feeders, threads, aborted>>

-----------------------------------------------------------------------------
(* The end of a session. *)

\* emit_expiration_signal_cb: the timer leaves the loop.  sessionTerminatedLambda
\* disconnects and unregisters at once, as it runs in the loop; it then goes on.
Expire ==
    /\ LoopFree /\ timers > 0
    /\ IF connected
       THEN /\ connected' = FALSE
            /\ CleanEndPoint
            /\ registered' = FALSE /\ urlSet' = FALSE
            /\ aborted' = Crashes(bound)
            /\ loop' = "terminating"
       ELSE /\ timers' = timers - 1 /\ timer' = FALSE
            /\ UNCHANGED <<registered, urlSet, connected, bound, upload, loop, aborted>>
    /\ UNCHANGED <<server, started, told, cookie, requests, element, app>>

\* The rest of sessionTerminatedLambda: the object may be gone by now, and what it
\* then reads is arbitrary.
Terminate ==
    /\ loop = "terminating" /\ ~aborted
    /\ loop' = "idle"
    /\ IF app = "freed"
       THEN aborted' \in BOOLEAN /\ UNCHANGED <<started, told>>
       ELSE /\ started' = FALSE
            /\ told' = IF started /\ app = "using" THEN "terminated" ELSE told
            /\ UNCHANGED aborted
    /\ UNCHANGED <<server, registered, urlSet, connected, cookie, requests, bound, upload,
                   clock, element, app>>

\* ~HttpEndpointImpl disconnects, then unregisters unless that was done.
Release ==
    /\ app = "using" /\ ~aborted
    /\ app' = "releasing"
    /\ connected' = FALSE
    /\ UNCHANGED <<server, registered, urlSet, started, told, cookie, requests, bound,
                   upload, clock, element, loop, aborted>>

ReleaseUrl ==
    /\ app = "releasing" /\ ~aborted
    /\ app' = IF urlSet THEN "waiting" ELSE "freed"
    /\ UNCHANGED <<server, registered, session, cookie, requests, bound, upload, clock,
                   element, loop, aborted>>

\* unregister_end_point_cb, while the application waits.
Unregister ==
    /\ LoopFree /\ app = "waiting"
    /\ IF registered
       THEN CleanEndPoint /\ aborted' = Crashes(bound)
       ELSE UNCHANGED <<bound, upload, clock, aborted>>
    /\ registered' = FALSE /\ urlSet' = FALSE
    /\ app' = "freed"
    /\ UNCHANGED <<server, connected, started, told, cookie, requests, element, loop>>

-----------------------------------------------------------------------------

Next ==
    \/ \E iface \in BOOLEAN : Construct(iface)
    \/ Resolved \/ Register
    \/ \E c \in Clients, m \in Methods : RequestDeclined(c, m) \/ GotHeaders(c, m)
    \/ \E r \in Requests : GotChunk(r) \/ FinishedUnheard(r) \/ Finished(r)
    \/ Expire \/ Terminate
    \/ Release \/ ReleaseUrl \/ Unregister

Spec == Init /\ [][Next]_vars

\* The loop runs its timers and what it was asked to do, and ends what it began; a
\* release goes on.  No client has to do anything.
Fairness ==
    /\ WF_vars(Register)
    /\ WF_vars(Unregister)
    /\ WF_vars(ReleaseUrl)
    /\ WF_vars(Expire)
    /\ WF_vars(Terminate)

FairSpec == Spec /\ Fairness

-----------------------------------------------------------------------------
(* Properties. *)

Flags ==
    /\ registered \in BOOLEAN /\ urlSet \in BOOLEAN /\ connected \in BOOLEAN
    /\ started \in BOOLEAN /\ listening \in BOOLEAN /\ installed \in BOOLEAN
    /\ timer \in BOOLEAN /\ fed \in BOOLEAN /\ ended \in BOOLEAN
    /\ aborted \in BOOLEAN

Values ==
    /\ server \in Servers
    /\ told \in {"nothing", "started", "terminated"}
    /\ cookie \in Clients \union {None}
    /\ made \in 0 .. MaxRequests
    /\ method \in [Requests -> Methods \union {None}]
    /\ client \in [Requests -> Clients \union {None}]
    /\ open \subseteq Requests
    /\ bound \in 0 .. MaxRequests /\ attached \in 0 .. MaxRequests
    /\ timers \in Nat
    /\ feeders \subseteq Clients
    /\ loop \in {"idle", "terminating"}
    /\ app \in {"new", "registering", "using", "releasing", "waiting", "freed"}

TypeOK == Flags /\ Values

(***************************************************************************)
(* A session never expires under an upload: while the controller follows   *)
(* the body of a request, no session timer is in the loop and that request *)
(* is the one that keeps the session, whatever requests came in between.   *)
(***************************************************************************)
UploadKeepsSession ==
    (attached # NoRequest /\ listening) => timers = 0 /\ bound = attached

(***************************************************************************)
(* The media of an endpoint comes from one client, the one that was given  *)
(* the cookie, although preflights of others pass without it.              *)
(***************************************************************************)
OneFeeder == feeders \subseteq {cookie}

(***************************************************************************)
(* When the application has been told that the session terminated, nothing *)
(* of it is left: no URL, no timer, no upload that could still deliver.    *)
(***************************************************************************)
TerminatedIsQuiet ==
    (told = "terminated" /\ ~aborted)
        => /\ ~registered /\ timers = 0
           /\ bound = NoRequest /\ attached = NoRequest /\ ~installed

\* The endpoint is out of reach of its timer: the process is gone, the application
\* released the object, or an upload goes on.
Excused == aborted \/ app # "using" \/ (attached # NoRequest /\ listening)

\* The session is kept by a request that will never be reported finished: a
\* preflight, a refused POST or a method that is not allowed.
KeptByDeadRequest == bound # NoRequest /\ method[bound] # "POST"

(***************************************************************************)
(* A session that started terminates once no upload is under way, unless   *)
(* it is kept by a request whose end nobody follows; and the application,  *)
(* which waits for the loop without a limit when it makes and when it      *)
(* releases the object, gets its answer although the loop may be at the    *)
(* end of the same session, even when the server never came up.            *)
(***************************************************************************)
Terminates ==
    (told = "started") ~> (told = "terminated" \/ Excused \/ KeptByDeadRequest)

CallsReturn ==
    (app \in {"registering", "releasing", "waiting"}) ~> (app \in {"using", "freed"} \/ aborted)

SessionEnds == Terminates /\ CallsReturn

(***************************************************************************)
(* disconnectionTimeout "is the time that an http endpoint will wait for a *)
(* reconnection, in case an HTTP connection is lost": a session whose      *)
(* upload began does not wait forever when the upload is over.             *)
(***************************************************************************)
ReconnectionIsTimed ==
    (told = "started" /\ fed) ~> (told = "terminated" \/ Excused)

==================================================================================
