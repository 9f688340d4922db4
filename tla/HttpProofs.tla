------------------------------- MODULE HttpProofs -------------------------------
(***************************************************************************)
(* Theorems about the HTTP endpoint.                                        *)
(*                                                                          *)
(* Its session (HttpEndpoint), for every set of clients and every number    *)
(* of requests: it does not expire under an upload, one client feeds it,    *)
(* and nothing is left of it when it ended.                                 *)
(*                                                                          *)
(* The parser of its POST requests (PostParser), for every set of requests  *)
(* and every way to cut them: what is delivered is the content of the       *)
(* first part with a file (PostUpload).  The argument goes through the      *)
(* body: the positions of its delimiters and lines, no delimiter in         *)
(* between, and the parser always at a place that fits its state.           *)
(*                                                                          *)
(* Last, both of them in the endpoint (MCHttp).                             *)
(***************************************************************************)
EXTENDS MCHttp, SequenceTheorems, WellFoundedInduction, TLAPS

(* What the code remembers of its timer is what is in the loop, and while   *)
(* a request is bound no timer is.                                          *)
Clock ==
    /\ timers = IF timer THEN 1 ELSE 0
    /\ bound # NoRequest => ~timer

(* The message of the controller is the one that is bound; it is a POST of  *)
(* the client that has the cookie, and one that is heard was accepted.      *)
Follows ==
    /\ bound <= made /\ \A r \in 1 .. made : client[r] \in Clients
    /\ listening => attached # NoRequest /\ method[attached] = "POST"
    /\ attached # NoRequest =>
         bound = attached /\ Released(bound) /\ client[attached] = cookie

(* From the end of a session on, before the application hears of it,        *)
(* nothing of it is left that could begin it again.                         *)
Made == app \notin {"new", "registering"}

Over ==
    /\ connected => Made
    /\ (loop = "terminating" \/ told = "terminated") /\ ~aborted
         => Made /\ ~registered /\ ~connected /\ ~timer /\ bound = NoRequest /\ ~installed

IInv == TypeOK /\ Clock /\ Follows /\ Over /\ OneFeeder

-----------------------------------------------------------------------------

LEMMA InitHolds == Init => IInv
<1> SUFFICES ASSUME Init PROVE IInv
    OBVIOUS
<1>1. TypeOK
  <2>1. /\ method \in [Requests -> Methods \union {None}]
        /\ client \in [Requests -> Clients \union {None}]
    BY DEF Init
  <2>2. made \in 0 .. MaxRequests /\ bound \in 0 .. MaxRequests /\ attached \in 0 .. MaxRequests
    BY ConstantsAssumption DEF Init, NoRequest
  <2> QED  BY <2>1, <2>2 DEF Init, TypeOK, Flags, Values
<1>2. Clock /\ Follows /\ Over /\ OneFeeder
    BY ConstantsAssumption DEF Init, Clock, Follows, Over, Made, OneFeeder, NoRequest
<1> QED  BY <1>1, <1>2 DEF IInv

(* kms_http_ep_server_remove_timeout takes the one timer there is.          *)
LEMMA TimeoutRemoved ==
    ASSUME IInv, RemoveTimeout
    PROVE  timer' = FALSE /\ timers' = 0
  BY DEF IInv, TypeOK, Flags, Values, Clock, RemoveTimeout

(* kms_http_ep_server_clean_http_end_point takes all of a session with it.  *)
LEMMA Cleaned ==
    ASSUME IInv, CleanEndPoint
    PROVE  /\ timer' = FALSE /\ timers' = 0
           /\ bound' = NoRequest /\ installed' = FALSE
           /\ attached' = NoRequest /\ listening' = FALSE
<1>1. timer' = FALSE /\ timers' = 0
    BY TimeoutRemoved DEF CleanEndPoint
<1>2. bound' = NoRequest /\ installed' = FALSE
    BY DEF CleanEndPoint
<1>3. attached' = NoRequest /\ listening' = FALSE
  <2>1. CASE Released(bound)
    BY <2>1 DEF CleanEndPoint
  <2>2. CASE ~Released(bound)
    BY <2>2 DEF IInv, TypeOK, Flags, Values, Follows, CleanEndPoint
  <2> QED  BY <2>1, <2>2
<1> QED  BY <1>1, <1>2, <1>3

(* The object's life, without the loop. *)
LEMMA LifeStep ==
    ASSUME IInv,
           \/ \E iface \in BOOLEAN : Construct(iface)
           \/ Resolved \/ Register \/ Release \/ ReleaseUrl
    PROVE  IInv'
<1> USE DEF session, requests, upload, clock, element, threads
<1>1. TypeOK'
  <2> USE DEF IInv, TypeOK, Flags, Values
  <2>1. CASE \E iface \in BOOLEAN : Construct(iface)
    <3>1. server' \in Servers
      BY <2>1 DEF Construct, Start, CreateServer, Servers
    <3> QED  BY <2>1, <3>1 DEF Construct
  <2>2. CASE Resolved
    <3>1. server' \in Servers
      BY <2>2 DEF Resolved, CreateServer, Servers
    <3> QED  BY <2>2, <3>1 DEF Resolved
  <2>3. CASE Register
    BY <2>3 DEF Register, HearUrl
  <2>4. CASE Release \/ ReleaseUrl
    <3>1. app' \in {"releasing", "waiting", "freed"}
      BY <2>4 DEF Release, ReleaseUrl
    <3>2. Flags'
      <4>1. CASE Release
        BY <4>1 DEF Release
      <4>2. CASE ReleaseUrl
        BY <4>2 DEF ReleaseUrl
      <4> QED  BY <2>4, <4>1, <4>2
    <3>3. Values'
      BY <2>4, <3>1 DEF Release, ReleaseUrl
    <3> QED  BY <3>2, <3>3
  <2> QED  BY <2>1, <2>2, <2>3, <2>4
<1>2. Clock' /\ Follows' /\ OneFeeder'
    BY DEF IInv, Clock, Follows, Released, OneFeeder, Construct, Resolved, Register, HearUrl,
           Release, ReleaseUrl
<1>3. Over'
    BY DEF IInv, TypeOK, Flags, Values, Over, Made, Construct, Resolved, Register, HearUrl,
           Release, ReleaseUrl, LoopFree
<1> QED  BY <1>1, <1>2, <1>3 DEF IInv

(* A new request leaves what is known of the earlier ones. *)
LEMMA RequestIsNew ==
    ASSUME IInv, NEW c \in Clients, NEW m \in Methods, NewRequest(c, m)
    PROVE  /\ made' \in Requests /\ made' = made + 1 /\ made' \in 0 .. MaxRequests
           /\ attached # made' /\ bound # made' /\ bound <= made' /\ made' # NoRequest
           /\ method' \in [Requests -> Methods \union {None}] /\ method'[made'] = m
           /\ client' \in [Requests -> Clients \union {None}] /\ client'[made'] = c
           /\ \A r \in Requests : r # made' => method'[r] = method[r] /\ client'[r] = client[r]
           /\ \A r \in 1 .. made' : client'[r] \in Clients
           /\ server' \in Servers
           /\ bound \in 0 .. MaxRequests /\ attached \in 0 .. MaxRequests
<1>1. made' = made + 1 /\ made \in Nat /\ made' <= MaxRequests
    BY ConstantsAssumption DEF IInv, TypeOK, Flags, Values, NewRequest
<1>2. made' \in Requests /\ made' \in 0 .. MaxRequests /\ made' # NoRequest
    BY <1>1, ConstantsAssumption DEF Requests, NoRequest
<1>3. attached # made' /\ bound # made' /\ bound <= made'
    BY <1>1, <1>2 DEF IInv, TypeOK, Flags, Values, Follows
<1>4. method' = [method EXCEPT ![made'] = m] /\ client' = [client EXCEPT ![made'] = c]
    BY DEF NewRequest
<1>5. server' \in Servers
    BY DEF IInv, TypeOK, Flags, Values, NewRequest
<1>6. \A r \in Requests : r # made' => client'[r] = client[r]
    BY <1>2, <1>4 DEF IInv, TypeOK, Flags, Values
<1>7. \A r \in 1 .. made' : client'[r] \in Clients
    BY <1>1, <1>2, <1>4, <1>6 DEF IInv, TypeOK, Flags, Values, Follows, Requests
<1> QED  BY <1>1, <1>2, <1>3, <1>4, <1>5, <1>6, <1>7 DEF IInv, TypeOK, Flags, Values

LEMMA RequestDeclinedStep ==
    ASSUME IInv, NEW c \in Clients, NEW m \in Methods, RequestDeclined(c, m)
    PROVE  IInv'
<1>1. NewRequest(c, m)
    BY DEF RequestDeclined
<1> USE RequestIsNew, <1>1 DEF RequestDeclined, session, upload, clock, element, threads
<1>2. TypeOK'
    BY DEF IInv, TypeOK, Flags, Values
<1>3. Follows'
  <2>1. CASE attached = NoRequest
    BY <2>1 DEF IInv, Follows
  <2>2. CASE attached # NoRequest
    <3>1. attached \in Requests /\ method'[attached] = method[attached]
          /\ client'[attached] = client[attached]
      BY <2>2 DEF IInv, Follows, Requests, NoRequest
    <3> QED  BY <2>2, <3>1 DEF IInv, Follows, Released
  <2> QED  BY <2>1, <2>2
<1>4. Clock' /\ Over' /\ OneFeeder'
    BY DEF IInv, Clock, Over, Made, OneFeeder, NewRequest
<1> QED  BY <1>2, <1>3, <1>4 DEF IInv

(* A request takes the session over, the controller follows it or lets go.  *)
LEMMA GotHeadersStep ==
    ASSUME IInv, NEW c \in Clients, NEW m \in Methods, GotHeaders(c, m)
    PROVE  IInv'
<1> USE DEF session, requests, upload, clock, element, threads
<1>1. NewRequest(c, m)
    BY DEF GotHeaders
<1>2. timer' = FALSE /\ timers' = 0
    BY TimeoutRemoved DEF GotHeaders
<1>3. cookie' \in Clients \union {None} /\ (cookie # None => cookie' = cookie)
      /\ (m # "OPTIONS" => cookie' = c)
    BY DEF IInv, TypeOK, Flags, Values, GotHeaders, ManageCookie
<1>4. \/ /\ m \in {"POST", "BADPOST"}
         /\ attached' = made' /\ listening' = (m = "POST") /\ installed' = TRUE
      \/ /\ m \notin {"POST", "BADPOST"}
         /\ attached' = NoRequest /\ listening' = FALSE /\ installed' = installed
  <2>1. CASE m \in {"POST", "BADPOST"}
    BY <2>1 DEF GotHeaders, InstallPostSignals
  <2>2. CASE m \notin {"POST", "BADPOST"} /\ Released(bound)
    BY <2>2 DEF GotHeaders
  <2>3. CASE m \notin {"POST", "BADPOST"} /\ ~Released(bound)
    BY <2>3 DEF IInv, TypeOK, Flags, Values, Follows, GotHeaders
  <2> QED  BY <2>1, <2>2, <2>3
<1>5. TypeOK'
  <2>1. /\ made' \in 0 .. MaxRequests /\ bound' \in 0 .. MaxRequests
        /\ attached' \in 0 .. MaxRequests /\ open' \subseteq Requests
        /\ listening' \in BOOLEAN /\ installed' \in BOOLEAN
    <3>1. open' \subseteq Requests
      BY <1>1, RequestIsNew DEF IInv, TypeOK, Flags, Values, GotHeaders
    <3>2. bound' = made' /\ NoRequest \in 0 .. MaxRequests
      BY ConstantsAssumption DEF GotHeaders, NoRequest
    <3> QED  BY <1>1, <1>4, <3>1, <3>2, RequestIsNew DEF IInv, TypeOK, Flags, Values
  <2>2. started' \in BOOLEAN /\ told' \in {"nothing", "started", "terminated"}
    BY DEF IInv, TypeOK, Flags, Values, GotHeaders
  <2>3. aborted' \in BOOLEAN /\ timers' \in Nat
    BY <1>2 DEF GotHeaders, Crashes
  <2> QED  BY <1>1, <1>2, <1>3, <2>1, <2>2, <2>3, RequestIsNew
           DEF IInv, TypeOK, Flags, Values, GotHeaders
<1>6. Clock'
    BY <1>2 DEF Clock
<1>7. Follows'
  <2>1. bound' = made' /\ bound' <= made'
    BY <1>1, RequestIsNew, ConstantsAssumption DEF GotHeaders
  <2>2. method'[made'] = m /\ client'[made'] = c
    BY <1>1, RequestIsNew
  <2>3. \A r \in 1 .. made' : client'[r] \in Clients
    BY <1>1, RequestIsNew
  <2>4. CASE m \in {"POST", "BADPOST"}
    <3>1. made' # NoRequest
      BY <1>1, RequestIsNew
    <3>2. Released(bound)' /\ client'[attached'] = cookie' /\ bound' = attached'
      BY <1>3, <1>4, <2>1, <2>2, <2>4, <3>1 DEF Released
    <3>3. listening' => attached' # NoRequest /\ method'[attached'] = "POST"
      BY <1>4, <2>2, <2>4, <3>1
    <3> QED  BY <2>1, <2>3, <3>2, <3>3 DEF Follows
  <2>5. CASE m \notin {"POST", "BADPOST"}
    BY <1>4, <2>1, <2>3, <2>5 DEF Follows
  <2> QED  BY <2>4, <2>5
<1>8. OneFeeder'
    BY <1>3, ConstantsAssumption DEF IInv, TypeOK, Flags, Values, OneFeeder, GotHeaders
<1>9. Over'
    BY DEF IInv, Over, Made, GotHeaders, LoopFree, NewRequest
<1> QED  BY <1>5, <1>6, <1>7, <1>8, <1>9 DEF IInv

(* A chunk, and the end of a message that is not followed. *)
LEMMA BodyStep ==
    ASSUME IInv, NEW r \in Requests, GotChunk(r) \/ FinishedUnheard(r)
    PROVE  IInv'
<1> USE DEF session, requests, upload, clock, element, threads
<1>1. TypeOK'
  <2>1. CASE GotChunk(r)
    <3>1. client[r] \in Clients
      BY <2>1 DEF IInv, TypeOK, Flags, Values, Follows, GotChunk, Requests, NoRequest
    <3>2. feeders' \subseteq Clients
      BY <2>1, <3>1 DEF IInv, TypeOK, Flags, Values, GotChunk, PushBuffer
    <3> QED  BY <2>1, <3>2 DEF IInv, TypeOK, Flags, Values, GotChunk, PushBuffer
  <2>2. CASE FinishedUnheard(r)
    BY <2>2 DEF IInv, TypeOK, Flags, Values, FinishedUnheard
  <2> QED  BY <2>1, <2>2
<1>2. Clock' /\ Follows' /\ Over'
    BY DEF IInv, Clock, Follows, Released, Over, Made, GotChunk, FinishedUnheard
<1>3. OneFeeder'
    BY DEF IInv, Follows, Requests, NoRequest, OneFeeder, GotChunk, FinishedUnheard, PushBuffer
<1> QED  BY <1>1, <1>2, <1>3 DEF IInv

(* The end of a message that is followed: only now there is a timer.        *)
LEMMA FinishedStep ==
    ASSUME IInv, NEW r \in Requests, Finished(r)
    PROVE  IInv'
<1> USE DEF session, requests, upload, clock, element, threads
<1>1. attached = r /\ r # NoRequest /\ bound = r /\ timer = FALSE /\ timers = 0
    BY DEF IInv, TypeOK, Flags, Values, Clock, Follows, Finished, Requests, NoRequest
<1>2. \/ timer' = TRUE /\ timers' = 1 /\ bound' = NoRequest
      \/ timer' = FALSE /\ timers' = 0 /\ bound' = r
    BY <1>1 DEF Finished, StartTimeout
<1>3. attached' = NoRequest /\ listening' = FALSE
    BY DEF Finished
<1>4. TypeOK'
  <2>1. ended' \in BOOLEAN
    BY DEF IInv, TypeOK, Flags, Values, Finished, EndOfStream
  <2>2. timer' \in BOOLEAN
    BY <1>2
  <2>3. Flags'
    BY <1>3, <2>1, <2>2 DEF IInv, TypeOK, Flags, Finished
  <2>4. bound' \in 0 .. MaxRequests /\ attached' \in 0 .. MaxRequests /\ timers' \in Nat
    BY <1>1, <1>2, <1>3, ConstantsAssumption DEF Requests, NoRequest
  <2>5. Values'
    BY <2>4 DEF IInv, TypeOK, Values, Finished
  <2> QED  BY <2>3, <2>5 DEF TypeOK
<1>5. Clock'
    BY <1>2 DEF Clock
<1>6. Follows'
  <2>1. bound' <= made'
    BY <1>1, <1>2 DEF IInv, TypeOK, Flags, Values, Follows, Finished, NoRequest
  <2> QED  BY <1>3, <2>1 DEF IInv, Follows, Finished
<1>7. Over' /\ OneFeeder'
    BY <1>1 DEF IInv, Over, Made, OneFeeder, Finished, LoopFree
<1> QED  BY <1>4, <1>5, <1>6, <1>7 DEF IInv

(* A timer in the loop means that no request is bound. *)
LEMMA NothingBound ==
    ASSUME IInv, timers > 0
    PROVE  timer = TRUE /\ bound = NoRequest /\ attached = NoRequest /\ listening = FALSE
  BY DEF IInv, TypeOK, Flags, Values, Clock, Follows

(* The session expires. *)
LEMMA ExpireStep ==
    ASSUME IInv, Expire
    PROVE  IInv'
<1> USE DEF session, requests, upload, clock, element, threads
<1>1. timer = TRUE /\ bound = NoRequest /\ attached = NoRequest /\ listening = FALSE
    BY NothingBound DEF Expire
<1>2. CASE connected
  <2>1. CleanEndPoint
    BY <1>2 DEF Expire
  <2>2. /\ timer' = FALSE /\ timers' = 0 /\ bound' = NoRequest /\ installed' = FALSE
        /\ attached' = NoRequest /\ listening' = FALSE
    BY <2>1, Cleaned
  <2>3. /\ connected' = FALSE /\ registered' = FALSE /\ urlSet' = FALSE
        /\ aborted' = FALSE /\ loop' = "terminating"
    BY <1>1, <1>2 DEF Expire, Crashes
  <2>4. TypeOK'
    <3>1. Flags'
      BY <2>2, <2>3 DEF IInv, TypeOK, Flags, Expire
    <3>2. Values'
      BY <2>2, <2>3, ConstantsAssumption DEF IInv, TypeOK, Values, Expire, NoRequest
    <3> QED  BY <3>1, <3>2 DEF TypeOK
  <2>5. Clock' /\ Follows' /\ OneFeeder'
    BY <2>2 DEF IInv, TypeOK, Flags, Values, Clock, Follows, OneFeeder, Expire, NoRequest
  <2>6. Over'
    BY <1>2, <2>2, <2>3, NothingBound DEF IInv, Over, Made, Expire
  <2> QED  BY <2>4, <2>5, <2>6 DEF IInv
<1>3. CASE ~connected
  <2>1. timer' = FALSE /\ timers' = 0
    BY <1>1, <1>3 DEF IInv, Clock, Expire
  <2>2. UNCHANGED <<registered, urlSet, connected, bound, upload, loop, aborted>>
    BY <1>3 DEF Expire
  <2>3. TypeOK'
    <3>1. Flags'
      BY <2>1, <2>2 DEF IInv, TypeOK, Flags, Expire
    <3>2. Values'
      BY <2>1, <2>2 DEF IInv, TypeOK, Values, Expire
    <3> QED  BY <3>1, <3>2 DEF TypeOK
  <2>4. Clock' /\ Follows' /\ OneFeeder' /\ Over'
    BY <1>1, <2>1, <2>2 DEF IInv, Clock, Follows, Released, OneFeeder, Over, Made, Expire
  <2> QED  BY <2>3, <2>4 DEF IInv
<1> QED  BY <1>2, <1>3

(* The loop goes on with what Expire began. *)
LEMMA TerminateStep ==
    ASSUME IInv, Terminate
    PROVE  IInv'
<1> USE DEF session, requests, upload, clock, element, threads
<1>1. aborted' \in BOOLEAN /\ started' \in BOOLEAN
           /\ told' \in {"nothing", "started", "terminated"}
    BY DEF IInv, TypeOK, Flags, Values, Terminate
<1>2. TypeOK'
    BY <1>1 DEF IInv, TypeOK, Flags, Values, Terminate
<1>3. Clock' /\ Follows' /\ OneFeeder'
    BY DEF IInv, Clock, Follows, Released, OneFeeder, Terminate
<1>4. Over'
    BY DEF IInv, Over, Made, Terminate
<1> QED  BY <1>2, <1>3, <1>4 DEF IInv

(* The release, in the loop. *)
LEMMA UnregisterStep ==
    ASSUME IInv, Unregister
    PROVE  IInv'
<1> USE DEF session, requests, upload, clock, element, threads
<1>1. app' = "freed" /\ registered' = FALSE /\ urlSet' = FALSE
    BY DEF Unregister
<1>2. CASE registered
  <2>1. /\ timer' = FALSE /\ timers' = 0 /\ bound' = NoRequest /\ installed' = FALSE
        /\ attached' = NoRequest /\ listening' = FALSE
    BY <1>2, Cleaned DEF Unregister
  <2>2. aborted' \in BOOLEAN
    BY <1>2 DEF Unregister, Crashes
  <2>3. TypeOK'
    <3>1. Flags'
      BY <1>1, <2>1, <2>2 DEF IInv, TypeOK, Flags, Unregister
    <3>2. Values'
      BY <1>1, <2>1, ConstantsAssumption DEF IInv, TypeOK, Values, Unregister, NoRequest
    <3> QED  BY <3>1, <3>2 DEF TypeOK
  <2>4. Clock' /\ Follows' /\ OneFeeder'
    BY <2>1 DEF IInv, TypeOK, Flags, Values, Clock, Follows, OneFeeder, Unregister, NoRequest
  <2>5. Over'
    BY <1>1, <1>2, <2>1 DEF IInv, Over, Made, Unregister, LoopFree
  <2> QED  BY <2>3, <2>4, <2>5 DEF IInv
<1>3. CASE ~registered
  <2>1. UNCHANGED <<bound, upload, clock, aborted>>
    BY <1>3 DEF Unregister
  <2>2. TypeOK'
    <3>1. Flags'
      BY <1>1, <2>1 DEF IInv, TypeOK, Flags, Unregister
    <3>2. Values'
      BY <1>1, <2>1 DEF IInv, TypeOK, Values, Unregister
    <3> QED  BY <3>1, <3>2 DEF TypeOK
  <2>3. Clock' /\ Follows' /\ OneFeeder' /\ Over'
    BY <1>1, <2>1 DEF IInv, Clock, Follows, Released, OneFeeder, Over, Made, Unregister
  <2> QED  BY <2>2, <2>3 DEF IInv
<1> QED  BY <1>2, <1>3

LEMMA Stutters == ASSUME IInv, UNCHANGED vars PROVE IInv'
  BY DEF IInv, TypeOK, Flags, Values, Clock, Follows, Released, Over, Made, OneFeeder, vars,
         session, requests, upload, clock, element, threads

-----------------------------------------------------------------------------

(* Every state the session reaches satisfies the five parts of IInv: what   *)
(* HttpEndPoint and KmsHttpPost remember of a session agrees throughout.    *)
THEOREM InductiveInvariant == Spec => []IInv
<1>1. Init => IInv
    BY InitHolds
<1>2. IInv /\ [Next]_vars => IInv'
    BY LifeStep, RequestDeclinedStep, GotHeadersStep, BodyStep, FinishedStep, ExpireStep,
       TerminateStep, UnregisterStep, Stutters DEF Next
<1> QED  BY <1>1, <1>2, PTL DEF Spec

(* The variables keep their types: a request number never passes the        *)
(* requests made, and the callbacks leave the object's life in its states.  *)
THEOREM TypeInvariant == Spec => []TypeOK
<1>1. IInv => TypeOK
    BY DEF IInv
<1> QED  BY <1>1, InductiveInvariant, PTL

(* While the controller follows the body of a request, no session timer is  *)
(* in the loop and that request is the one bound to the session:            *)
(* got_headers_handler removes the timer before post-controller gets the    *)
(* message, and only the end of that message starts another.                *)
THEOREM SessionIsKept == Spec => []UploadKeepsSession
<1>1. IInv => UploadKeepsSession
    BY DEF IInv, TypeOK, Flags, Values, Clock, Follows, UploadKeepsSession
<1> QED  BY <1>1, InductiveInvariant, PTL

(* All buffers that reach the appsrc come from the client of the cookie:    *)
(* kms_http_ep_server_manage_cookie_session gives it once and turns the     *)
(* others away, and a preflight, which passes, is never followed.           *)
THEOREM FedByOne == Spec => []OneFeeder
<1>1. IInv => OneFeeder
    BY DEF IInv
<1> QED  BY <1>1, InductiveInvariant, PTL

(* When session-terminated reaches the application, the URL, the timer, the *)
(* bound request and the controller's handlers are gone, and none of them   *)
(* comes back while the signal is on its way through the loop.              *)
THEOREM EndIsQuiet == Spec => []TerminatedIsQuiet
<1>1. IInv => TerminatedIsQuiet
    BY DEF IInv, TypeOK, Flags, Values, Clock, Follows, Over, Made, TerminatedIsQuiet
<1> QED  BY <1>1, InductiveInvariant, PTL

-----------------------------------------------------------------------------
(* The parser (PostParser). *)

(* The least of a set of naturals.                                          *)
LEMMA LeastNatural ==
    ASSUME NEW S \in SUBSET Nat, S # {}
    PROVE  \E m \in S : \A k \in S : m <= k
<1> DEFINE R == {ss \in Nat \X Nat : ss[1] < ss[2]}
<1>1. IsWellFoundedOn(R, Nat)
  BY NatLessThanWellFounded DEF OpToRel
<1>2. \E m \in S : \A k \in S : ~(<<k, m>> \in R)
  <2> HIDE DEF R
  <2> QED  BY <1>1, WFMin
<1>3. PICK m \in S : \A k \in S : ~(<<k, m>> \in R)
  BY <1>2
<1>4. ASSUME NEW k \in S PROVE m <= k
  <2>1. ~(<<k, m>> \in R) /\ <<k, m>> \in Nat \X Nat
    BY <1>3
  <2>2. ~(k < m)
    BY <2>1
  <2> QED  BY <2>2
<1> QED  BY <1>4

(* What a body, and a part of it, is made of.                               *)
Token == Parser!Upload!Tokens
Part == [headers : Seq(Parser!Upload!HeaderLines), content : Seq(Token)]

(* The header lines as they are on the wire: three tokens each.             *)
LEMMA LinesText ==
    ASSUME NEW hs \in Seq(Parser!Upload!HeaderLines)
    PROVE  /\ Parser!Upload!Lines(hs) \in Seq(Token)
           /\ Len(Parser!Upload!Lines(hs)) = 3 * Len(hs)
           /\ \A j \in 1 .. Len(hs) : /\ Parser!Upload!Lines(hs)[3 * j - 2] = hs[j]
                                      /\ Parser!Upload!Lines(hs)[3 * j - 1] = "cr"
                                      /\ Parser!Upload!Lines(hs)[3 * j] = "lf"
<1> DEFINE n == Len(hs)
           e(i) == <<hs[(i + 2) \div 3], "cr", "lf">>[1 + ((i + 2) % 3)]
<1>1. n \in Nat /\ \A j \in 1 .. n : hs[j] \in Token
  <2>1. n \in Nat
    OBVIOUS
  <2>2. ASSUME NEW j \in 1 .. n PROVE hs[j] \in Token
    <3>1. hs[j] \in Parser!Upload!HeaderLines
      BY <2>1
    <3> QED  BY <3>1 DEF Token, Parser!Upload!Tokens
  <2> QED  BY <2>1, <2>2
<1>2. \A i \in 1 .. 3 * n : (i + 2) \div 3 \in 1 .. n /\ (i + 2) % 3 \in {0, 1, 2}
  BY <1>1, Z3
<1>3. ASSUME NEW i \in 1 .. 3 * n PROVE e(i) \in Token
  <2>1. hs[(i + 2) \div 3] \in Token
    BY <1>1, <1>2
  <2>2. e(i) \in {hs[(i + 2) \div 3], "cr", "lf"}
    <3>1. CASE (i + 2) % 3 = 0
      BY <3>1
    <3>2. CASE (i + 2) % 3 = 1
      BY <3>2
    <3>3. CASE (i + 2) % 3 = 2
      BY <3>3
    <3> QED  BY <1>2, <3>1, <3>2, <3>3
  <2> HIDE DEF e
  <2>3. {"cr", "lf"} \subseteq Token
    BY DEF Token, Parser!Upload!Tokens
  <2> QED  BY <2>1, <2>2, <2>3
<1>4. Parser!Upload!Lines(hs) = [i \in 1 .. 3 * n |-> e(i)]
  BY DEF Parser!Upload!Lines
<1>5. [i \in 1 .. 3 * n |-> e(i)] \in Seq(Token)
  <2> HIDE DEF e, n
  <2> QED BY <1>1, <1>3
<1>6. \A i \in 1 .. 3 * n : Parser!Upload!Lines(hs)[i] = e(i)
  BY <1>4
<1>7. Len(Parser!Upload!Lines(hs)) = 3 * n
  <2> HIDE DEF e, n
  <2> QED BY <1>1, <1>3, <1>4
<1>8. ASSUME NEW j \in 1 .. n
      PROVE  /\ Parser!Upload!Lines(hs)[3 * j - 2] = hs[j]
             /\ Parser!Upload!Lines(hs)[3 * j - 1] = "cr"
             /\ Parser!Upload!Lines(hs)[3 * j] = "lf"
  <2>1. /\ 3 * j - 2 \in 1 .. 3 * n /\ 3 * j - 1 \in 1 .. 3 * n /\ 3 * j \in 1 .. 3 * n
    BY <1>1
  <2>2. /\ (3 * j - 2 + 2) \div 3 = j /\ (3 * j - 2 + 2) % 3 = 0
        /\ (3 * j - 1 + 2) % 3 = 1 /\ (3 * j + 2) % 3 = 2
    BY <1>1, Z3
  <2>3. e(3 * j - 2) = hs[j]
    BY <2>2
  <2>4. e(3 * j - 1) = "cr"
    BY <2>2
  <2>5. e(3 * j) = "lf"
    BY <2>2
  <2> QED  BY <1>6, <2>1, <2>3, <2>4, <2>5
<1> QED  BY <1>4, <1>5, <1>7, <1>8

(* What a concatenation is, element by element.                             *)
Joins(d, s, t) ==
    /\ d \in Seq(Token) /\ Len(d) = Len(s) + Len(t)
    /\ \A i \in 1 .. Len(s) : d[i] = s[i]
    /\ \A i \in 1 .. Len(t) : d[Len(s) + i] = t[i]

LEMMA Concat ==
    ASSUME NEW s \in Seq(Token), NEW t \in Seq(Token)
    PROVE  Joins(s \o t, s, t)
  BY DEF Joins

(* The tokens of a line break and of a delimiter.                           *)
LEMMA Marks ==
    /\ Parser!Upload!CrLf \in Seq(Token) /\ Len(Parser!Upload!CrLf) = 2
    /\ Parser!Upload!CrLf[1] = "cr" /\ Parser!Upload!CrLf[2] = "lf"
    /\ Parser!Upload!Dashes \in Seq(Token) /\ Len(Parser!Upload!Dashes) = 2
    /\ Parser!Upload!Dashes[1] = "-" /\ Parser!Upload!Dashes[2] = "-"
    /\ Parser!Upload!Boundary \in Seq(Token) /\ Len(Parser!Upload!Boundary) = 3
    /\ Parser!Upload!Boundary[1] = "-" /\ Parser!Upload!Boundary[2] = "-"
    /\ Parser!Upload!Boundary[3] = "B"
    /\ Parser!Upload!Delimiter \in Seq(Token) /\ Len(Parser!Upload!Delimiter) = 5
    /\ Parser!Upload!Delimiter[1] = "cr" /\ Parser!Upload!Delimiter[2] = "lf"
    /\ Parser!Upload!Delimiter[3] = "-"
    /\ Parser!Upload!Delimiter[4] = "-" /\ Parser!Upload!Delimiter[5] = "B"
<1>1. {"cr", "lf", "-", "B"} \subseteq Token
  BY DEF Token, Parser!Upload!Tokens
<1>2. /\ Parser!Upload!CrLf \in Seq(Token) /\ Len(Parser!Upload!CrLf) = 2
      /\ Parser!Upload!CrLf[1] = "cr" /\ Parser!Upload!CrLf[2] = "lf"
  BY <1>1 DEF Parser!Upload!CrLf
<1>3. /\ Parser!Upload!Dashes \in Seq(Token) /\ Len(Parser!Upload!Dashes) = 2
      /\ Parser!Upload!Dashes[1] = "-" /\ Parser!Upload!Dashes[2] = "-"
  BY <1>1 DEF Parser!Upload!Dashes
<1>4. /\ Parser!Upload!Boundary \in Seq(Token) /\ Len(Parser!Upload!Boundary) = 3
      /\ Parser!Upload!Boundary[1] = "-" /\ Parser!Upload!Boundary[2] = "-"
      /\ Parser!Upload!Boundary[3] = "B"
  <2> DEFINE t == <<"B">>
  <2>1. t \in Seq(Token) /\ Len(t) = 1 /\ t[1] = "B"
    BY <1>1
  <2>2. Joins(Parser!Upload!Boundary, Parser!Upload!Dashes, t)
    BY <1>3, <2>1, Concat DEF Parser!Upload!Boundary
  <2> HIDE DEF t
  <2>3. Parser!Upload!Boundary[2 + 1] = "B"
    BY <1>3, <2>1, <2>2 DEF Joins
  <2> QED  BY <1>3, <2>1, <2>2, <2>3 DEF Joins
<1>5. /\ Parser!Upload!Delimiter \in Seq(Token) /\ Len(Parser!Upload!Delimiter) = 5
      /\ Parser!Upload!Delimiter[1] = "cr" /\ Parser!Upload!Delimiter[2] = "lf"
      /\ Parser!Upload!Delimiter[3] = "-"
      /\ Parser!Upload!Delimiter[4] = "-" /\ Parser!Upload!Delimiter[5] = "B"
  <2>1. Joins(Parser!Upload!Delimiter, Parser!Upload!CrLf, Parser!Upload!Boundary)
    BY <1>2, <1>4, Concat DEF Parser!Upload!Delimiter
  <2>2. /\ Parser!Upload!Delimiter[2 + 1] = "-" /\ Parser!Upload!Delimiter[2 + 2] = "-"
        /\ Parser!Upload!Delimiter[2 + 3] = "B"
    BY <1>2, <1>4, <2>1 DEF Joins
  <2> QED  BY <1>2, <1>4, <2>1, <2>2 DEF Joins
<1> QED  BY <1>2, <1>3, <1>4, <1>5

(* The positions in a section: two tokens of a line break, three of each    *)
(* header line, two of the blank line, the content, and the delimiter.      *)
LEMMA SectionText ==
    ASSUME NEW piece \in Part
    PROVE  LET s == Parser!Upload!Section(piece)
               h == Len(piece.headers)
               n == Len(piece.content)
           IN  /\ s \in Seq(Token) /\ h \in Nat /\ n \in Nat
               /\ Len(s) = 3 * h + n + 9
               /\ s[1] = "cr" /\ s[2] = "lf"
               /\ \A j \in 1 .. h : /\ s[3 * j] = piece.headers[j]
                                    /\ s[3 * j + 1] = "cr" /\ s[3 * j + 2] = "lf"
               /\ s[3 * h + 3] = "cr" /\ s[3 * h + 4] = "lf"
               /\ \A i \in 1 .. n : s[3 * h + 4 + i] = piece.content[i]
               /\ s[3 * h + n + 5] = "cr" /\ s[3 * h + n + 6] = "lf"
               /\ s[3 * h + n + 7] = "-" /\ s[3 * h + n + 8] = "-" /\ s[3 * h + n + 9] = "B"
<1> DEFINE h == Len(piece.headers)
           n == Len(piece.content)
           l == Parser!Upload!Lines(piece.headers)
           a == Parser!Upload!CrLf \o l
           b == a \o Parser!Upload!CrLf
           c == b \o piece.content
           d == c \o Parser!Upload!Delimiter
<1>1. piece.headers \in Seq(Parser!Upload!HeaderLines) /\ piece.content \in Seq(Token)
  BY DEF Part, Token
<1>2. h \in Nat /\ n \in Nat
  BY <1>1
<1>3. /\ l \in Seq(Token) /\ Len(l) = 3 * h
      /\ \A j \in 1 .. h : /\ l[3 * j - 2] = piece.headers[j] /\ l[3 * j - 1] = "cr"
                           /\ l[3 * j] = "lf"
  BY <1>1, LinesText
<1>4. Parser!Upload!Section(piece) = d
  BY DEF Parser!Upload!Section
<1> HIDE DEF l, h, n
<1>5. /\ a \in Seq(Token) /\ Len(a) = 3 * h + 2
      /\ a[1] = "cr" /\ a[2] = "lf"
      /\ \A i \in 1 .. 3 * h : a[2 + i] = l[i]
  <2>1. Joins(a, Parser!Upload!CrLf, l)
    BY <1>3, Marks, Concat
  <2> HIDE DEF a
  <2> QED  BY <1>2, <1>3, <2>1, Marks DEF Joins
<1>6. \A j \in 1 .. h : /\ a[3 * j] = piece.headers[j] /\ a[3 * j + 1] = "cr"
                        /\ a[3 * j + 2] = "lf"
  <2>1. ASSUME NEW j \in 1 .. h
        PROVE  a[3 * j] = piece.headers[j] /\ a[3 * j + 1] = "cr" /\ a[3 * j + 2] = "lf"
    <3> HIDE DEF a
    <3>1. /\ 3 * j - 2 \in 1 .. 3 * h /\ 3 * j - 1 \in 1 .. 3 * h /\ 3 * j \in 1 .. 3 * h
          /\ 2 + (3 * j - 2) = 3 * j /\ 2 + (3 * j - 1) = 3 * j + 1 /\ 2 + 3 * j = 3 * j + 2
      BY <1>2
    <3> QED  BY <1>3, <1>5, <3>1
  <2> QED  BY <2>1
<1> HIDE DEF a
<1>7. /\ b \in Seq(Token) /\ Len(b) = 3 * h + 4
      /\ \A i \in 1 .. 3 * h + 2 : b[i] = a[i]
      /\ b[3 * h + 3] = "cr" /\ b[3 * h + 4] = "lf"
  <2>1. Joins(b, a, Parser!Upload!CrLf)
    BY <1>5, Marks, Concat
  <2> HIDE DEF b
  <2>2. b[3 * h + 2 + 1] = "cr" /\ b[3 * h + 2 + 2] = "lf"
    BY <1>2, <1>5, <2>1, Marks DEF Joins
  <2>3. 3 * h + 2 + 1 = 3 * h + 3 /\ 3 * h + 2 + 2 = 3 * h + 4
    BY <1>2
  <2> QED  BY <1>2, <1>5, <2>1, <2>2, <2>3, Marks DEF Joins
<1> HIDE DEF b
<1>8. /\ c \in Seq(Token) /\ Len(c) = 3 * h + 4 + n
      /\ \A i \in 1 .. 3 * h + 4 : c[i] = b[i]
      /\ \A i \in 1 .. n : c[3 * h + 4 + i] = piece.content[i]
  <2>1. Joins(c, b, piece.content)
    BY <1>1, <1>7, Concat
  <2> HIDE DEF c
  <2> QED  BY <1>2, <1>7, <2>1 DEF Joins, n
<1> HIDE DEF c
<1>9. /\ d \in Seq(Token) /\ Len(d) = 3 * h + n + 9
      /\ \A i \in 1 .. 3 * h + 4 + n : d[i] = c[i]
      /\ d[3 * h + n + 5] = "cr" /\ d[3 * h + n + 6] = "lf"
      /\ d[3 * h + n + 7] = "-" /\ d[3 * h + n + 8] = "-" /\ d[3 * h + n + 9] = "B"
  <2>1. Joins(d, c, Parser!Upload!Delimiter)
    BY <1>8, Marks, Concat
  <2> HIDE DEF d
  <2> DEFINE m == 3 * h + 4 + n
  <2>2. /\ d[m + 1] = "cr" /\ d[m + 2] = "lf" /\ d[m + 3] = "-" /\ d[m + 4] = "-"
        /\ d[m + 5] = "B"
    BY <1>2, <1>8, <2>1, Marks DEF Joins
  <2>3. /\ m + 1 = 3 * h + n + 5 /\ m + 2 = 3 * h + n + 6 /\ m + 3 = 3 * h + n + 7
        /\ m + 4 = 3 * h + n + 8 /\ m + 5 = 3 * h + n + 9
    BY <1>2
  <2> QED  BY <1>2, <1>8, <2>1, <2>2, <2>3, Marks DEF Joins
<1> HIDE DEF d
<1>10. \A i \in 1 .. 3 * h + 2 : d[i] = a[i]
  BY <1>2, <1>7, <1>8, <1>9
<1>11. d[1] = "cr" /\ d[2] = "lf"
  BY <1>2, <1>5, <1>10
<1>12. \A j \in 1 .. h : /\ d[3 * j] = piece.headers[j] /\ d[3 * j + 1] = "cr"
                         /\ d[3 * j + 2] = "lf"
  <2>1. ASSUME NEW j \in 1 .. h
        PROVE  /\ 3 * j \in 1 .. 3 * h + 2 /\ 3 * j + 1 \in 1 .. 3 * h + 2
               /\ 3 * j + 2 \in 1 .. 3 * h + 2
    BY <1>2
  <2> QED  BY <1>6, <1>10, <2>1
<1>13. d[3 * h + 3] = "cr" /\ d[3 * h + 4] = "lf"
  BY <1>2, <1>7, <1>8, <1>9
<1>14. \A i \in 1 .. n : d[3 * h + 4 + i] = piece.content[i]
  <2>1. \A i \in 1 .. n : 3 * h + 4 + i \in 1 .. 3 * h + 4 + n
    BY <1>2
  <2> QED  BY <1>8, <1>9, <2>1
<1> QED  BY <1>2, <1>4, <1>9, <1>11, <1>12, <1>13, <1>14 DEF h, n

(* The recursion of Upto, which a function satisfies.                       *)
LEMMA UptoLaw ==
    ASSUME NEW p, Len(p.parts) \in Nat
    PROVE  LET u == Parser!Upload!Upto(p)
           IN  /\ u[0] = p.lead \o Parser!Upload!Boundary
               /\ \A n \in 1 .. Len(p.parts) : u[n] =
                       u[n - 1] \o Parser!Upload!Section(p.parts[n])
<1> DEFINE N == Len(p.parts)
           first == p.lead \o Parser!Upload!Boundary
           join(t, n) == t \o Parser!Upload!Section(p.parts[n])
           Law(f, k) == f = [n \in 0 .. k |-> IF n = 0 THEN first ELSE join(f[n - 1], n)]
           Fails == {k \in 0 .. N : ~ \E f : Law(f, k)}
<1>1. Parser!Upload!Upto(p) = CHOOSE f : Law(f, N)
  BY DEF Parser!Upload!Upto
<1> HIDE DEF first, join
<1>2. Fails = {}
  <2>1. SUFFICES ASSUME Fails # {} PROVE FALSE
    OBVIOUS
  <2>2. PICK m \in Fails : \A k \in Fails : m <= k
    <3>1. Fails \in SUBSET Nat
      OBVIOUS
    <3> HIDE DEF Fails
    <3> QED  BY <2>1, <3>1, LeastNatural
  <2>3. m \in 0 .. N /\ ~ \E f : Law(f, m)
    OBVIOUS
  <2>4. CASE m = 0
    <3>1. Law([n \in 0 .. 0 |-> first], 0)
      OBVIOUS
    <3> HIDE DEF Law
    <3> QED  BY <2>3, <2>4, <3>1
  <2>5. CASE m # 0
    <3>1. m - 1 \in 0 .. N /\ m - 1 \notin Fails
      <4>1. m - 1 \in Nat /\ m \in Nat /\ m - 1 \in 0 .. N
        BY <2>3, <2>5
      <4> HIDE DEF Fails
      <4> QED  BY <2>2, <4>1
    <3>2. PICK f : Law(f, m - 1)
      BY <3>1
    <3> DEFINE g == [n \in 0 .. m |-> IF n = m THEN join(f[m - 1], m) ELSE f[n]]
    <3>3. \A n \in 0 .. m - 1 : f[n] = IF n = 0 THEN first ELSE join(f[n - 1], n)
      BY <3>2
    <3>4. ASSUME NEW n \in 0 .. m
          PROVE  g[n] = IF n = 0 THEN first ELSE join(g[n - 1], n)
      <4>1. CASE n = m
        <5>1. g[n] = join(f[m - 1], m) /\ g[n - 1] = f[m - 1] /\ n # 0
          BY <2>3, <2>5, <4>1
        <5> QED  BY <4>1, <5>1
      <4>2. CASE n # m
        <5>1. n \in 0 .. m - 1 /\ g[n] = f[n]
          BY <2>3, <4>2
        <5>2. n # 0 => g[n - 1] = f[n - 1]
          BY <2>3, <4>2
        <5> QED  BY <3>3, <5>1, <5>2
      <4> QED  BY <4>1, <4>2
    <3>5. Law(g, m)
      <4> DEFINE h == [n \in 0 .. m |-> IF n = 0 THEN first ELSE join(g[n - 1], n)]
      <4>1. \A n \in 0 .. m : g[n] = h[n]
        BY <3>4
      <4>2. g = h
        BY <4>1
      <4> QED  BY <4>2
    <3> HIDE DEF Law, g
    <3> QED  BY <2>3, <3>5
  <2> QED  BY <2>4, <2>5
<1>3. N \in 0 .. N
  OBVIOUS
<1>4. \E f : Law(f, N)
  BY <1>2, <1>3
<1>5. Law(Parser!Upload!Upto(p), N)
  <2> HIDE DEF Law
  <2> QED  BY <1>1, <1>4
<1> DEFINE u == Parser!Upload!Upto(p)
<1> HIDE DEF u
<1>6. \A n \in 0 .. N : u[n] = IF n = 0 THEN first ELSE join(u[n - 1], n)
  <2>1. u = [n \in 0 .. N |-> IF n = 0 THEN first ELSE join(u[n - 1], n)]
    BY <1>5 DEF u
  <2> QED  BY <2>1
<1>7. u[0] = first
  BY <1>3, <1>6
<1>8. \A n \in 1 .. N : u[n] = join(u[n - 1], n)
  BY <1>6
<1> QED  BY <1>7, <1>8 DEF u, first, join

(* Where the delimiter of part n ends; 0 is the first one.                  *)
Mark(p, n) == Len(Parser!Upload!Upto(p)[n])
LineCount(p, k) == Len(p.parts[k].headers)
Size(p, k) == Len(p.parts[k].content)

(* One part more: the text before it stays, and its section follows.        *)
LEMMA UptoText ==
    ASSUME NEW p, Parser!Upload!WellFormed(p)
    PROVE  /\ Len(p.parts) \in Nat \ {0}
           /\ \A n \in 0 .. Len(p.parts) : Parser!Upload!Upto(p)[n] \in Seq(Token)
           /\ Joins(Parser!Upload!Upto(p)[0], p.lead, Parser!Upload!Boundary)
           /\ \A n \in 1 .. Len(p.parts) :
                  /\ p.parts[n] \in Part
                  /\ Joins(Parser!Upload!Upto(p)[n], Parser!Upload!Upto(p)[n - 1],
                       Parser!Upload!Section(p.parts[n]))
<1> DEFINE N == Len(p.parts)
           u == Parser!Upload!Upto(p)
<1>1. /\ p.lead \in Seq(Token) /\ p.parts \in Seq(Part)
      /\ N \in Nat \ {0}
  <2>1. p.lead \in Seq(Token) /\ p.parts \in Seq(Part)
    BY DEF Parser!Upload!WellFormed, Token, Part
  <2>2. N \in Nat /\ N > 0
    BY <2>1 DEF Parser!Upload!WellFormed
  <2> QED  BY <2>1, <2>2
<1>2. /\ u[0] = p.lead \o Parser!Upload!Boundary
      /\ \A n \in 1 .. N : u[n] = u[n - 1] \o Parser!Upload!Section(p.parts[n])
  BY <1>1, UptoLaw
<1> HIDE DEF u
<1>3. \A n \in 1 .. N : p.parts[n] \in Part
  BY <1>1
<1>4. \A n \in 1 .. N : Parser!Upload!Section(p.parts[n]) \in Seq(Token)
  BY <1>3, SectionText
<1>5. u[0] \in Seq(Token) /\ Joins(u[0], p.lead, Parser!Upload!Boundary)
  <2>1. Joins(u[0], p.lead, Parser!Upload!Boundary)
    BY <1>1, <1>2, Marks, Concat
  <2> QED  BY <2>1 DEF Joins
<1>6. ASSUME NEW n \in 1 .. N, u[n - 1] \in Seq(Token)
      PROVE  u[n] \in Seq(Token) /\ Joins(u[n], u[n - 1], Parser!Upload!Section(p.parts[n]))
  <2>1. Joins(u[n], u[n - 1], Parser!Upload!Section(p.parts[n]))
    BY <1>2, <1>4, <1>6, Concat
  <2> QED  BY <2>1 DEF Joins
<1>7. \A n \in 0 .. N : u[n] \in Seq(Token)
  <2> DEFINE Fails == {n \in 0 .. N : u[n] \notin Seq(Token)}
  <2>1. SUFFICES ASSUME Fails # {} PROVE FALSE
    OBVIOUS
  <2>2. PICK m \in Fails : \A k \in Fails : m <= k
    <3>1. Fails \in SUBSET Nat
      OBVIOUS
    <3> HIDE DEF Fails
    <3> QED  BY <2>1, <3>1, LeastNatural
  <2>3. m \in 0 .. N /\ u[m] \notin Seq(Token) /\ m # 0
    BY <1>5
  <2>4. m - 1 \in 0 .. N /\ m - 1 \notin Fails
    <3>1. m - 1 \in Nat /\ m \in Nat /\ m - 1 \in 0 .. N
      BY <2>3
    <3> HIDE DEF Fails
    <3> QED  BY <2>2, <3>1
  <2> QED  BY <1>6, <2>3, <2>4
<1>8. ASSUME NEW n \in 1 .. N PROVE Joins(u[n], u[n - 1], Parser!Upload!Section(p.parts[n]))
  <2>1. n - 1 \in 0 .. N
    OBVIOUS
  <2> QED  BY <1>6, <1>7, <2>1
<1> QED  BY <1>1, <1>3, <1>5, <1>7, <1>8 DEF u

(* The lengths: a delimiter and two tokens, two of the blank line and       *)
(* three of each header line are around the content.                        *)
LEMMA Lengths ==
    ASSUME NEW p, Parser!Upload!WellFormed(p)
    PROVE  /\ Mark(p, 0) = Len(p.lead) + 3 /\ Len(p.lead) \in Nat
           /\ \A n \in 0 .. Len(p.parts) : Mark(p, n) \in Nat
           /\ \A n \in 1 .. Len(p.parts) :
                  /\ LineCount(p, n) \in Nat /\ Size(p, n) \in Nat
                  /\ Mark(p, n) = Mark(p, n - 1) + 3 * LineCount(p, n) + Size(p, n) + 9
<1> DEFINE N == Len(p.parts)
           u == Parser!Upload!Upto(p)
<1>1. /\ N \in Nat \ {0} /\ \A n \in 0 .. N : u[n] \in Seq(Token)
      /\ Joins(u[0], p.lead, Parser!Upload!Boundary)
      /\ \A n \in 1 .. N : /\ p.parts[n] \in Part
                           /\ Joins(u[n], u[n - 1], Parser!Upload!Section(p.parts[n]))
  BY UptoText
<1> HIDE DEF u
<1>2. Len(p.lead) \in Nat
  <2>1. p.lead \in Seq(Token)
    BY DEF Parser!Upload!WellFormed, Token
  <2> QED  BY <2>1
<1>3. \A n \in 0 .. N : Len(u[n]) \in Nat
  BY <1>1
<1>4. Len(u[0]) = Len(p.lead) + 3
  BY <1>1, Marks DEF Joins
<1>5. ASSUME NEW n \in 1 .. N
      PROVE  /\ LineCount(p, n) \in Nat /\ Size(p, n) \in Nat
             /\ Len(u[n]) = Len(u[n - 1]) + 3 * LineCount(p, n) + Size(p, n) + 9
  <2> DEFINE h == LineCount(p, n)
             s == Size(p, n)
  <2>1. h \in Nat /\ s \in Nat /\ Len(Parser!Upload!Section(p.parts[n])) = 3 * h + s + 9
    BY <1>1, SectionText DEF LineCount, Size
  <2>2. Len(u[n]) = Len(u[n - 1]) + Len(Parser!Upload!Section(p.parts[n]))
    BY <1>1 DEF Joins
  <2>3. Len(u[n - 1]) \in Nat
    BY <1>3
  <2> HIDE DEF h, s
  <2>4. Len(u[n]) = Len(u[n - 1]) + 3 * h + s + 9
    <3>1. Len(u[n]) = Len(u[n - 1]) + (3 * h + s + 9)
      BY <2>1, <2>2, Zenon
    <3>2. \A x, y, z \in Nat : x + (3 * y + z + 9) = x + 3 * y + z + 9
      OBVIOUS
    <3> QED  BY <2>1, <2>3, <3>1, <3>2, Zenon
  <2> QED  BY <2>1, <2>4 DEF h, s
<1> QED  BY <1>2, <1>3, <1>4, <1>5 DEF Mark, u

(* A longer text begins with the shorter one.                               *)
LEMMA Prefix ==
    ASSUME NEW p, Parser!Upload!WellFormed(p), NEW m \in 0 .. Len(p.parts),
           NEW n \in m .. Len(p.parts)
    PROVE  /\ Mark(p, m) <= Mark(p, n)
           /\ \A i \in 1 .. Mark(p, m) : Parser!Upload!Upto(p)[n][i] = Parser!Upload!Upto(p)[m][i]
<1> DEFINE N == Len(p.parts)
           u == Parser!Upload!Upto(p)
           Keeps(k) == /\ Mark(p, m) <= Mark(p, k)
                       /\ \A i \in 1 .. Mark(p, m) : u[k][i] = u[m][i]
           Fails == {k \in m .. N : ~Keeps(k)}
<1>1. N \in Nat /\ m \in Nat /\ m <= N /\ \A k \in 0 .. N : Mark(p, k) \in Nat
  BY UptoText, Lengths
<1>2. ASSUME NEW k \in m + 1 .. N, Keeps(k - 1) PROVE Keeps(k)
  <2>1. k \in 1 .. N /\ k - 1 \in 0 .. N
    BY <1>1
  <2>2. /\ Len(u[k - 1]) = Mark(p, k - 1) /\ Mark(p, k - 1) <= Mark(p, k)
        /\ \A i \in 1 .. Len(u[k - 1]) : u[k][i] = u[k - 1][i]
    <3>1. Joins(u[k], u[k - 1], Parser!Upload!Section(p.parts[k]))
      BY <2>1, UptoText
    <3>2. /\ LineCount(p, k) \in Nat /\ Size(p, k) \in Nat
          /\ Mark(p, k) = Mark(p, k - 1) + 3 * LineCount(p, k) + Size(p, k) + 9
      BY <2>1, Lengths
    <3>3. Mark(p, k - 1) \in Nat
      BY <1>1, <2>1
    <3>4. Mark(p, k - 1) <= Mark(p, k)
      BY <3>2, <3>3
    <3> QED  BY <3>1, <3>4 DEF Joins, Mark
  <2>3. Mark(p, m) \in Nat /\ Mark(p, k - 1) \in Nat /\ Mark(p, k) \in Nat
    BY <1>1, <2>1
  <2>4. /\ Mark(p, m) <= Mark(p, k - 1) /\ \A i \in 1 .. Mark(p, m) : u[k - 1][i] = u[m][i]
    BY <1>2
  <2>5. Mark(p, m) <= Mark(p, k)
    BY <2>2, <2>3, <2>4
  <2>6. ASSUME NEW i \in 1 .. Mark(p, m) PROVE u[k][i] = u[m][i]
    <3>1. i \in 1 .. Mark(p, k - 1)
      BY <2>3, <2>4
    <3> HIDE DEF u
    <3> QED  BY <2>2, <2>4, <3>1
  <2> QED  BY <2>5, <2>6
<1>3. Fails = {}
  <2>1. SUFFICES ASSUME Fails # {} PROVE FALSE
    OBVIOUS
  <2>2. PICK l \in Fails : \A k \in Fails : l <= k
    <3>1. Fails \in SUBSET Nat
      BY <1>1
    <3> HIDE DEF Fails
    <3> QED  BY <2>1, <3>1, LeastNatural
  <2>3. Keeps(m)
    BY <1>1
  <2> HIDE DEF Keeps
  <2>4. l \in m + 1 .. N /\ ~Keeps(l)
    BY <1>1, <2>3
  <2>5. l - 1 \in m .. N /\ l - 1 \notin Fails
    <3>1. l - 1 \in m .. N /\ l \in Nat
      BY <1>1, <2>4
    <3> HIDE DEF Fails
    <3> QED  BY <1>1, <2>2, <3>1
  <2> QED  BY <1>2, <2>4, <2>5
<1>4. Keeps(n)
  <2> HIDE DEF Keeps
  <2> QED  BY <1>3
<1> QED  BY <1>4

(* The places in a request that are known.                                  *)
Begins(p, k) == IF k = 0 THEN 0 ELSE Mark(p, k - 1) + 3 * LineCount(p, k) + 4
Ends(p, k) == Mark(p, k) - 5

(* The text of a request: what is before the first boundary, the sections,  *)
(* the dashes.                                                              *)
LEMMA TextPlaces ==
    ASSUME NEW p, Parser!Upload!WellFormed(p), p.multipart
    PROVE  LET B == Parser!Upload!Text(p)
               N == Len(p.parts)
           IN  /\ B \in Seq(Token) /\ Len(B) = Mark(p, N) + 2
               /\ B[Mark(p, N) + 1] = "-" /\ B[Mark(p, N) + 2] = "-"
               /\ \A k \in 0 .. N : Mark(p, k) <= Mark(p, N)
               /\ \A i \in 1 .. Len(p.lead) : B[i] = p.lead[i]
               /\ \A i \in 1 .. 3 : B[Len(p.lead) + i] = Parser!Upload!Boundary[i]
               /\ \A k \in 1 .. N : \A i \in 1 .. Len(Parser!Upload!Section(p.parts[k])) :
                      B[Mark(p, k - 1) + i] = Parser!Upload!Section(p.parts[k])[i]
<1> DEFINE N == Len(p.parts)
           u == Parser!Upload!Upto(p)
           B == Parser!Upload!Text(p)
<1>1. /\ N \in Nat \ {0} /\ \A n \in 0 .. N : u[n] \in Seq(Token)
      /\ Joins(u[0], p.lead, Parser!Upload!Boundary)
      /\ \A n \in 1 .. N : /\ p.parts[n] \in Part
                           /\ Joins(u[n], u[n - 1], Parser!Upload!Section(p.parts[n]))
  BY UptoText
<1> HIDE DEF u
<1>2. /\ \A n \in 0 .. N : Mark(p, n) \in Nat /\ Len(u[n]) = Mark(p, n)
      /\ Mark(p, 0) = Len(p.lead) + 3 /\ Len(p.lead) \in Nat
  BY Lengths DEF Mark, u
<1>3. Joins(B, u[N], Parser!Upload!Dashes)
  <2>1. B = u[N] \o Parser!Upload!Dashes
    BY DEF Parser!Upload!Text, u
  <2>2. u[N] \in Seq(Token)
    BY <1>1
  <2> QED  BY <2>1, <2>2, Marks, Concat
<1> HIDE DEF B
<1>4. /\ B \in Seq(Token) /\ Len(B) = Mark(p, N) + 2
      /\ \A i \in 1 .. Mark(p, N) : B[i] = u[N][i]
      /\ B[Mark(p, N) + 1] = "-" /\ B[Mark(p, N) + 2] = "-"
  <2>1. Mark(p, N) \in Nat /\ Len(u[N]) = Mark(p, N)
    BY <1>1, <1>2
  <2> QED  BY <1>3, <2>1, Marks DEF Joins
<1>5. ASSUME NEW l \in 0 .. N
      PROVE  Mark(p, l) <= Mark(p, N) /\ \A i \in 1 .. Mark(p, l) : B[i] = u[l][i]
  <2>1. N \in l .. N
    BY <1>1
  <2>2. Mark(p, l) <= Mark(p, N) /\ \A i \in 1 .. Mark(p, l) : u[N][i] = u[l][i]
    BY <2>1, Prefix DEF u
  <2>3. Mark(p, l) \in Nat /\ Mark(p, N) \in Nat
    BY <1>1, <1>2
  <2> QED  BY <1>4, <2>2, <2>3
<1>6. /\ \A i \in 1 .. Len(p.lead) : B[i] = p.lead[i]
      /\ \A i \in 1 .. 3 : B[Len(p.lead) + i] = Parser!Upload!Boundary[i]
  <2> DEFINE n == Len(p.lead)
  <2>1. 0 \in 0 .. N /\ Mark(p, 0) = n + 3 /\ n \in Nat
    BY <1>1, <1>2
  <2>2. \A i \in 1 .. n + 3 : B[i] = u[0][i]
    BY <1>5, <2>1
  <2>3. /\ \A i \in 1 .. n : u[0][i] = p.lead[i]
        /\ \A i \in 1 .. 3 : u[0][n + i] = Parser!Upload!Boundary[i]
    BY <1>1, Marks DEF Joins
  <2> HIDE DEF n
  <2>4. \A i \in 1 .. 3 : n + i \in 1 .. n + 3
    BY <2>1
  <2>5. \A i \in 1 .. n : i \in 1 .. n + 3
    BY <2>1
  <2>6. /\ \A i \in 1 .. n : B[i] = p.lead[i]
        /\ \A i \in 1 .. 3 : B[n + i] = Parser!Upload!Boundary[i]
    BY <2>2, <2>3, <2>4, <2>5
  <2> QED  BY <2>6 DEF n
<1>7. ASSUME NEW k \in 1 .. N, NEW i \in 1 .. Len(Parser!Upload!Section(p.parts[k]))
      PROVE  B[Mark(p, k - 1) + i] = Parser!Upload!Section(p.parts[k])[i]
  <2> DEFINE b == Mark(p, k - 1)
             s == Parser!Upload!Section(p.parts[k])
  <2>1. k - 1 \in 0 .. N /\ k \in 0 .. N
    BY <1>1
  <2>2. b \in Nat /\ b = Len(u[k - 1]) /\ Mark(p, k) = Len(u[k])
    BY <1>2, <2>1
  <2>3. Len(u[k]) = b + Len(s) /\ \A j \in 1 .. Len(s) : u[k][b + j] = s[j]
    <3>1. Joins(u[k], u[k - 1], s)
      BY <1>1
    <3> HIDE DEF s, b
    <3> QED  BY <2>2, <3>1 DEF Joins
  <2>4. Len(s) \in Nat
    <3>1. s \in Seq(Token)
      BY <1>1, SectionText
    <3> QED  BY <3>1
  <2> HIDE DEF b, s
  <2>5. i \in 1 .. Len(s)
    BY DEF s
  <2>6. b + i \in 1 .. Mark(p, k)
    BY <2>2, <2>3, <2>4, <2>5
  <2>7. B[b + i] = s[i]
    BY <1>5, <2>1, <2>3, <2>5, <2>6
  <2> QED  BY <2>7 DEF b, s
<1>8. \A k \in 0 .. N : Mark(p, k) <= Mark(p, N)
  BY <1>5
<1> QED  BY <1>4, <1>6, <1>7, <1>8 DEF B

(* The lengths of a part, and where its content is.                         *)
LEMMA PartSizes ==
    ASSUME NEW p, Parser!Upload!WellFormed(p), NEW k \in 1 .. Len(p.parts)
    PROVE  /\ Mark(p, k - 1) \in Nat /\ Mark(p, k - 1) >= 3
           /\ LineCount(p, k) \in Nat /\ Size(p, k) \in Nat
           /\ Begins(p, k) = Mark(p, k - 1) + 3 * LineCount(p, k) + 4
           /\ Ends(p, k) = Begins(p, k) + Size(p, k)
<1> DEFINE N == Len(p.parts)
           b == Mark(p, k - 1)
<1>1. N \in Nat \ {0} /\ k - 1 \in 0 .. N /\ k # 0
  BY UptoText
<1>2. /\ b \in Nat /\ LineCount(p, k) \in Nat /\ Size(p, k) \in Nat
      /\ Mark(p, k) = b + 3 * LineCount(p, k) + Size(p, k) + 9
  BY <1>1, Lengths
<1>3. b >= 3
  <2>1. 0 \in 0 .. N /\ k - 1 \in 0 .. N
    BY <1>1
  <2>2. Mark(p, 0) <= b
    <3>1. k - 1 \in 0 .. Len(p.parts)
      BY <2>1
    <3> QED  BY <2>1, <3>1, Prefix
  <2>3. Mark(p, 0) = Len(p.lead) + 3 /\ Len(p.lead) \in Nat
    BY Lengths
  <2> QED  BY <1>2, <2>2, <2>3
<1>4. Begins(p, k) = b + 3 * LineCount(p, k) + 4
  BY <1>1 DEF Begins
<1>5. Ends(p, k) = Mark(p, k) - 5
  BY DEF Ends
<1> HIDE DEF b
<1>6. Ends(p, k) = Begins(p, k) + Size(p, k)
  BY <1>2, <1>4, <1>5
<1> QED  BY <1>2, <1>3, <1>4, <1>6 DEF b

(* A part of a request: the line break after the delimiter, the header      *)
(* lines, the blank line, the content, and the delimiter.                   *)
LEMMA PartPlaces ==
    ASSUME NEW p, Parser!Upload!WellFormed(p), p.multipart, NEW k \in 1 .. Len(p.parts)
    PROVE  LET B == Parser!Upload!Text(p)
               b == Mark(p, k - 1)
               e == Ends(p, k)
           IN  /\ B[b + 1] = "cr" /\ B[b + 2] = "lf"
               /\ \A j \in 1 .. LineCount(p, k) :
                      /\ B[b + 3 * j] = p.parts[k].headers[j]
                      /\ B[b + 3 * j + 1] = "cr" /\ B[b + 3 * j + 2] = "lf"
               /\ B[Begins(p, k) - 1] = "cr" /\ B[Begins(p, k)] = "lf"
               /\ \A i \in 1 .. Size(p, k) : B[Begins(p, k) + i] = p.parts[k].content[i]
               /\ B[e + 1] = "cr" /\ B[e + 2] = "lf" /\ B[e + 3] = "-" /\ B[e + 4] = "-"
               /\ B[e + 5] = "B"
<1> DEFINE N == Len(p.parts)
           B == Parser!Upload!Text(p)
           b == Mark(p, k - 1)
           s == Parser!Upload!Section(p.parts[k])
           h == LineCount(p, k)
           n == Size(p, k)
           e == Ends(p, k)
<1>1. N \in Nat \ {0} /\ p.parts[k] \in Part /\ k - 1 \in 0 .. N /\ k # 0
  BY UptoText
<1>2. b \in Nat /\ h \in Nat /\ n \in Nat
  BY PartSizes
<1>4. /\ Len(s) = 3 * h + n + 9
      /\ s[1] = "cr" /\ s[2] = "lf"
      /\ \A j \in 1 .. h : /\ s[3 * j] = p.parts[k].headers[j]
                           /\ s[3 * j + 1] = "cr" /\ s[3 * j + 2] = "lf"
      /\ s[3 * h + 3] = "cr" /\ s[3 * h + 4] = "lf"
      /\ \A i \in 1 .. n : s[3 * h + 4 + i] = p.parts[k].content[i]
      /\ s[3 * h + n + 5] = "cr" /\ s[3 * h + n + 6] = "lf"
      /\ s[3 * h + n + 7] = "-" /\ s[3 * h + n + 8] = "-" /\ s[3 * h + n + 9] = "B"
  BY <1>1, SectionText DEF LineCount, Size
<1>5. \A i \in 1 .. Len(s) : B[b + i] = s[i]
  <2>1. \A m \in 1 .. N : \A i \in 1 .. Len(Parser!Upload!Section(p.parts[m])) :
           B[Mark(p, m - 1) + i] = Parser!Upload!Section(p.parts[m])[i]
    BY TextPlaces
  <2> HIDE DEF B, N
  <2> QED  BY <2>1, Zenon DEF N
<1>6. Begins(p, k) = b + 3 * h + 4 /\ e = Begins(p, k) + n
  BY PartSizes
<1> HIDE DEF s, B, h, n, b, e
<1>7. B[b + 1] = "cr" /\ B[b + 2] = "lf"
  <2>1. 1 \in 1 .. Len(s) /\ 2 \in 1 .. Len(s)
    BY <1>2, <1>4
  <2> QED  BY <1>4, <1>5, <2>1
<1>8. ASSUME NEW j \in 1 .. h
      PROVE  /\ B[b + 3 * j] = p.parts[k].headers[j]
             /\ B[b + 3 * j + 1] = "cr" /\ B[b + 3 * j + 2] = "lf"
  <2>1. /\ 3 * j \in 1 .. Len(s) /\ 3 * j + 1 \in 1 .. Len(s) /\ 3 * j + 2 \in 1 .. Len(s)
    BY <1>2, <1>4
  <2>2. b + (3 * j + 1) = b + 3 * j + 1 /\ b + (3 * j + 2) = b + 3 * j + 2
    BY <1>2
  <2>3. /\ B[b + 3 * j] = s[3 * j] /\ B[b + (3 * j + 1)] = s[3 * j + 1]
        /\ B[b + (3 * j + 2)] = s[3 * j + 2]
    BY <1>5, <2>1
  <2>4. s[3 * j] = p.parts[k].headers[j] /\ s[3 * j + 1] = "cr" /\ s[3 * j + 2] = "lf"
    BY <1>4
  <2> QED  BY <2>2, <2>3, <2>4
<1>9. B[Begins(p, k) - 1] = "cr" /\ B[Begins(p, k)] = "lf"
  <2>1. 3 * h + 3 \in 1 .. Len(s) /\ 3 * h + 4 \in 1 .. Len(s)
    BY <1>2, <1>4
  <2>2. b + (3 * h + 3) = Begins(p, k) - 1 /\ b + (3 * h + 4) = Begins(p, k)
    BY <1>2, <1>6
  <2>3. B[b + (3 * h + 3)] = "cr" /\ B[b + (3 * h + 4)] = "lf"
    BY <1>4, <1>5, <2>1
  <2> QED  BY <2>2, <2>3
<1>10. ASSUME NEW i \in 1 .. n PROVE B[Begins(p, k) + i] = p.parts[k].content[i]
  <2>1. 3 * h + 4 + i \in 1 .. Len(s)
    <3>1. Len(s) = 3 * h + n + 9
      BY <1>4
    <3> QED  BY <1>2, <3>1
  <2>2. b + (3 * h + 4 + i) = Begins(p, k) + i
    BY <1>2, <1>6
  <2>3. B[b + (3 * h + 4 + i)] = p.parts[k].content[i]
    BY <1>4, <1>5, <2>1
  <2> QED  BY <2>2, <2>3
<1>11. /\ B[e + 1] = "cr" /\ B[e + 2] = "lf" /\ B[e + 3] = "-" /\ B[e + 4] = "-"
       /\ B[e + 5] = "B"
  <2>1. /\ 3 * h + n + 5 \in 1 .. Len(s) /\ 3 * h + n + 6 \in 1 .. Len(s)
        /\ 3 * h + n + 7 \in 1 .. Len(s) /\ 3 * h + n + 8 \in 1 .. Len(s)
        /\ 3 * h + n + 9 \in 1 .. Len(s)
    BY <1>2, <1>4
  <2>2. /\ b + (3 * h + n + 5) = e + 1 /\ b + (3 * h + n + 6) = e + 2
        /\ b + (3 * h + n + 7) = e + 3 /\ b + (3 * h + n + 8) = e + 4
        /\ b + (3 * h + n + 9) = e + 5
    BY <1>2, <1>6
  <2>3. /\ B[b + (3 * h + n + 5)] = "cr" /\ B[b + (3 * h + n + 6)] = "lf"
        /\ B[b + (3 * h + n + 7)] = "-" /\ B[b + (3 * h + n + 8)] = "-"
        /\ B[b + (3 * h + n + 9)] = "B"
    BY <1>4, <1>5, <2>1
  <2> QED  BY <2>2, <2>3
<1> QED  BY <1>7, <1>8, <1>9, <1>10, <1>11 DEF B, b, e, h, n

(* The delimiters of a request, with what follows them.                     *)
LEMMA DelimiterPlaces ==
    ASSUME NEW p, Parser!Upload!WellFormed(p), p.multipart, NEW k \in 0 .. Len(p.parts)
    PROVE  LET B == Parser!Upload!Text(p)
               e == Ends(p, k)
           IN  /\ e \in Int /\ e + 7 <= Len(B) /\ Mark(p, k) = e + 5
               /\ B[e + 3] = "-" /\ B[e + 4] = "-" /\ B[e + 5] = "B"
               /\ k > 0 \/ p.lead # <<>> => e \in Nat /\ B[e + 1] = "cr" /\ B[e + 2] = "lf"
               /\ k = 0 => e = Len(p.lead) - 2 /\ Len(p.lead) \in Nat
               /\ k < Len(p.parts) => B[e + 6] = "cr" /\ B[e + 7] = "lf"
               /\ k = Len(p.parts) => B[e + 6] = "-" /\ B[e + 7] = "-" /\ Len(B) = e + 7
<1> DEFINE N == Len(p.parts)
           B == Parser!Upload!Text(p)
           e == Ends(p, k)
           n == Len(p.lead)
<1>1. /\ N \in Nat \ {0} /\ Mark(p, k) \in Nat /\ Mark(p, N) \in Nat /\ Mark(p, k) <= Mark(p, N)
      /\ Mark(p, 0) = n + 3 /\ n \in Nat
  <2>1. N \in Nat \ {0}
    BY UptoText
  <2>2. Mark(p, 0) = n + 3 /\ n \in Nat /\ \A m \in 0 .. N : Mark(p, m) \in Nat
    BY Lengths
  <2>3. Mark(p, k) <= Mark(p, N)
    BY TextPlaces
  <2>4. N \in 0 .. N
    BY <2>1
  <2> HIDE DEF N, n
  <2> QED  BY <2>1, <2>2, <2>3, <2>4 DEF N
<1>2. /\ B \in Seq(Token) /\ Len(B) = Mark(p, N) + 2
      /\ B[Mark(p, N) + 1] = "-" /\ B[Mark(p, N) + 2] = "-"
  BY TextPlaces
<1>3. e \in Int /\ e + 7 <= Len(B) /\ Mark(p, k) = e + 5
  BY <1>1, <1>2 DEF Ends
<1>4. k = 0 => e = n - 2
  BY <1>1 DEF Ends
<1>5. CASE k = 0
  <2>1. /\ \A i \in 1 .. n : B[i] = p.lead[i]
        /\ \A i \in 1 .. 3 : B[n + i] = Parser!Upload!Boundary[i]
    BY TextPlaces
  <2>2. B[n + 1] = "-" /\ B[n + 2] = "-" /\ B[n + 3] = "B"
    BY <2>1, Marks
  <2>3. p.lead # <<>> => n >= 2 /\ B[n - 1] = "cr" /\ B[n] = "lf"
    <3> SUFFICES ASSUME p.lead # <<>>
                 PROVE  n >= 2 /\ B[n - 1] = "cr" /\ B[n] = "lf"
      OBVIOUS
    <3>1. n >= 2 /\ SubSeq(p.lead, n - 1, n) = Parser!Upload!CrLf
      BY DEF Parser!Upload!WellFormed, Parser!Upload!Preamble
    <3>2. SubSeq(p.lead, n - 1, n)[1] = p.lead[n - 1] /\ SubSeq(p.lead, n - 1, n)[2] = p.lead[n]
      BY <1>1, <3>1
    <3>3. n - 1 \in 1 .. n /\ n \in 1 .. n
      BY <1>1, <3>1
    <3> QED  BY <2>1, <3>1, <3>2, <3>3, Marks
  <2> HIDE DEF n, B, e
  <2>4. e + 1 = n - 1 /\ e + 2 = n /\ e + 3 = n + 1 /\ e + 4 = n + 2 /\ e + 5 = n + 3
    BY <1>1, <1>4, <1>5
  <2>5. B[e + 3] = "-" /\ B[e + 4] = "-" /\ B[e + 5] = "B"
    BY <2>2, <2>4
  <2>6. p.lead # <<>> => e \in Nat /\ B[e + 1] = "cr" /\ B[e + 2] = "lf"
    <3>1. n >= 2 => e \in Nat
      BY <1>1, <1>4, <1>5
    <3> QED  BY <2>3, <2>4, <3>1
  <2>7. B[e + 6] = "cr" /\ B[e + 7] = "lf" /\ k < N
    <3>1. 1 \in 1 .. N /\ 1 - 1 = k /\ k < N
      BY <1>1, <1>5
    <3>2. B[Mark(p, 1 - 1) + 1] = "cr" /\ B[Mark(p, 1 - 1) + 2] = "lf"
      BY <3>1, PartPlaces DEF B
    <3>3. Mark(p, 1 - 1) + 1 = e + 6 /\ Mark(p, 1 - 1) + 2 = e + 7
      BY <1>3, <3>1
    <3> QED  BY <3>1, <3>2, <3>3
  <2> QED  BY <1>1, <1>3, <1>4, <1>5, <2>5, <2>6, <2>7 DEF B, e, n
<1>6. CASE k # 0
  <2>1. k \in 1 .. N
    BY <1>1, <1>6
  <2>2. /\ B[e + 1] = "cr" /\ B[e + 2] = "lf" /\ B[e + 3] = "-" /\ B[e + 4] = "-"
        /\ B[e + 5] = "B"
    BY <2>1, PartPlaces
  <2>3. e \in Nat
    <3>1. /\ Mark(p, k - 1) \in Nat /\ LineCount(p, k) \in Nat /\ Size(p, k) \in Nat
          /\ Begins(p, k) = Mark(p, k - 1) + 3 * LineCount(p, k) + 4
          /\ e = Begins(p, k) + Size(p, k)
      BY <2>1, PartSizes
    <3> QED  BY <3>1
  <2>4. k < N => B[e + 6] = "cr" /\ B[e + 7] = "lf"
    <3> SUFFICES ASSUME k < N PROVE B[e + 6] = "cr" /\ B[e + 7] = "lf"
      OBVIOUS
    <3>1. k + 1 \in 1 .. N /\ k + 1 - 1 = k
      BY <1>1
    <3>2. B[Mark(p, k + 1 - 1) + 1] = "cr" /\ B[Mark(p, k + 1 - 1) + 2] = "lf"
      <4>1. \A l \in 1 .. N : B[Mark(p, l - 1) + 1] = "cr" /\ B[Mark(p, l - 1) + 2] = "lf"
        BY PartPlaces
      <4> HIDE DEF B
      <4> QED  BY <3>1, <4>1
    <3> HIDE DEF B, e
    <3>3. Mark(p, k + 1 - 1) + 1 = e + 6 /\ Mark(p, k + 1 - 1) + 2 = e + 7
      BY <1>3, <3>1
    <3> QED  BY <3>2, <3>3
  <2>5. k = N => B[e + 6] = "-" /\ B[e + 7] = "-" /\ Len(B) = e + 7
    <3> HIDE DEF B, e
    <3> SUFFICES ASSUME k = N PROVE B[e + 6] = "-" /\ B[e + 7] = "-" /\ Len(B) = e + 7
      OBVIOUS
    <3>1. Mark(p, N) + 1 = e + 6 /\ Mark(p, N) + 2 = e + 7
      BY <1>3
    <3> QED  BY <1>2, <3>1
  <2> HIDE DEF B, e, n
  <2>6. k # 0 BY <1>6
  <2>7. k = 0 => e = n - 2 /\ n \in Nat
    BY <2>6
  <2>8. k > 0 \/ p.lead # <<>> => e \in Nat /\ B[e + 1] = "cr" /\ B[e + 2] = "lf"
    BY <2>2, <2>3
  <2> QED  BY <1>3, <2>2, <2>4, <2>5, <2>7, <2>8 DEF B, e, n
<1> QED  BY <1>5, <1>6

(* A delimiter at position i, with what may follow it.                      *)
Delimits(s, i) ==
    /\ s[i] = "cr" /\ s[i + 1] = "lf" /\ s[i + 2] = "-" /\ s[i + 3] = "-" /\ s[i + 4] = "B"
    /\ \/ s[i + 5] = "cr" /\ s[i + 6] = "lf"
       \/ s[i + 5] = "-" /\ s[i + 6] = "-"

(* Undelimited in terms of the tokens.                                      *)
LEMMA NoDelimiter ==
    ASSUME NEW t \in Seq(Token), Parser!Upload!Undelimited(t), NEW i \in 1 .. Len(t) - 6
    PROVE  ~Delimits(t, i)
<1> SUFFICES ASSUME Delimits(t, i) PROVE FALSE
  OBVIOUS
<1> DEFINE s == SubSeq(t, i, i + 6)
           c == Parser!Upload!Delimiter \o Parser!Upload!CrLf
           d == Parser!Upload!Delimiter \o Parser!Upload!Dashes
<1>1. s \notin {c, d}
  BY DEF Parser!Upload!Undelimited
<1>2. /\ s \in Seq(Token) /\ Len(s) = 7
      /\ \A j \in 1 .. 7 : s[j] = t[i + j - 1]
  OBVIOUS
<1>3. Joins(c, Parser!Upload!Delimiter, Parser!Upload!CrLf)
           /\ Joins(d, Parser!Upload!Delimiter, Parser!Upload!Dashes)
  BY Marks, Concat
<1> HIDE DEF s, c, d
<1>4. i \in Nat
  OBVIOUS
<1>5. /\ s[1] = t[i] /\ s[2] = t[i + 1] /\ s[3] = t[i + 2] /\ s[4] = t[i + 3]
      /\ s[5] = t[i + 4] /\ s[6] = t[i + 5] /\ s[7] = t[i + 6]
  BY <1>2, <1>4
<1>6. s[1] = "cr" /\ s[2] = "lf" /\ s[3] = "-" /\ s[4] = "-" /\ s[5] = "B"
  BY <1>5 DEF Delimits
<1>7. /\ c \in Seq(Token) /\ Len(c) = 7
      /\ c[1] = "cr" /\ c[2] = "lf" /\ c[3] = "-" /\ c[4] = "-" /\ c[5] = "B"
      /\ c[6] = "cr" /\ c[7] = "lf"
  <2>1. c[5 + 1] = "cr" /\ c[5 + 2] = "lf"
    BY <1>3, Marks DEF Joins
  <2>2. c[6] = "cr" /\ c[7] = "lf"
    BY <2>1
  <2> QED  BY <1>3, <2>2, Marks DEF Joins
<1>8. /\ d \in Seq(Token) /\ Len(d) = 7
      /\ d[1] = "cr" /\ d[2] = "lf" /\ d[3] = "-" /\ d[4] = "-" /\ d[5] = "B"
      /\ d[6] = "-" /\ d[7] = "-"
  <2>1. d[5 + 1] = "-" /\ d[5 + 2] = "-"
    BY <1>3, Marks DEF Joins
  <2>2. d[6] = "-" /\ d[7] = "-"
    BY <2>1
  <2> QED  BY <1>3, <2>2, Marks DEF Joins
<1>9. CASE t[i + 5] = "cr" /\ t[i + 6] = "lf"
  <2>1. \A j \in 1 .. 7 : s[j] = c[j]
    BY <1>5, <1>6, <1>7, <1>9
  <2>2. s = c
    BY <1>2, <1>7, <2>1, SeqEqual
  <2> QED  BY <1>1, <2>2
<1>10. CASE t[i + 5] = "-" /\ t[i + 6] = "-"
  <2>1. \A j \in 1 .. 7 : s[j] = d[j]
    BY <1>5, <1>6, <1>8, <1>10
  <2>2. s = d
    BY <1>2, <1>8, <2>1, SeqEqual
  <2> QED  BY <1>1, <2>2
<1> QED  BY <1>9, <1>10 DEF Delimits

(* A text that ends in a line break before a boundary, and is no delimiter  *)
(* itself, has none that begins before that line break: one that began so   *)
(* late that it ran into the boundary would have its line break where the   *)
(* boundary has another token.                                              *)
LEMMA NoneEarlier ==
    ASSUME NEW p, Parser!Upload!WellFormed(p), p.multipart,
           NEW k \in 0 .. Len(p.parts), k > 0 \/ p.lead # <<>>,
           NEW q \in Int, Begins(p, k) <= q, q < Ends(p, k)
    PROVE  ~Delimits(Parser!Upload!Text(p), q + 1)
<1> DEFINE B == Parser!Upload!Text(p)
           e == Ends(p, k)
           b == Begins(p, k)
           t == IF k = 0 THEN p.lead ELSE p.parts[k].content \o Parser!Upload!CrLf
<1>1. /\ e \in Nat /\ B[e + 1] = "cr" /\ B[e + 2] = "lf"
      /\ B[e + 3] = "-" /\ B[e + 4] = "-" /\ B[e + 5] = "B"
  BY DelimiterPlaces
<1>2. /\ t \in Seq(Token) /\ Parser!Upload!Undelimited(t) /\ b \in Nat /\ e = b + Len(t) - 2
      /\ \A i \in 1 .. Len(t) : B[b + i] = t[i]
  <2>1. CASE k = 0
    <3>1. t \in Seq(Token) /\ Parser!Upload!Undelimited(t)
      BY <2>1 DEF Parser!Upload!WellFormed, Parser!Upload!Preamble, Token
    <3>2. b = 0 /\ e = b + Len(t) - 2
      BY <2>1, DelimiterPlaces DEF Begins
    <3>3. \A i \in 1 .. Len(t) : B[b + i] = t[i]
      <4>1. \A i \in 1 .. Len(t) : B[i] = t[i]
        BY <2>1, TextPlaces
      <4> HIDE DEF B, t, b
      <4> QED  BY <3>2, <4>1
    <3> QED  BY <3>1, <3>2, <3>3
  <2>2. CASE k # 0
    <3> DEFINE c == p.parts[k].content
    <3>1. k \in 1 .. Len(p.parts) /\ p.parts[k] \in Part
      BY <2>2, UptoText
    <3>2. c \in Seq(Token) /\ Len(c) = Size(p, k)
      BY <3>1 DEF Part, Token, Size
    <3>3. Joins(t, c, Parser!Upload!CrLf)
      BY <2>2, <3>2, Marks, Concat
    <3>4. Parser!Upload!Undelimited(t)
      <4>1. DOMAIN p.parts = 1 .. Len(p.parts)
        BY DEF Parser!Upload!WellFormed
      <4> QED  BY <2>2, <3>1, <4>1 DEF Parser!Upload!WellFormed
    <3>5. /\ b \in Nat /\ e = b + Size(p, k) /\ Size(p, k) \in Nat
          /\ \A i \in 1 .. Size(p, k) : B[b + i] = c[i]
      <4>1. /\ Mark(p, k - 1) \in Nat /\ LineCount(p, k) \in Nat /\ Size(p, k) \in Nat
            /\ b = Mark(p, k - 1) + 3 * LineCount(p, k) + 4 /\ e = b + Size(p, k)
        BY <3>1, PartSizes
      <4>2. b \in Nat
        BY <4>1
      <4>3. \A i \in 1 .. Size(p, k) : B[b + i] = c[i]
        BY <3>1, PartPlaces
      <4> QED  BY <4>1, <4>2, <4>3
    <3> HIDE DEF t, c, B, b, e
    <3>6. /\ t \in Seq(Token) /\ Len(t) = Size(p, k) + 2
          /\ \A i \in 1 .. Size(p, k) : t[i] = c[i]
          /\ t[Size(p, k) + 1] = "cr" /\ t[Size(p, k) + 2] = "lf"
      BY <3>2, <3>3, Marks DEF Joins
    <3>7. e = b + Len(t) - 2
      BY <3>5, <3>6
    <3>8. ASSUME NEW i \in 1 .. Len(t) PROVE B[b + i] = t[i]
      <4>1. CASE i <= Size(p, k)
        BY <3>5, <3>6, <4>1
      <4>2. CASE i = Size(p, k) + 1
        <5>1. b + i = e + 1
          BY <3>5, <4>2
        <5> QED  BY <1>1, <3>6, <4>2, <5>1
      <4>3. CASE i = Size(p, k) + 2
        <5>1. b + i = e + 2
          BY <3>5, <4>3
        <5>2. B[e + 2] = "lf" /\ t[i] = "lf"
          BY <1>1, <3>6, <4>3
        <5> QED  BY <5>1, <5>2
      <4>4. i <= Size(p, k) \/ i = Size(p, k) + 1 \/ i = Size(p, k) + 2
        BY <3>5, <3>6
      <4> QED  BY <4>1, <4>2, <4>3, <4>4, Zenon
    <3> QED  BY <3>4, <3>5, <3>6, <3>7, <3>8
  <2> QED  BY <2>1, <2>2
<1> HIDE DEF B, e, b, t
<1> DEFINE i == q + 1 - b
<1>3. i \in 1 .. Len(t) - 2 /\ q + 1 = b + i /\ Len(t) \in Nat
  <2>1. b <= q /\ q < e
    BY DEF b, e
  <2>2. Len(t) \in Nat
    BY <1>2
  <2> QED  BY <1>2, <2>1, <2>2
<1> HIDE DEF i
<1>4. CASE i <= Len(t) - 6
  <2>1. i \in 1 .. Len(t) - 6
    BY <1>3, <1>4
  <2>2. ~Delimits(t, i)
    BY <1>2, <2>1, NoDelimiter
  <2>3. ASSUME NEW d \in 0 .. 6 PROVE B[b + i + d] = t[i + d]
    <3>1. i + d \in 1 .. Len(t) /\ b + i + d = b + (i + d)
      BY <1>2, <1>3, <2>1
    <3> QED  BY <1>2, <3>1
  <2>4. /\ B[b + i] = t[i] /\ B[b + i + 1] = t[i + 1] /\ B[b + i + 2] = t[i + 2]
        /\ B[b + i + 3] = t[i + 3] /\ B[b + i + 4] = t[i + 4] /\ B[b + i + 5] = t[i + 5]
        /\ B[b + i + 6] = t[i + 6]
    <3>1. b + i + 0 = b + i /\ i + 0 = i
      BY <1>2, <1>3
    <3> QED  BY <2>3, <3>1
  <2>5. ~Delimits(B, b + i)
    BY <2>2, <2>4 DEF Delimits
  <2> QED  BY <1>3, <2>5 DEF B
<1>5. CASE i = Len(t) - 2
  <2>1. b + i + 1 = e + 1
    BY <1>2, <1>3, <1>5
  <2>2. B[b + i + 1] = "cr"
    BY <1>1, <2>1
  <2>3. ~Delimits(B, b + i)
    BY <2>2 DEF Delimits
  <2> QED  BY <1>3, <2>3 DEF B
<1>6. CASE i = Len(t) - 3
  <2>1. b + i + 2 = e + 1
    BY <1>2, <1>3, <1>6
  <2>2. B[b + i + 2] = "cr"
    BY <1>1, <2>1
  <2>3. ~Delimits(B, b + i)
    BY <2>2 DEF Delimits
  <2> QED  BY <1>3, <2>3 DEF B
<1>7. CASE i = Len(t) - 4
  <2>1. b + i + 3 = e + 1
    BY <1>2, <1>3, <1>7
  <2>2. B[b + i + 3] = "cr"
    BY <1>1, <2>1
  <2>3. ~Delimits(B, b + i)
    BY <2>2 DEF Delimits
  <2> QED  BY <1>3, <2>3 DEF B
<1>8. CASE i = Len(t) - 5
  <2>1. b + i + 4 = e + 1
    BY <1>2, <1>3, <1>8
  <2>2. B[b + i + 4] = "cr"
    BY <1>1, <2>1
  <2>3. ~Delimits(B, b + i)
    BY <2>2 DEF Delimits
  <2> QED  BY <1>3, <2>3 DEF B
<1> QED  BY <1>3, <1>4, <1>5, <1>6, <1>7, <1>8

-----------------------------------------------------------------------------
(* What the parser knows. *)

(* data is what the body has after pos, up to last.                         *)
Reads(data, pos, last) ==
    /\ data \in Seq(Token) /\ pos \in Nat
    /\ pos + Len(data) = last /\ last <= Len(Parser!Upload!Body)
    /\ \A i \in 1 .. Len(data) : data[i] = Parser!Upload!Body[pos + i]

(* The parser is at this position of the body: everything before it was     *)
(* read.                                                                    *)
Pos == got - Len(held) - Len(rest)

(* The parts of the request; the first k of them without a file; the first  *)
(* m headers of part k.                                                     *)
Parts == Len(post.parts)
NoFile(k) == \A i \in 1 .. k : i \notin Parser!Upload!Files
HeadersOf(k, m) == {post.parts[k].headers[j] : j \in 1 .. m}

(* The types, with the sequences TypeOK leaves open.                        *)
Typed ==
    /\ post \in Posts /\ got \in 0 .. Len(Parser!Upload!Body)
    /\ state \in {"initial", "preamble", "headers", "check", "ignore", "content", "finished"}
    /\ rest \in Seq(Token) /\ held \in Seq(Token) /\ Len(held) + Len(rest) <= got
    /\ headers \subseteq Parser!Upload!HeaderLines /\ out \in Seq(Token)
    /\ ended_ \in BOOLEAN

(* A request that is passed on as it arrives never comes to the loop.       *)
Passing ==
    ~post.multipart =>
        /\ state = "initial" /\ rest = <<>> /\ held = <<>>
        /\ Len(out) = got /\ \A i \in 1 .. got : out[i] = Parser!Upload!Body[i]

(* Where the parser is in a multipart request, from state to state.         *)
AtStart ==
    state \in {"initial", "preamble"} =>
        /\ Pos = 0 /\ out = <<>> /\ headers = {}
        /\ IF state = "initial" THEN held = <<>> ELSE Len(held) < 5
InHeaders ==
    state = "headers" =>
        /\ out = <<>> /\ Len(held) <= 2
        /\ \E k \in 1 .. Parts : \E m \in 0 .. LineCount(post, k) :
              /\ Pos = Mark(post, k - 1) + 3 * m + 2
              /\ headers = HeadersOf(k, m) /\ NoFile(k - 1)
AtContent ==
    state = "check" =>
        /\ out = <<>> /\ held = <<>>
        /\ \E k \in 1 .. Parts :
              /\ Pos = Begins(post, k)
              /\ headers = HeadersOf(k, LineCount(post, k)) /\ NoFile(k - 1)
Ignoring ==
    state = "ignore" =>
        /\ out = <<>> /\ Len(held) <= 6
        /\ \E k \in 0 .. Parts :
              /\ k > 0 \/ post.lead # <<>>
              /\ Begins(post, k) <= Pos /\ Pos <= Ends(post, k) /\ NoFile(k)
Reading ==
    state = "content" =>
        /\ Len(held) <= 6
        /\ \E k \in 1 .. Parts :
              /\ k \in Parser!Upload!Files /\ NoFile(k - 1)
              /\ Begins(post, k) <= Pos /\ Pos <= Ends(post, k)
              /\ Len(out) = Pos - Begins(post, k)
              /\ \A i \in 1 .. Len(out) : out[i] = post.parts[k].content[i]
Done == state = "finished" => out = Parser!Upload!Wanted /\ held = <<>>

(* The invariant of the parser: until the end was reported, what is held    *)
(* and what is left of the chunk are what the body has next, at a place     *)
(* that fits the state, and what was delivered is what the body has before  *)
(* it.                                                                      *)
Parsing ==
    /\ Reads(held \o rest, Pos, got)
    /\ AtStart /\ InHeaders /\ AtContent /\ Ignoring /\ Reading /\ Done

ParserIInv ==
    /\ Typed
    /\ ~ended_ => Passing /\ (post.multipart => Parsing)

-----------------------------------------------------------------------------
(* What Min and Max are.                                                    *)
LEMMA LeastIs ==
    ASSUME NEW S \in SUBSET Nat, S # {}
    PROVE  Parser!Min(S) \in S /\ \A k \in S : Parser!Min(S) <= k
<1>1. \E m \in S : \A k \in S : m <= k
  BY LeastNatural
<1> QED  BY <1>1 DEF Parser!Min

LEMMA GreatestIs ==
    ASSUME NEW n \in Nat, NEW S \in SUBSET (0 .. n), S # {}
    PROVE  Parser!Max(S) \in S /\ \A k \in S : k <= Parser!Max(S)
<1> DEFINE T == {n - k : k \in S}
<1>1. T \in SUBSET Nat /\ T # {}
  <2>1. \A k \in S : n - k \in Nat
    <3>1. \A k \in S : k \in 0 .. n
      OBVIOUS
    <3> QED  BY <3>1
  <2> QED  BY <2>1
<1>2. PICK t \in T : \A k \in T : t <= k
  <2> HIDE DEF T
  <2> QED  BY <1>1, LeastNatural
<1>3. PICK m \in S : t = n - m
  OBVIOUS
<1>4. \A k \in S : k <= m
  <2>1. ASSUME NEW k \in S PROVE k <= m
    <3>1. n - k \in T
      OBVIOUS
    <3>2. t <= n - k
      BY <1>2, <3>1
    <3> QED  BY <1>3, <3>2
  <2> QED  BY <2>1
<1>5. \E x \in S : \A k \in S : x >= k
  BY <1>4
<1>6. Parser!Max(S) \in S /\ \A k \in S : Parser!Max(S) >= k
  BY <1>5 DEF Parser!Max
<1> QED  BY <1>6

(* The first part with a file.                                              *)
LEMMA FirstFile ==
    ASSUME Typed, NEW k \in 1 .. Parts, k \in Parser!Upload!Files, NoFile(k - 1)
    PROVE  Parser!Upload!Files # {} /\ Parser!Min(Parser!Upload!Files) = k
<1>1. Parser!Upload!WellFormed(post)
  BY PostsAssumption DEF Typed, Parser!ConstantsOK
<1>2. Parser!Upload!Files \subseteq 1 .. Parts /\ Parts \in Nat
  BY <1>1, UptoText DEF Parser!Upload!Files, Parser!Upload!WellFormed, Parts
<1>3. Parser!Min(Parser!Upload!Files) \in Parser!Upload!Files
           /\ \A i \in Parser!Upload!Files : Parser!Min(Parser!Upload!Files) <= i
  BY <1>2, LeastIs
<1>4. Parser!Min(Parser!Upload!Files) \in 1 .. Parts /\ Parser!Min(Parser!Upload!Files) <= k
  BY <1>2, <1>3
<1>5. k - 1 \in Nat /\ Parser!Min(Parser!Upload!Files) \notin 1 .. k - 1
  BY <1>2, <1>3 DEF NoFile
<1> QED  BY <1>2, <1>4, <1>5

(* What is left of some data is what the body has from there on.            *)
LEMMA FromReads ==
    ASSUME NEW data, NEW pos, NEW last, Reads(data, pos, last), NEW i \in 1 .. Len(data) + 1
    PROVE  /\ Reads(Parser!From(data, i), pos + i - 1, last)
           /\ Len(Parser!From(data, i)) = Len(data) - i + 1
<1> DEFINE d == Parser!From(data, i)
<1>1. data \in Seq(Token) /\ Len(data) \in Nat /\ pos \in Nat /\ i \in Nat
  BY DEF Reads
<1>2. /\ d \in Seq(Token) /\ Len(d) = Len(data) - i + 1
      /\ \A j \in 1 .. Len(data) - i + 1 : d[j] = data[i + j - 1]
  BY <1>1 DEF Parser!From
<1> HIDE DEF d
<1>3. ASSUME NEW j \in 1 .. Len(d) PROVE d[j] = Parser!Upload!Body[pos + i - 1 + j]
  <2>1. i + j - 1 \in 1 .. Len(data) /\ pos + (i + j - 1) = pos + i - 1 + j
    BY <1>1, <1>2
  <2>2. data[i + j - 1] = Parser!Upload!Body[pos + (i + j - 1)]
    BY <2>1 DEF Reads
  <2> QED  BY <1>2, <2>1, <2>2
<1>4. pos + i - 1 \in Nat /\ pos + i - 1 + Len(d) = last
  <2>1. pos + Len(data) = last
    BY DEF Reads
  <2> QED  BY <1>1, <1>2, <2>1
<1>5. Reads(d, pos + i - 1, last)
  BY <1>2, <1>3, <1>4 DEF Reads
<1> QED  BY <1>2, <1>5 DEF d

LEMMA Empty == ASSUME NEW s \in Seq(Token)
               PROVE  /\ <<>> \in Seq(Token) /\ Len(<<>>) = 0
                      /\ <<>> \o s = s /\ s \o <<>> = s
  BY ConcatEmptySeq, EmptySeq

LEMMA Joining == ASSUME NEW s \in Seq(Token), NEW t \in Seq(Token)
                 PROVE  /\ s \o t \in Seq(Token) /\ Len(s \o t) = Len(s) + Len(t)
                        /\ Len(s) \in Nat /\ Len(t) \in Nat
<1>1. Joins(s \o t, s, t)
  BY Concat
<1> QED  BY <1>1 DEF Joins

(* In the loop.                                                             *)
LEMMA InLoop ==
    ASSUME ParserIInv, NEW s, Parser!Loop(s)
    PROVE  /\ Typed /\ ~ended_ /\ post.multipart /\ Parsing /\ state = s
           /\ Parser!Upload!WellFormed(post) /\ post \in Posts
           /\ Reads(held \o rest, Pos, got) /\ held \o rest \in Seq(Token)
           /\ Len(held \o rest) \in Nat /\ Len(held \o rest) >= 1
           /\ Pos \in Nat /\ got = Pos + Len(held \o rest)
           /\ Parts \in Nat /\ Parts > 0 /\ Parser!Upload!Body = Parser!Upload!Text(post)
<1>1. Typed /\ ~ended_ /\ rest # <<>> /\ state = s
  BY DEF ParserIInv, Parser!Loop
<1>2. post.multipart /\ Parsing
  BY <1>1 DEF ParserIInv, Passing
<1>3. post \in Posts /\ Parser!Upload!WellFormed(post)
  BY <1>1, PostsAssumption DEF Typed, Parser!ConstantsOK
<1>4. held \in Seq(Token) /\ rest \in Seq(Token)
  BY <1>1 DEF Typed
<1>5. Len(rest) \in Nat /\ Len(rest) >= 1 /\ Len(held) \in Nat
  BY <1>1, <1>4
<1>6. held \o rest \in Seq(Token) /\ Len(held \o rest) = Len(held) + Len(rest)
  BY <1>4, Joining
<1>7. Reads(held \o rest, Pos, got)
  BY <1>2 DEF Parsing
<1>8. Pos \in Nat /\ Pos + Len(held \o rest) = got
  BY <1>7 DEF Reads
<1>9. Parts \in Nat /\ Parts > 0
  BY <1>3, UptoText DEF Parts
<1>10. Parser!Upload!Body = Parser!Upload!Text(post)
  BY DEF Parser!Upload!Body
<1>11. Len(held \o rest) \in Nat /\ Len(held \o rest) >= 1
  BY <1>5, <1>6
<1> QED  BY <1>1, <1>2, <1>3, <1>6, <1>7, <1>8, <1>9, <1>10, <1>11

(* What Hold and Continue leave is what the body has from there on.         *)
LEMMA Takes ==
    ASSUME NEW data, NEW pos, Reads(data, pos, got), NEW i \in 1 .. Len(data) + 1,
           Parser!Hold(data, i) \/ Parser!Continue(data, i), post' = post, got' = got
    PROVE  /\ held' \in Seq(Token) /\ rest' \in Seq(Token)
           /\ Pos' = pos + i - 1 /\ Reads(held \o rest, Pos, got)'
           /\ Len(held') + Len(rest') <= got' /\ Len(held') \in Nat /\ Len(rest') \in Nat
           /\ Parser!Hold(data, i) => Len(held') = Len(data) - i + 1 /\ rest' = <<>>
           /\ Parser!Continue(data, i) => held' = <<>> /\ Len(held') = 0
<1> DEFINE d == Parser!From(data, i)
<1>1. Reads(d, pos + i - 1, got) /\ Len(d) = Len(data) - i + 1
  BY FromReads
<1> HIDE DEF d
<1>2. /\ data \in Seq(Token) /\ Len(data) \in Nat /\ pos \in Nat /\ pos + Len(data) = got
      /\ d \in Seq(Token) /\ Len(d) \in Nat /\ i \in Nat /\ i <= Len(data) + 1
  BY <1>1 DEF Reads
<1>3. \/ held' = d /\ rest' = <<>>
      \/ held' = <<>> /\ rest' = d
  BY DEF Parser!Hold, Parser!Continue, d
<1>4. held' \in Seq(Token) /\ rest' \in Seq(Token) /\ held' \o rest' = d
  BY <1>2, <1>3, Empty
<1>5. Len(held') \in Nat /\ Len(rest') \in Nat /\ Len(held') + Len(rest') = Len(data) - i + 1
  BY <1>1, <1>2, <1>3, Empty
<1>6. Pos' = pos + i - 1
  BY <1>2, <1>5 DEF Pos
<1>7. Reads(held' \o rest', Pos', got')
  BY <1>1, <1>4, <1>6
<1>8. Parser!Upload!Body' = Parser!Upload!Body
  BY DEF Parser!Upload!Body
<1>9. Reads(held \o rest, Pos, got)'
  BY <1>7, <1>8 DEF Reads
<1>10. Len(held') + Len(rest') <= got'
  BY <1>2, <1>5
<1>11. Parser!Hold(data, i) => Len(held') = Len(data) - i + 1 /\ rest' = <<>>
  BY <1>1 DEF Parser!Hold, d
<1>12. Parser!Continue(data, i) => held' = <<>> /\ Len(held') = 0
  BY DEF Parser!Continue
<1> QED  BY <1>4, <1>5, <1>6, <1>9, <1>10, <1>11, <1>12

(* The end of a step in the loop.                                           *)
LEMMA Closes ==
    ASSUME Typed, post.multipart, UNCHANGED <<post, got, ended_>>,
           held' \in Seq(Token), rest' \in Seq(Token), Len(held') + Len(rest') <= got',
           state' \in {"initial", "preamble", "headers", "check", "ignore", "content",
                "finished"},
           headers' \subseteq Parser!Upload!HeaderLines, out' \in Seq(Token), Parsing'
    PROVE  ParserIInv'
<1>1. Parser!Upload!Body' = Parser!Upload!Body
  BY DEF Parser!Upload!Body
<1>2. Typed'
  BY <1>1 DEF Typed
<1>3. Passing'
  BY DEF Passing
<1> QED  BY <1>2, <1>3 DEF ParserIInv

LEMMA CheckPreambleStep == ASSUME ParserIInv, Parser!CheckPreamble PROVE ParserIInv'
<1>1. Parser!Loop("initial") /\ UNCHANGED <<post, got, rest, held, headers, out, ended_>>
  BY DEF Parser!CheckPreamble
<1>2. /\ Typed /\ ~ended_ /\ post.multipart /\ Parsing /\ state = "initial"
      /\ Parser!Upload!WellFormed(post) /\ Parser!Upload!Body = Parser!Upload!Text(post)
  BY <1>1, InLoop
<1>3. Pos = 0 /\ out = <<>> /\ headers = {} /\ held = <<>>
  BY <1>2 DEF Parsing, AtStart
<1>4. rest # <<>> /\ rest \in Seq(Token) /\ Reads(rest, 0, got)
  BY <1>1, <1>2, <1>3, Empty DEF Parser!Loop, Typed, Parsing
<1>5. Head(rest) = Parser!Upload!Body[1]
  <2>1. 1 \in 1 .. Len(rest)
    BY <1>4
  <2>2. rest[1] = Parser!Upload!Body[0 + 1]
    BY <1>4, <2>1 DEF Reads
  <2> QED  BY <1>4, <2>2
<1>6. state' = IF Head(rest) = "cr" THEN "ignore" ELSE "preamble"
  BY DEF Parser!CheckPreamble
<1>7. Parser!Upload!Body' = Parser!Upload!Body /\ Pos' = Pos
  BY <1>1 DEF Parser!Upload!Body, Pos
<1>8. Reads(held \o rest, Pos, got)'
  <2>1. Reads(held \o rest, Pos, got)
    BY <1>2 DEF Parsing
  <2> QED  BY <1>1, <1>7, <2>1 DEF Reads
<1>9. CASE state' = "ignore"
  <2>1. post.lead # <<>>
    <3>1. Parser!Upload!Body[1] = "cr"
      BY <1>5, <1>6, <1>9
    <3>2. 0 \in 0 .. Len(post.parts)
      BY <1>2, UptoText
    <3>3. Len(post.lead) = 0 => Parser!Upload!Body[1] = "-"
      <4> DEFINE e == Ends(post, 0)
      <4>1. /\ Parser!Upload!Text(post)[e + 3] = "-" /\ e = Len(post.lead) - 2
            /\ Len(post.lead) \in Nat
        BY <1>2, <3>2, DelimiterPlaces
      <4>2. Parser!Upload!Body = Parser!Upload!Text(post)
        BY <1>2
      <4> HIDE DEF e
      <4>3. Len(post.lead) = 0 => e + 3 = 1
        BY <4>1
      <4> QED  BY <4>1, <4>2, <4>3
    <3> QED  BY <3>1, <3>3
  <2>2. Begins(post, 0) = 0 /\ Ends(post, 0) \in Nat /\ NoFile(0)
    <3>1. 0 \in 0 .. Len(post.parts)
      BY <1>2, UptoText
    <3> QED  BY <1>2, <2>1, <3>1, DelimiterPlaces DEF Begins, NoFile
  <2>3. Ignoring'
    <3>1. 0 \in 0 .. Parts'
      BY <1>1, <1>2, UptoText DEF Parts
    <3>2. NoFile(0)'
      BY DEF NoFile
    <3>3. /\ post' = post /\ out' = <<>> /\ Len(held') <= 6 /\ Pos' = 0
      BY <1>1, <1>3, <1>7
    <3> QED  BY <2>1, <2>2, <3>1, <3>2, <3>3 DEF Ignoring
  <2> QED  BY <1>1, <1>2, <1>8, <1>9, <2>3, Closes
              DEF Typed, Parsing, AtStart, InHeaders, AtContent, Reading, Done
<1>10. CASE state' = "preamble"
  <2>1. AtStart'
    BY <1>1, <1>3, <1>7, <1>10 DEF AtStart
  <2> QED  BY <1>1, <1>2, <1>8, <1>10, <2>1, Closes
              DEF Typed, Parsing, Ignoring, InHeaders, AtContent, Reading, Done
<1> QED  BY <1>6, <1>9, <1>10

LEMMA Pair ==
    ASSUME NEW s \in Seq(Token), NEW i \in 1 .. Len(s) - 1, NEW a, NEW b
    PROVE  SubSeq(s, i, i + 1) = <<a, b>> <=> s[i] = a /\ s[i + 1] = b
<1> DEFINE t == SubSeq(s, i, i + 1)
<1>1. t \in Seq(Token) /\ Len(t) = 2 /\ t[1] = s[i] /\ t[2] = s[i + 1]
  OBVIOUS
<1> HIDE DEF t
<1>2. t = <<t[1], t[2]>>
  BY <1>1
<1>3. t = <<a, b>> <=> t[1] = a /\ t[2] = b
  BY <1>2
<1> QED  BY <1>1, <1>3 DEF t

LEMMA Five ==
    ASSUME NEW s \in Seq(Token), NEW i \in 1 .. Len(s) - 4,
           NEW a, NEW b, NEW c, NEW d, NEW e
    PROVE  SubSeq(s, i, i + 4) = <<a, b, c, d, e>> <=>
             s[i] = a /\ s[i + 1] = b /\ s[i + 2] = c /\ s[i + 3] = d /\ s[i + 4] = e
<1> DEFINE t == SubSeq(s, i, i + 4)
<1>1. /\ t \in Seq(Token) /\ Len(t) = 5 /\ t[1] = s[i] /\ t[2] = s[i + 1] /\ t[3] = s[i + 2]
      /\ t[4] = s[i + 3] /\ t[5] = s[i + 4]
  OBVIOUS
<1> HIDE DEF t
<1>2. t = <<t[1], t[2], t[3], t[4], t[5]>>
  BY <1>1
<1>3. t = <<a, b, c, d, e>> <=> t[1] = a /\ t[2] = b /\ t[3] = c /\ t[4] = d /\ t[5] = e
  BY <1>2
<1> QED  BY <1>1, <1>3 DEF t

(* What two tokens after a boundary mean.                                   *)
LEMMA EndingIs ==
    ASSUME NEW s \in Seq(Token), NEW i \in 1 .. Len(s) - 1
    PROVE  /\ s[i] = "cr" /\ s[i + 1] = "lf" => Parser!Ending(s, i) = "headers"
           /\ s[i] = "-" /\ s[i + 1] = "-" => Parser!Ending(s, i) = "finished"
           /\ Parser!Ending(s, i) # "none" => (s[i] = "cr" /\ s[i + 1] = "lf")
                \/ (s[i] = "-" /\ s[i + 1] = "-")
<1>0. \A a, b : SubSeq(s, i, i + 1) = <<a, b>> <=> s[i] = a /\ s[i + 1] = b
  BY Pair
<1>1. SubSeq(s, i, i + 1) = <<"cr", "lf">> <=> s[i] = "cr" /\ s[i + 1] = "lf"
  BY <1>0, Zenon
<1>2. SubSeq(s, i, i + 1) = <<"-", "-">> <=> s[i] = "-" /\ s[i + 1] = "-"
  BY <1>0, Zenon
<1>3. "cr" # "-"
  OBVIOUS
<1>4. CASE s[i] = "cr" /\ s[i + 1] = "lf"
  BY <1>1, <1>2, <1>4 DEF Parser!Ending
<1>5. CASE s[i] = "-" /\ s[i + 1] = "-"
  BY <1>1, <1>2, <1>5 DEF Parser!Ending
<1>6. CASE ~(s[i] = "cr" /\ s[i + 1] = "lf") /\ ~(s[i] = "-" /\ s[i + 1] = "-")
  <2>1. Parser!Ending(s, i) = "none"
    BY <1>1, <1>2, <1>6 DEF Parser!Ending
  <2> QED  BY <1>6, <2>1
<1> QED  BY <1>4, <1>5, <1>6

(* What the test for a delimiter tells.                                     *)
LEMMA IsDelimiterIs ==
    ASSUME NEW s \in Seq(Token), NEW i \in 1 .. Len(s) - 6
    PROVE  /\ Parser!IsDelimiter(s, i) <=> Delimits(s, i)
           /\ s[i + 5] = "cr" /\ s[i + 6] = "lf" => Parser!Ending(s, i + 5) = "headers"
           /\ s[i + 5] = "-" /\ s[i + 6] = "-" => Parser!Ending(s, i + 5) = "finished"
<1>1. i + 5 \in 1 .. Len(s) - 1 /\ i \in 1 .. Len(s) - 4 /\ i + 5 + 1 = i + 6
  OBVIOUS
<1>2. /\ s[i + 5] = "cr" /\ s[i + 6] = "lf" => Parser!Ending(s, i + 5) = "headers"
      /\ s[i + 5] = "-" /\ s[i + 6] = "-" => Parser!Ending(s, i + 5) = "finished"
      /\ Parser!Ending(s, i + 5) # "none" => (s[i + 5] = "cr" /\ s[i + 6] = "lf")
           \/ (s[i + 5] = "-" /\ s[i + 6] = "-")
  <2> DEFINE j == i + 5
  <2>1. j \in 1 .. Len(s) - 1 /\ j + 1 = i + 6
    BY <1>1
  <2> HIDE DEF j
  <2>2. /\ s[j] = "cr" /\ s[j + 1] = "lf" => Parser!Ending(s, j) = "headers"
        /\ s[j] = "-" /\ s[j + 1] = "-" => Parser!Ending(s, j) = "finished"
        /\ Parser!Ending(s, j) # "none" => (s[j] = "cr" /\ s[j + 1] = "lf")
             \/ (s[j] = "-" /\ s[j + 1] = "-")
    BY <2>1, EndingIs
  <2> QED  BY <2>1, <2>2 DEF j
<1>3. SubSeq(s, i, i + 4) = <<"cr", "lf", "-", "-", "B">> <=>
        s[i] = "cr" /\ s[i + 1] = "lf" /\ s[i + 2] = "-" /\ s[i + 3] = "-" /\ s[i + 4] = "B"
  <2>1. \A a, b, c, d, e : SubSeq(s, i, i + 4) = <<a, b, c, d, e>> <=>
           s[i] = a /\ s[i + 1] = b /\ s[i + 2] = c /\ s[i + 3] = d /\ s[i + 4] = e
    BY <1>1, Five
  <2> QED  BY <2>1, Zenon
<1>4. i + 3 + Parser!BoundaryLength = i + 4 /\ i + 4 + Parser!BoundaryLength = i + 5
  BY DEF Parser!BoundaryLength
<1>5. Parser!IsDelimiter(s, i) <=> /\ SubSeq(s, i, i + 4) = <<"cr", "lf", "-", "-", "B">>
                                   /\ Parser!Ending(s, i + 5) # "none"
  BY <1>4 DEF Parser!IsDelimiter
<1>6. "headers" # "none" /\ "finished" # "none"
  OBVIOUS
<1>7. Parser!IsDelimiter(s, i) => Delimits(s, i)
  BY <1>2, <1>3, <1>5 DEF Delimits
<1>8. Delimits(s, i) => Parser!IsDelimiter(s, i)
  BY <1>2, <1>3, <1>5, <1>6 DEF Delimits
<1> QED  BY <1>2, <1>7, <1>8

(* A request without a line break before the first boundary begins with     *)
(* the boundary, and no other does.                                         *)
LEMMA Opening ==
    ASSUME NEW p, Parser!Upload!WellFormed(p), p.multipart
    PROVE  LET B == Parser!Upload!Text(p)
           IN  /\ p.lead = <<>> => /\ B[1] = "-" /\ B[2] = "-" /\ B[3] = "B"
                                   /\ B[4] = "cr" /\ B[5] = "lf" /\ Mark(p, 0) = 3
               /\ p.lead # <<>> => ~(B[1] = "-" /\ B[2] = "-" /\ B[3] = "B")
<1> DEFINE B == Parser!Upload!Text(p)
           n == Len(p.lead)
<1>1. 0 \in 0 .. Len(p.parts) /\ 0 < Len(p.parts)
  BY UptoText
<1>2. p.lead \in Seq(Token) /\ n \in Nat
  BY DEF Parser!Upload!WellFormed, Token
<1>3. p.lead = <<>> => /\ B[1] = "-" /\ B[2] = "-" /\ B[3] = "B"
                       /\ B[4] = "cr" /\ B[5] = "lf" /\ Mark(p, 0) = 3
  <2> SUFFICES ASSUME p.lead = <<>>
               PROVE  /\ B[1] = "-" /\ B[2] = "-" /\ B[3] = "B"
                      /\ B[4] = "cr" /\ B[5] = "lf" /\ Mark(p, 0) = 3
    OBVIOUS
  <2>1. Ends(p, 0) = 0 - 2
    BY <1>1, DelimiterPlaces
  <2>2. /\ B[Ends(p, 0) + 3] = "-" /\ B[Ends(p, 0) + 4] = "-" /\ B[Ends(p, 0) + 5] = "B"
        /\ B[Ends(p, 0) + 6] = "cr" /\ B[Ends(p, 0) + 7] = "lf" /\ Mark(p, 0) = Ends(p, 0) + 5
    BY <1>1, DelimiterPlaces
  <2> HIDE DEF B
  <2> QED  BY <2>1, <2>2
<1>4. ASSUME p.lead # <<>>, B[1] = "-", B[2] = "-", B[3] = "B" PROVE FALSE
  <2>1. Parser!Upload!Preamble(p.lead)
    BY <1>4 DEF Parser!Upload!WellFormed
  <2>2. n >= 2 /\ SubSeq(p.lead, n - 1, n) = Parser!Upload!CrLf
    BY <2>1 DEF Parser!Upload!Preamble
  <2>3. \A i \in 1 .. n : B[i] = p.lead[i]
    BY TextPlaces
  <2> HIDE DEF B
  <2>4. CASE n = 2
    <3>1. SubSeq(p.lead, 1, 2)[1] = p.lead[1]
      BY <1>2, <2>4
    <3>2. p.lead[1] = "cr"
      BY <2>2, <2>4, <3>1, Marks
    <3> QED  BY <1>4, <2>3, <2>4, <3>2
  <2>5. CASE n >= 3
    <3> DEFINE s == SubSeq(p.lead, 1, 3)
    <3>1. s # Parser!Upload!Boundary
      BY <2>1, <2>5 DEF Parser!Upload!Preamble
    <3>2. s \in Seq(Token) /\ Len(s) = 3 /\ s[1] = p.lead[1] /\ s[2] = p.lead[2]
               /\ s[3] = p.lead[3]
      BY <1>2, <2>5
    <3>3. p.lead[1] = "-" /\ p.lead[2] = "-" /\ p.lead[3] = "B"
      BY <1>2, <1>4, <2>3, <2>5
    <3> HIDE DEF s
    <3>4. \A i \in 1 .. 3 : s[i] = Parser!Upload!Boundary[i]
      BY <3>2, <3>3, Marks
    <3>6. Parser!Upload!Boundary \in Seq(Token) /\ Len(Parser!Upload!Boundary) = 3
      BY Marks
    <3>5. s = Parser!Upload!Boundary
      BY <3>2, <3>4, <3>6, SeqEqual
    <3> QED  BY <3>1, <3>5
  <2> QED  BY <1>2, <2>2, <2>4, <2>5
<1> QED  BY <1>3, <1>4

(* Some tokens of a chunk, one by one.                                      *)
LEMMA SecondTokens ==
    ASSUME NEW s \in Seq(Token), Len(s) >= 5
    PROVE  \A a, b : SubSeq(s, 2, 3) = <<a, b>> <=> s[2] = a /\ s[3] = b
<1> DEFINE t == SubSeq(s, 2, 3)
<1>1. t \in Seq(Token) /\ Len(t) = 2 /\ t[1] = s[2] /\ t[2] = s[3]
  OBVIOUS
<1> HIDE DEF t
<1>2. t = <<t[1], t[2]>>
  BY <1>1
<1>3. \A a, b : t = <<a, b>> <=> t[1] = a /\ t[2] = b
  BY <1>2
<1> QED  BY <1>1, <1>3 DEF t

LEMMA FirstTokens ==
    ASSUME NEW s \in Seq(Token), Len(s) >= 5
    PROVE  \A a, b, c : SubSeq(s, 1, 3) = <<a, b, c>> <=> s[1] = a /\ s[2] = b /\ s[3] = c
<1> DEFINE t == SubSeq(s, 1, 3)
<1>1. t \in Seq(Token) /\ Len(t) = 3 /\ t[1] = s[1] /\ t[2] = s[2] /\ t[3] = s[3]
  OBVIOUS
<1> HIDE DEF t
<1>2. t = <<t[1], t[2], t[3]>>
  BY <1>1
<1>3. \A a, b, c : t = <<a, b, c>> <=> t[1] = a /\ t[2] = b /\ t[3] = c
  BY <1>2
<1> QED  BY <1>1, <1>3 DEF t

(* kms_http_post_find_first_boundary, and the other functions of the loop   *)
(* below: each keeps the invariant.                                         *)
LEMMA SkipPreambleStep == ASSUME ParserIInv, Parser!SkipPreamble PROVE ParserIInv'
<1> DEFINE data == held \o rest
<1>1. Parser!Loop("preamble") /\ UNCHANGED <<post, got, headers, out, ended_>>
  BY DEF Parser!SkipPreamble
<1>2. /\ Typed /\ ~ended_ /\ post.multipart /\ Parsing /\ state = "preamble"
      /\ Parser!Upload!WellFormed(post) /\ Parser!Upload!Body = Parser!Upload!Text(post)
      /\ Reads(data, Pos, got) /\ data \in Seq(Token) /\ Len(data) \in Nat /\ Len(data) >= 1
      /\ Parts \in Nat /\ Parts > 0
  BY <1>1, InLoop
<1>3. Pos = 0 /\ out = <<>> /\ headers = {}
  BY <1>2 DEF Parsing, AtStart
<1>4. Reads(data, 0, got) /\ \A i \in 1 .. Len(data) : data[i] = Parser!Upload!Body[i]
  BY <1>2, <1>3 DEF Reads
<1>5. \/ /\ \/ data[1] # "-"
            \/ Len(data) >= 5 /\ SubSeq(data, 2, 3) # <<"-", "B">>
         /\ state' = "ignore" /\ Parser!Continue(data, 1)
      \/ /\ Len(data) < 5 /\ Parser!Hold(data, 1) /\ state' = state
      \/ /\ Len(data) >= 5 /\ SubSeq(data, 1, 3) = <<"-", "-", "B">>
         /\ LET next == Parser!Ending(data, 4) IN state' = IF next = "none" THEN state ELSE next
         /\ Parser!Continue(data, 6)
  <2>1. /\ Parser!BoundaryLength + 4 = 5 /\ 2 + Parser!BoundaryLength = 3
        /\ Parser!BoundaryLength + 3 = 4 /\ Parser!BoundaryLength + 5 = 6
    BY DEF Parser!BoundaryLength
  <2> QED  BY <2>1, Zenon DEF Parser!SkipPreamble
<1> HIDE DEF data
<1>6. CASE /\ \/ data[1] # "-"
              \/ Len(data) >= 5 /\ SubSeq(data, 2, 3) # <<"-", "B">>
           /\ state' = "ignore" /\ Parser!Continue(data, 1)
  <2>1. post.lead # <<>>
    <3> SUFFICES ASSUME post.lead = <<>> PROVE FALSE
      OBVIOUS
    <3>1. Parser!Upload!Body[1] = "-" /\ Parser!Upload!Body[2] = "-"
               /\ Parser!Upload!Body[3] = "B"
      BY <1>2, Opening
    <3>2. data[1] = "-"
      BY <1>2, <1>4, <3>1
    <3>3. Len(data) >= 5 => data[2] = "-" /\ data[3] = "B"
      BY <1>4, <3>1
    <3>4. Len(data) >= 5 => SubSeq(data, 2, 3) = <<"-", "B">>
      <4> SUFFICES ASSUME Len(data) >= 5 PROVE SubSeq(data, 2, 3) = <<"-", "B">>
        OBVIOUS
      <4>2. \A a, b : SubSeq(data, 2, 3) = <<a, b>> <=> data[2] = a /\ data[3] = b
        BY <1>2, SecondTokens
      <4> QED  BY <3>3, <4>2, Zenon
    <3> QED  BY <1>6, <3>2, <3>4
  <2>2. Begins(post, 0) = 0 /\ Ends(post, 0) \in Nat
    <3>1. 0 \in 0 .. Len(post.parts)
      BY <1>2, UptoText
    <3> QED  BY <1>2, <2>1, <3>1, DelimiterPlaces DEF Begins
  <2>3. /\ held' \in Seq(Token) /\ rest' \in Seq(Token) /\ Pos' = 0
        /\ Reads(held \o rest, Pos, got)'
        /\ Len(held') + Len(rest') <= got' /\ Len(held') = 0
    <3>1. 1 \in 1 .. Len(data) + 1 /\ 0 + 1 - 1 = 0
      BY <1>2
    <3> QED  BY <1>1, <1>4, <1>6, <3>1, Takes
  <2>4. Ignoring'
    <3>1. 0 \in 0 .. Parts' /\ post' = post /\ out' = <<>>
      BY <1>1, <1>2, <1>3 DEF Parts
    <3>2. NoFile(0)'
      BY DEF NoFile
    <3> QED  BY <2>1, <2>2, <2>3, <3>1, <3>2 DEF Ignoring
  <2> QED  BY <1>1, <1>2, <1>6, <2>3, <2>4, Closes
              DEF Typed, Parsing, AtStart, InHeaders, AtContent, Reading, Done
<1>7. CASE Len(data) < 5 /\ Parser!Hold(data, 1) /\ state' = state
  <2>1. /\ held' \in Seq(Token) /\ rest' \in Seq(Token) /\ Pos' = 0
        /\ Reads(held \o rest, Pos, got)'
        /\ Len(held') + Len(rest') <= got' /\ Len(held') < 5
    <3>1. 1 \in 1 .. Len(data) + 1 /\ 0 + 1 - 1 = 0 /\ Len(data) - 1 + 1 < 5
      BY <1>2, <1>7
    <3> QED  BY <1>1, <1>4, <1>7, <3>1, Takes
  <2>2. AtStart'
    BY <1>1, <1>2, <1>3, <1>7, <2>1 DEF AtStart
  <2> QED  BY <1>1, <1>2, <1>7, <2>1, <2>2, Closes
              DEF Typed, Parsing, Ignoring, InHeaders, AtContent, Reading, Done
<1>8. CASE /\ Len(data) >= 5 /\ SubSeq(data, 1, 3) = <<"-", "-", "B">>
           /\ LET next == Parser!Ending(data, 4) IN state' = IF next = "none" THEN state ELSE next
           /\ Parser!Continue(data, 6)
  <2>1. data[1] = "-" /\ data[2] = "-" /\ data[3] = "B"
    <3>2. \A a, b, c : SubSeq(data, 1, 3) = <<a, b, c>> <=>
             data[1] = a /\ data[2] = b /\ data[3] = c
      BY <1>2, <1>8, FirstTokens
    <3> QED  BY <1>8, <3>2, Zenon
  <2>2. Parser!Upload!Body[1] = "-" /\ Parser!Upload!Body[2] = "-" /\ Parser!Upload!Body[3] = "B"
    BY <1>2, <1>4, <1>8, <2>1
  <2>3. /\ Parser!Upload!Body[4] = "cr" /\ Parser!Upload!Body[5] = "lf" /\ Mark(post, 0) = 3
    BY <1>2, <2>2, Opening
  <2>4. state' = "headers"
    <3>1. data[4] = "cr" /\ data[4 + 1] = "lf" /\ 4 \in 1 .. Len(data) - 1
      BY <1>2, <1>4, <1>8, <2>3
    <3>2. Parser!Ending(data, 4) = "headers"
      BY <1>2, <3>1, EndingIs
    <3> QED  BY <1>8, <3>2
  <2>5. /\ held' \in Seq(Token) /\ rest' \in Seq(Token) /\ Pos' = 5
        /\ Reads(held \o rest, Pos, got)'
        /\ Len(held') + Len(rest') <= got' /\ Len(held') = 0
    <3>1. 6 \in 1 .. Len(data) + 1 /\ 0 + 6 - 1 = 5
      BY <1>2, <1>8
    <3> QED  BY <1>1, <1>4, <1>8, <3>1, Takes
  <2>6. InHeaders'
    <3>1. 1 \in 1 .. Parts' /\ post' = post /\ out' = <<>> /\ headers' = {}
      BY <1>1, <1>2, <1>3 DEF Parts
    <3>2. 0 \in 0 .. LineCount(post, 1)
      <4>1. 1 \in 1 .. Len(post.parts)
        BY <1>2, UptoText
      <4> QED  BY <1>2, <4>1, Lengths
    <3>3. Pos' = Mark(post, 1 - 1) + 3 * 0 + 2
      BY <2>3, <2>5
    <3>4. HeadersOf(1, 0)' = {} /\ NoFile(1 - 1)'
      BY DEF HeadersOf, NoFile
    <3> QED  BY <2>5, <3>1, <3>2, <3>3, <3>4 DEF InHeaders
  <2> QED  BY <1>1, <1>2, <2>4, <2>5, <2>6, Closes
              DEF Typed, Parsing, AtStart, Ignoring, AtContent, Reading, Done
<1> QED  BY <1>5, <1>6, <1>7, <1>8

(* A delimiter in what was read is one of the body, and the reverse.        *)
LEMMA DelimitsThere ==
    ASSUME NEW data, NEW pos, NEW last, Reads(data, pos, last), NEW i \in 1 .. Len(data) - 6
    PROVE  Delimits(data, i) <=> Delimits(Parser!Upload!Body, pos + i)
<1>1. data \in Seq(Token) /\ Len(data) \in Nat /\ pos \in Nat /\ i \in Nat /\ i + 6 <= Len(data)
  BY DEF Reads
<1>2. \A j \in 0 .. 6 : data[i + j] = Parser!Upload!Body[pos + i + j]
  <2>1. ASSUME NEW j \in 0 .. 6 PROVE data[i + j] = Parser!Upload!Body[pos + i + j]
    <3>1. i + j \in 1 .. Len(data) /\ pos + (i + j) = pos + i + j
      BY <1>1
    <3>2. data[i + j] = Parser!Upload!Body[pos + (i + j)]
      BY <3>1 DEF Reads
    <3> QED  BY <3>1, <3>2
  <2> QED  BY <2>1
<1>3. /\ data[i] = Parser!Upload!Body[pos + i]
      /\ data[i + 1] = Parser!Upload!Body[pos + i + 1]
      /\ data[i + 2] = Parser!Upload!Body[pos + i + 2]
      /\ data[i + 3] = Parser!Upload!Body[pos + i + 3]
      /\ data[i + 4] = Parser!Upload!Body[pos + i + 4]
      /\ data[i + 5] = Parser!Upload!Body[pos + i + 5]
      /\ data[i + 6] = Parser!Upload!Body[pos + i + 6]
  <2>1. i + 0 = i /\ pos + i + 0 = pos + i
    BY <1>1
  <2>2. data[i + 0] = Parser!Upload!Body[pos + i + 0]
    BY <1>2
  <2>3. data[i] = Parser!Upload!Body[pos + i]
    BY <2>1, <2>2
  <2> QED  BY <1>2, <2>3
<1> QED  BY <1>3 DEF Delimits

(* Looking for the boundary: nothing beyond the delimiter is of the part,   *)
(* what is held is no longer than a delimiter, and the delimiter that is    *)
(* found is the one of the part.                                            *)
LEMMA UntilBoundary ==
    ASSUME Parser!Upload!WellFormed(post), post.multipart,
           NEW data, NEW pos, Reads(data, pos, got),
           NEW k \in 0 .. Parts, k > 0 \/ post.lead # <<>>,
           Begins(post, k) <= pos, pos <= Ends(post, k),
           NEW kept \in 0 .. Len(data), NEW next, Parser!ReadUntilBoundary(data, kept, next),
           post' = post, got' = got
    PROVE  /\ held' \in Seq(Token) /\ rest' \in Seq(Token) /\ Reads(held \o rest, Pos, got)'
           /\ Len(held') + Len(rest') <= got' /\ pos + kept <= Ends(post, k)
           /\ \/ next = state /\ rest' = <<>> /\ Len(held') <= 6 /\ Pos' = pos + kept
              \/ /\ next = IF k < Parts THEN "headers" ELSE "finished"
                 /\ pos + kept = Ends(post, k)
                 /\ held' = <<>> /\ Len(held') = 0 /\ Pos' = Mark(post, k) + 2
<1> DEFINE B == Parser!Upload!Body
           e == Ends(post, k)
           F == e + 1 - pos
           L == Len(data)
<1>1. /\ data \in Seq(Token) /\ L \in Nat /\ pos \in Nat /\ kept \in Nat /\ kept <= L
      /\ \A j \in 1 .. L : data[j] = B[pos + j]
  BY DEF Reads
<1>2. Parser!Upload!Body = Parser!Upload!Text(post) /\ k \in 0 .. Len(post.parts)
  BY DEF Parser!Upload!Body, Parts
<1>3. /\ e \in Nat /\ Mark(post, k) = e + 5
      /\ B[e + 1] = "cr" /\ B[e + 2] = "lf"
      /\ B[e + 3] = "-" /\ B[e + 4] = "-" /\ B[e + 5] = "B"
      /\ k < Parts => B[e + 6] = "cr" /\ B[e + 7] = "lf"
      /\ k = Parts => B[e + 6] = "-" /\ B[e + 7] = "-"
  <2>1. e \in Int /\ Mark(post, k) = e + 5
    BY <1>2, DelimiterPlaces
  <2>2. e \in Nat /\ B[e + 1] = "cr" /\ B[e + 2] = "lf"
    BY <1>2, DelimiterPlaces
  <2>3. B[e + 3] = "-" /\ B[e + 4] = "-" /\ B[e + 5] = "B"
    BY <1>2, DelimiterPlaces
  <2>4. k < Parts => B[e + 6] = "cr" /\ B[e + 7] = "lf"
    BY <1>2, DelimiterPlaces DEF Parts
  <2>5. k = Parts => B[e + 6] = "-" /\ B[e + 7] = "-"
    BY <1>2, DelimiterPlaces DEF Parts
  <2> QED  BY <2>1, <2>2, <2>3, <2>4, <2>5
<1>4. F \in Nat /\ F >= 1 /\ pos + F = e + 1 /\ pos <= e
  <2>1. pos \in Nat /\ e \in Nat /\ pos <= e
    BY <1>1, <1>3
  <2> HIDE DEF e
  <2> QED  BY <2>1
<1> HIDE DEF e, B, L
<1>5. F <= L => F \in Parser!Stops(data)
  <2> SUFFICES ASSUME F <= L PROVE F \in Parser!Stops(data)
    OBVIOUS
  <2>1. F \in 1 .. L
    BY <1>1, <1>4
  <2>2. data[F] = "cr"
    <3>1. data[F] = B[pos + F]
      BY <1>1, <2>1
    <3> QED  BY <1>3, <1>4, <3>1
  <2>3. Parser!Undecided(data, F) \/ Parser!IsDelimiter(data, F)
    <3> SUFFICES ASSUME ~Parser!Undecided(data, F) PROVE Parser!IsDelimiter(data, F)
      OBVIOUS
    <3>1. F + 6 <= L
      BY <1>1, <1>4 DEF Parser!Undecided, Parser!BoundaryLength, L
    <3>2. F \in 1 .. Len(data) - 6
      BY <1>1, <2>1, <3>1 DEF L
    <3>3. Delimits(B, e + 1)
      <4>1. /\ e + 1 + 1 = e + 2 /\ e + 1 + 2 = e + 3 /\ e + 1 + 3 = e + 4 /\ e + 1 + 4 = e + 5
            /\ e + 1 + 5 = e + 6 /\ e + 1 + 6 = e + 7
        BY <1>3
      <4>2. (B[e + 6] = "cr" /\ B[e + 7] = "lf") \/ (B[e + 6] = "-" /\ B[e + 7] = "-")
        <5>1. Parts \in Nat
          BY UptoText DEF Parts
        <5> QED  BY <1>3, <5>1
      <4> QED  BY <1>3, <4>1, <4>2 DEF Delimits
    <3>4. Delimits(data, F)
      <4> HIDE DEF F
      <4>1. Delimits(data, F) <=> Delimits(B, pos + F)
        BY <3>2, DelimitsThere DEF B
      <4> QED  BY <1>4, <3>3, <4>1
    <3> HIDE DEF F
    <3> QED  BY <1>1, <3>2, <3>4, IsDelimiterIs
  <2> QED  BY <1>1, <2>1, <2>2, <2>3 DEF Parser!Stops, L
<1> HIDE DEF F
<1>6. CASE Parser!Stops(data) = {}
  <2>1. kept = L /\ next = state /\ Parser!Hold(data, L + 1)
    BY <1>6 DEF Parser!ReadUntilBoundary, L
  <2>2. L < F
    BY <1>1, <1>4, <1>5, <1>6
  <2>3. pos + kept <= e
    BY <1>1, <1>3, <1>4, <2>1, <2>2
  <2>4. /\ held' \in Seq(Token) /\ rest' \in Seq(Token) /\ Reads(held \o rest, Pos, got)'
        /\ Len(held') + Len(rest') <= got' /\ Pos' = pos + (L + 1) - 1
        /\ Len(held') = L - (L + 1) + 1 /\ rest' = <<>>
    <3>1. L + 1 \in 1 .. Len(data) + 1
      BY <1>1 DEF L
    <3> QED  BY <2>1, <3>1, Takes DEF L
  <2>5. Pos' = pos + kept /\ Len(held') <= 6
    BY <1>1, <2>1, <2>4
  <2> QED  BY <2>1, <2>3, <2>4, <2>5 DEF e
<1>7. CASE Parser!Stops(data) # {}
  <2> DEFINE i == Parser!Min(Parser!Stops(data))
  <2>1. /\ kept = i - 1
        /\ Parser!Undecided(data, i) => next = state /\ Parser!Hold(data, i)
        /\ ~Parser!Undecided(data, i) => next = Parser!Ending(data, i + 5)
             /\ Parser!Continue(data, i + 7)
    <3>1. i + 4 + Parser!BoundaryLength = i + 5 /\ i + 6 + Parser!BoundaryLength = i + 7 
      <4>1. Parser!Min(Parser!Stops(data)) \in Nat
        <5>1. Parser!Stops(data) \in SUBSET Nat
          BY <1>1 DEF Parser!Stops
        <5> QED  BY <1>7, <5>1, LeastIs
      <4> QED  BY <4>1 DEF Parser!BoundaryLength
    <3> QED  BY <1>7, <3>1 DEF Parser!ReadUntilBoundary
  <2>2. i \in Parser!Stops(data) /\ \A j \in Parser!Stops(data) : i <= j
    <3>1. Parser!Stops(data) \in SUBSET Nat
      BY <1>1 DEF Parser!Stops
    <3> QED  BY <1>7, <3>1, LeastIs
  <2> HIDE DEF i
  <2>3. i \in 1 .. L /\ (Parser!Undecided(data, i) \/ Parser!IsDelimiter(data, i))
    BY <1>1, <2>2 DEF Parser!Stops, L
  <2>4. i <= F
    BY <1>1, <1>4, <1>5, <2>2, <2>3
  <2>5. pos + kept <= e
    BY <1>1, <1>3, <1>4, <2>1, <2>3, <2>4
  <2>6. CASE Parser!Undecided(data, i)
    <3>1. L < i + 6
      BY <1>1, <2>3, <2>6 DEF Parser!Undecided, Parser!BoundaryLength, L
    <3>2. /\ held' \in Seq(Token) /\ rest' \in Seq(Token) /\ Reads(held \o rest, Pos, got)'
          /\ Len(held') + Len(rest') <= got' /\ Pos' = pos + i - 1
          /\ Len(held') = L - i + 1 /\ rest' = <<>>
      <4>1. i \in 1 .. Len(data) + 1 /\ Parser!Hold(data, i)
        BY <1>1, <2>1, <2>3, <2>6 DEF L
      <4> QED  BY <4>1, Takes DEF L
    <3>3. Pos' = pos + kept /\ Len(held') <= 6
      BY <1>1, <2>1, <2>3, <3>1, <3>2
    <3> QED  BY <2>1, <2>5, <2>6, <3>2, <3>3 DEF e
  <2>7. CASE ~Parser!Undecided(data, i)
    <3>1. i + 6 <= L /\ i \in 1 .. Len(data) - 6
      BY <1>1, <2>3, <2>7 DEF Parser!Undecided, Parser!BoundaryLength, L
    <3>2. Delimits(data, i)
      BY <1>1, <2>3, <2>7, <3>1, IsDelimiterIs
    <3>3. Delimits(B, pos + i)
      BY <3>1, <3>2, DelimitsThere DEF B
    <3>4. i = F
      <4> SUFFICES ASSUME i < F PROVE FALSE
        BY <1>4, <2>3, <2>4
      <4> DEFINE q == pos + i - 1
      <4>1. q \in Int /\ Begins(post, k) <= q /\ q < e /\ q + 1 = pos + i
        <5>1. Begins(post, k) \in Int
          <6>1. Mark(post, 0) \in Nat /\ \A n \in 0 .. Len(post.parts) : Mark(post, n) \in Nat
            BY <1>2, Lengths, UptoText
          <6>2. k # 0 => k - 1 \in 0 .. Len(post.parts) /\ LineCount(post, k) \in Nat
            BY <1>2, Lengths, UptoText
          <6> QED  BY <6>1, <6>2 DEF Begins
        <5> QED  BY <1>1, <1>3, <1>4, <2>3, <5>1
      <4> HIDE DEF q
      <4>2. ~Delimits(Parser!Upload!Text(post), q + 1)
        BY <1>2, <4>1, NoneEarlier DEF e
      <4> QED  BY <1>2, <3>3, <4>1, <4>2 DEF B
    <3>5. pos + kept = e
      BY <1>1, <1>3, <1>4, <2>1, <3>4
    <3>6. /\ held' \in Seq(Token) /\ rest' \in Seq(Token) /\ Reads(held \o rest, Pos, got)'
          /\ Len(held') + Len(rest') <= got' /\ Pos' = pos + (i + 7) - 1
          /\ held' = <<>> /\ Len(held') = 0
      <4>1. i + 7 \in 1 .. Len(data) + 1 /\ Parser!Continue(data, i + 7)
        BY <1>1, <2>1, <2>3, <2>7, <3>1 DEF L
      <4> DEFINE j == i + 7
      <4> HIDE DEF j
      <4>2. j \in 1 .. Len(data) + 1 /\ Parser!Continue(data, j)
        BY <4>1 DEF j
      <4>3. /\ held' \in Seq(Token) /\ rest' \in Seq(Token) /\ Reads(held \o rest, Pos, got)'
            /\ Len(held') + Len(rest') <= got' /\ Pos' = pos + j - 1
            /\ held' = <<>> /\ Len(held') = 0
        BY <4>2, Takes
      <4> QED  BY <4>3 DEF j
    <3>7. Pos' = Mark(post, k) + 2
      BY <1>1, <1>3, <1>4, <2>3, <3>4, <3>6
    <3>8. next = IF k < Parts THEN "headers" ELSE "finished"
      <4>1. data[i + 5] = B[e + 6] /\ data[i + 6] = B[e + 7]
        <5>1. /\ i + 5 \in 1 .. L /\ i + 6 \in 1 .. L
              /\ pos + (i + 5) = e + 6 /\ pos + (i + 6) = e + 7
          BY <1>1, <1>3, <1>4, <2>3, <3>1, <3>4
        <5>2. data[i + 5] = B[pos + (i + 5)] /\ data[i + 6] = B[pos + (i + 6)]
          BY <1>1, <5>1
        <5> QED  BY <5>1, <5>2
      <4>2. next = Parser!Ending(data, i + 5)
        BY <2>1, <2>7
      <4>3. /\ data[i + 5] = "cr" /\ data[i + 6] = "lf" => Parser!Ending(data, i + 5) = "headers"
            /\ data[i + 5] = "-" /\ data[i + 6] = "-" => Parser!Ending(data, i + 5) = "finished"
        BY <1>1, <3>1, IsDelimiterIs
      <4>4. Parts \in Nat /\ k \in Nat /\ k <= Parts
        BY <1>2, UptoText DEF Parts
      <4>5. CASE k < Parts
        BY <1>3, <4>1, <4>2, <4>3, <4>5
      <4>6. CASE k = Parts
        BY <1>3, <4>1, <4>2, <4>3, <4>4, <4>6
      <4> QED  BY <4>4, <4>5, <4>6
    <3> QED  BY <2>5, <3>5, <3>6, <3>7, <3>8 DEF e
  <2> QED  BY <2>6, <2>7
<1> QED  BY <1>6, <1>7

(* Without a file there is nothing to deliver.                              *)
LEMMA NothingWanted ==
    ASSUME Parser!Upload!WellFormed(post), post.multipart, NoFile(Parts)
    PROVE  Parser!Upload!Files = {} /\ Parser!Upload!Wanted = <<>>
<1>1. Parser!Upload!Files \subseteq 1 .. Parts
  <2>1. post.parts \in Seq(Part)
    BY DEF Parser!Upload!WellFormed, Part, Token
  <2> QED  BY <2>1 DEF Parser!Upload!Files, Parts
<1>2. Parser!Upload!Files = {}
  BY <1>1 DEF NoFile
<1> QED  BY <1>2 DEF Parser!Upload!Wanted

LEMMA IgnoreContentStep == ASSUME ParserIInv, Parser!IgnoreContent PROVE ParserIInv'
<1> DEFINE data == held \o rest
<1>1. Parser!Loop("ignore") /\ UNCHANGED <<post, got, out, ended_>>
  BY DEF Parser!IgnoreContent
<1>2. /\ Typed /\ ~ended_ /\ post.multipart /\ Parsing /\ state = "ignore"
      /\ Parser!Upload!WellFormed(post) /\ Reads(data, Pos, got) /\ Parts \in Nat
  BY <1>1, InLoop
<1>3. PICK kept \in 0 .. Len(data), next \in {"ignore", "headers", "finished"} :
          /\ Parser!ReadUntilBoundary(data, kept, next) /\ state' = next
          /\ headers' = IF next = "ignore" THEN headers ELSE {}
  BY DEF Parser!IgnoreContent
<1>4. out = <<>>
  BY <1>2 DEF Parsing, Ignoring
<1>5. PICK k \in 0 .. Parts : /\ k > 0 \/ post.lead # <<>>
                              /\ Begins(post, k) <= Pos /\ Pos <= Ends(post, k) /\ NoFile(k)
  BY <1>2 DEF Parsing, Ignoring
<1> HIDE DEF data
<1>6. /\ held' \in Seq(Token) /\ rest' \in Seq(Token) /\ Reads(held \o rest, Pos, got)'
      /\ Len(held') + Len(rest') <= got' /\ Pos + kept <= Ends(post, k)
      /\ \/ next = state /\ rest' = <<>> /\ Len(held') <= 6 /\ Pos' = Pos + kept
         \/ /\ next = IF k < Parts THEN "headers" ELSE "finished"
            /\ Pos + kept = Ends(post, k)
            /\ held' = <<>> /\ Len(held') = 0 /\ Pos' = Mark(post, k) + 2
  BY <1>1, <1>2, <1>3, <1>5, UntilBoundary
<1>7. /\ post' = post /\ out' = <<>> /\ Parts' = Parts
  BY <1>1, <1>4 DEF Parts
<1>8. \A j : NoFile(j)' <=> NoFile(j)
  BY <1>7 DEF NoFile, Parser!Upload!Files
<1>9. headers' \subseteq Parser!Upload!HeaderLines /\ out' \in Seq(Token)
  BY <1>1, <1>2, <1>3 DEF Typed
<1>10. CASE next = state /\ rest' = <<>> /\ Len(held') <= 6 /\ Pos' = Pos + kept
  <2>1. Begins(post, k) <= Pos' /\ Pos' <= Ends(post, k)
    <3>1. Pos \in Nat /\ kept \in Nat
      BY <1>2 DEF Reads
    <3>2. Begins(post, k) \in Int
      <4>1. \A n \in 0 .. Len(post.parts) : Mark(post, n) \in Nat
        BY <1>2, Lengths
      <4>2. Len(post.parts) \in Nat
        BY <1>2, UptoText
      <4>3. k # 0 => k - 1 \in 0 .. Len(post.parts) /\ LineCount(post, k) \in Nat
        BY <1>2, <4>2, Lengths DEF Parts
      <4> QED  BY <4>1, <4>3 DEF Begins
    <3> QED  BY <1>5, <1>6, <1>10, <3>1, <3>2
  <2>2. Ignoring'
    BY <1>5, <1>7, <1>8, <1>10, <2>1 DEF Ignoring
  <2>3. state' = "ignore"
    BY <1>2, <1>3, <1>10
  <2> QED  BY <1>1, <1>2, <1>6, <1>9, <2>2, <2>3, Closes
              DEF Parsing, AtStart, InHeaders, AtContent, Reading, Done
<1>11. CASE /\ next = "headers" /\ k < Parts
            /\ held' = <<>> /\ Len(held') = 0 /\ Pos' = Mark(post, k) + 2
  <2>1. k + 1 \in 1 .. Parts' /\ 0 \in 0 .. LineCount(post, k + 1)
    <3> DEFINE j == k + 1
    <3>1. j \in 1 .. Parts /\ j \in 1 .. Len(post.parts)
      BY <1>2, <1>11 DEF Parts
    <3> HIDE DEF j
    <3>2. LineCount(post, j) \in Nat
      BY <1>2, <3>1, Lengths
    <3>3. 0 \in 0 .. LineCount(post, j)
      BY <3>2
    <3> QED  BY <1>7, <3>1, <3>3 DEF j
  <2>2. Pos' = Mark(post, (k + 1) - 1) + 3 * 0 + 2
    <3>1. (k + 1) - 1 = k /\ Mark(post, k) \in Nat
      BY <1>2, Lengths DEF Parts
    <3> QED  BY <1>11, <3>1
  <2>3. headers' = HeadersOf(k + 1, 0)'
    <3>1. headers' = {}
      BY <1>3, <1>11
    <3> QED  BY <3>1 DEF HeadersOf
  <2>4. NoFile((k + 1) - 1)'
    <3>1. (k + 1) - 1 = k
      OBVIOUS
    <3> QED  BY <1>5, <1>8, <3>1
  <2>5. InHeaders'
    BY <1>7, <1>11, <2>1, <2>2, <2>3, <2>4 DEF InHeaders
  <2>6. state' = "headers"
    BY <1>3, <1>11
  <2> QED  BY <1>1, <1>2, <1>6, <1>9, <2>5, <2>6, Closes
              DEF Parsing, AtStart, Ignoring, AtContent, Reading, Done
<1>12. CASE next = "finished" /\ k = Parts /\ held' = <<>>
  <2>1. Parser!Upload!Wanted' = <<>>
    <3>1. Parser!Upload!Wanted = <<>>
      BY <1>2, <1>5, <1>12, NothingWanted
    <3> QED  BY <1>7, <3>1 DEF Parser!Upload!Wanted, Parser!Upload!Files
  <2>2. Done' /\ state' = "finished"
    BY <1>3, <1>7, <1>12, <2>1 DEF Done
  <2> QED  BY <1>1, <1>2, <1>6, <1>9, <2>2, Closes
              DEF Parsing, AtStart, Ignoring, AtContent, InHeaders, Reading
<1>13. k < Parts \/ k = Parts
  BY <1>2
<1> QED  BY <1>6, <1>10, <1>11, <1>12, <1>13

(* The content of a part, by its positions in the body.                     *)
LEMMA ContentPlaces ==
    ASSUME NEW p, Parser!Upload!WellFormed(p), p.multipart, NEW k \in 1 .. Len(p.parts),
           NEW i \in 1 .. Size(p, k)
    PROVE  Parser!Upload!Text(p)[Begins(p, k) + i] = p.parts[k].content[i]
<1>1. \A j \in 1 .. Size(p, k) : Parser!Upload!Text(p)[Begins(p, k) + j] = p.parts[k].content[j]
  BY PartPlaces
<1> QED  BY <1>1

(* The first part with a file is the one that is wanted.                    *)
LEMMA WantedPart ==
    ASSUME Typed, post.multipart, NEW k \in 1 .. Parts, k \in Parser!Upload!Files, NoFile(k - 1)
    PROVE  Parser!Upload!Wanted = post.parts[k].content
<1>1. Parser!Upload!Files # {} /\ Parser!Min(Parser!Upload!Files) = k
  BY FirstFile
<1>2. Parser!Upload!Min(Parser!Upload!Files) = Parser!Min(Parser!Upload!Files)
  BY Zenon DEF Parser!Upload!Min, Parser!Min
<1> QED  BY <1>1, <1>2, Zenon DEF Parser!Upload!Wanted

(* What a pass over the content of the file does.                           *)
ContentGoesOn(k, kept) ==
    /\ k \in Parser!Upload!Files /\ NoFile(k - 1)
    /\ Begins(post, k) \in Nat /\ Size(post, k) \in Nat
    /\ Ends(post, k) = Begins(post, k) + Size(post, k)
    /\ Pos \in Nat /\ Begins(post, k) <= Pos /\ Pos + kept <= Ends(post, k) /\ Pos + kept <= got
    /\ out \in Seq(Token) /\ Len(out) = Pos - Begins(post, k)
    /\ out' \in Seq(Token) /\ Len(out') = Pos + kept - Begins(post, k)
    /\ \A i \in 1 .. Len(out) : out[i] = post.parts[k].content[i]
    /\ \A i \in 1 .. Len(out') : out'[i] = post.parts[k].content[i]
    /\ held' \in Seq(Token) /\ rest' \in Seq(Token) /\ Reads(held \o rest, Pos, got)'
    /\ Len(held') + Len(rest') <= got'
    /\ \/ state' = "content" /\ Len(held') <= 6 /\ Pos' = Pos + kept
       \/ state' = "finished" /\ Pos + kept = Ends(post, k) /\ held' = <<>>

LEMMA ContentRead ==
    ASSUME ParserIInv, Parser!ReadContent
    PROVE  \E k \in 1 .. Parts, kept \in Nat : ContentGoesOn(k, kept)
<1> DEFINE data == held \o rest
<1>1. Parser!Loop("content") /\ UNCHANGED <<post, got, headers, ended_>>
  BY DEF Parser!ReadContent
<1>2. /\ Typed /\ ~ended_ /\ post.multipart /\ Parsing /\ state = "content"
      /\ Parser!Upload!WellFormed(post) /\ Reads(data, Pos, got) /\ Parts \in Nat
      /\ Parser!Upload!Body = Parser!Upload!Text(post)
  BY <1>1, InLoop
<1>3. PICK kept \in 0 .. Len(data), next \in {"content", "headers", "finished"} :
          /\ Parser!ReadUntilBoundary(data, kept, next) /\ out' = out \o SubSeq(data, 1, kept)
          /\ state' = IF next = "content" THEN "content" ELSE "finished"
  BY DEF Parser!ReadContent
<1>4. PICK k \in 1 .. Parts :
          /\ k \in Parser!Upload!Files /\ NoFile(k - 1)
          /\ Begins(post, k) <= Pos /\ Pos <= Ends(post, k)
          /\ Len(out) = Pos - Begins(post, k)
          /\ \A i \in 1 .. Len(out) : out[i] = post.parts[k].content[i]
  BY <1>2 DEF Parsing, Reading
<1> HIDE DEF data
<1>5. k \in 0 .. Parts /\ k > 0 /\ k \in 1 .. Len(post.parts)
  BY <1>2 DEF Parts
<1>6. /\ held' \in Seq(Token) /\ rest' \in Seq(Token) /\ Reads(held \o rest, Pos, got)'
      /\ Len(held') + Len(rest') <= got' /\ Pos + kept <= Ends(post, k)
      /\ \/ next = state /\ rest' = <<>> /\ Len(held') <= 6 /\ Pos' = Pos + kept
         \/ /\ next = IF k < Parts THEN "headers" ELSE "finished"
            /\ Pos + kept = Ends(post, k)
            /\ held' = <<>> /\ Len(held') = 0 /\ Pos' = Mark(post, k) + 2
  BY <1>1, <1>2, <1>3, <1>4, <1>5, UntilBoundary
<1>7. /\ post' = post /\ Parts' = Parts
  BY <1>1 DEF Parts
<1>8. \A j : NoFile(j)' <=> NoFile(j)
  BY <1>7 DEF NoFile, Parser!Upload!Files
<1>9. /\ Pos \in Nat /\ kept \in Nat /\ Begins(post, k) \in Nat /\ Size(post, k) \in Nat
      /\ Ends(post, k) = Begins(post, k) + Size(post, k)
      /\ \A i \in 1 .. Size(post, k) :
               Parser!Upload!Body[Begins(post, k) + i] = post.parts[k].content[i]
  <2>1. Pos \in Nat /\ kept \in Nat
    BY <1>2 DEF Reads
  <2>2. /\ Ends(post, k) = Begins(post, k) + Size(post, k)
        /\ \A i \in 1 .. Size(post, k) :
               Parser!Upload!Body[Begins(post, k) + i] = post.parts[k].content[i]
    <3>1. Parser!Upload!WellFormed(post) /\ post.multipart
               /\ Parser!Upload!Body = Parser!Upload!Text(post)
      BY <1>2
    <3>2. Ends(post, k) = Begins(post, k) + Size(post, k)
      BY <1>5, <3>1, PartSizes
    <3>3. \A i \in 1 .. Size(post, k) :
              Parser!Upload!Text(post)[Begins(post, k) + i] = post.parts[k].content[i]
      BY <1>5, <3>1, ContentPlaces
    <3> QED  BY <3>1, <3>2, <3>3
  <2>3. Begins(post, k) \in Nat /\ Size(post, k) \in Nat
    <3>1. /\ Mark(post, k - 1) \in Nat /\ LineCount(post, k) \in Nat /\ Size(post, k) \in Nat
          /\ Begins(post, k) = Mark(post, k - 1) + 3 * LineCount(post, k) + 4
      BY <1>2, <1>5, PartSizes
    <3> QED  BY <3>1
  <2> QED  BY <2>1, <2>2, <2>3
<1>10. /\ out' \in Seq(Token) /\ Len(out') = Pos + kept - Begins(post, k)
       /\ \A i \in 1 .. Len(out') : out'[i] = post.parts[k].content[i]
  <2> DEFINE s == SubSeq(data, 1, kept)
  <2>1. /\ data \in Seq(Token) /\ \A i \in 1 .. Len(data) : data[i] = Parser!Upload!Body[Pos + i]
        /\ Len(data) \in Nat /\ kept <= Len(data)
    BY <1>2 DEF Reads
  <2>2. s \in Seq(Token) /\ Len(s) = kept /\ \A i \in 1 .. kept : s[i] = data[i]
    BY <1>9, <2>1
  <2>3. out \in Seq(Token) /\ out' = out \o s
    BY <1>2, <1>3 DEF Typed
  <2> HIDE DEF s
  <2>4. Joins(out', out, s)
    BY <2>2, <2>3, Concat
  <2>5. /\ out' \in Seq(Token) /\ Len(out') = Len(out) + kept /\ Len(out) \in Nat
        /\ \A i \in 1 .. Len(out) : out'[i] = out[i]
        /\ \A i \in 1 .. kept : out'[Len(out) + i] = s[i]
    BY <2>2, <2>3, <2>4 DEF Joins
  <2>6. Len(out') = Pos + kept - Begins(post, k)
    BY <1>4, <1>9, <2>5
  <2>7. ASSUME NEW i \in 1 .. Len(out') PROVE out'[i] = post.parts[k].content[i]
    <3>1. CASE i <= Len(out)
      BY <1>4, <2>5, <2>7, <3>1
    <3>2. CASE i > Len(out)
      <4> DEFINE j == i - Len(out)
      <4>1. /\ j \in 1 .. kept /\ Len(out) + j = i /\ j \in 1 .. Len(data)
            /\ i \in 1 .. Size(post, k) /\ Pos + j = Begins(post, k) + i
        <5>1. i \in Nat /\ i <= Pos + kept - Begins(post, k)
          BY <2>5, <2>6, <2>7
        <5>2. Len(out) = Pos - Begins(post, k) /\ Len(out) \in Nat
          BY <1>4, <2>5
        <5>3. Pos + kept <= Begins(post, k) + Size(post, k)
          BY <1>6, <1>9
        <5>4. i >= 1
          BY <2>5, <2>7
        <5>5. i > Len(out) /\ kept <= Len(data) /\ Len(data) \in Nat
          BY <2>1, <3>2
        <5>9. j \in Nat /\ j >= 1 /\ j <= kept
          <6>1. Pos \in Nat /\ kept \in Nat /\ Begins(post, k) \in Nat
            BY <1>9
          <6> QED  BY <5>1, <5>2, <5>5, <6>1
        <5>6. j \in 1 .. kept /\ j \in 1 .. Len(data)
          <6>1. kept \in Nat
            BY <1>9
          <6> HIDE DEF j
          <6> QED  BY <5>5, <5>9, <6>1
        <5>7. Len(out) + j = i /\ Pos + j = Begins(post, k) + i
          BY <1>9, <5>1, <5>2
        <5>8. i \in 1 .. Size(post, k)
          BY <1>9, <5>1, <5>2, <5>3, <5>4
        <5> HIDE DEF j
        <5> QED  BY <5>6, <5>7, <5>8
      <4> HIDE DEF j
      <4>2. out'[i] = s[j] /\ s[j] = data[j] /\ data[j] = Parser!Upload!Body[Pos + j]
        BY <2>1, <2>2, <2>5, <4>1
      <4>3. Parser!Upload!Body[Begins(post, k) + i] = post.parts[k].content[i]
        BY <1>9, <4>1
      <4> QED  BY <4>1, <4>2, <4>3
    <3> QED  BY <2>5, <2>7, <3>1, <3>2
  <2> QED  BY <2>5, <2>6, <2>7
<1>11. Pos + kept <= got
  <2>1. Pos + Len(data) = got /\ kept <= Len(data) /\ Len(data) \in Nat
    BY <1>2 DEF Reads
  <2> QED  BY <1>9, <2>1
<1>12. \/ state' = "content" /\ Len(held') <= 6 /\ Pos' = Pos + kept
       \/ state' = "finished" /\ Pos + kept = Ends(post, k) /\ held' = <<>>
  <2>1. CASE next = state /\ Len(held') <= 6 /\ Pos' = Pos + kept
    BY <1>2, <1>3, <2>1
  <2>2. CASE /\ next = IF k < Parts THEN "headers" ELSE "finished"
             /\ Pos + kept = Ends(post, k) /\ held' = <<>>
    <3>1. next # "content"
      BY <2>2
    <3> QED  BY <1>3, <2>2, <3>1
  <2> QED  BY <1>6, <2>1, <2>2
<1>13. out \in Seq(Token)
  BY <1>2 DEF Typed
<1>14. ContentGoesOn(k, kept)
  BY <1>4, <1>6, <1>9, <1>10, <1>11, <1>12, <1>13 DEF ContentGoesOn
<1> QED  BY <1>9, <1>14

LEMMA ReadContentStep == ASSUME ParserIInv, Parser!ReadContent PROVE ParserIInv'
<1>1. Parser!Loop("content") /\ UNCHANGED <<post, got, headers, ended_>>
  BY DEF Parser!ReadContent
<1>2. /\ Typed /\ ~ended_ /\ post.multipart /\ Parsing /\ state = "content"
      /\ Parser!Upload!WellFormed(post)
  BY <1>1, InLoop
<1>3. PICK k \in 1 .. Parts, kept \in Nat : ContentGoesOn(k, kept)
  BY ContentRead
<1>4. /\ post' = post /\ Parts' = Parts
  BY <1>1 DEF Parts
<1>5. /\ held' \in Seq(Token) /\ rest' \in Seq(Token) /\ Reads(held \o rest, Pos, got)'
      /\ Len(held') + Len(rest') <= got' /\ out' \in Seq(Token)
  BY <1>3 DEF ContentGoesOn
<1>6. headers' \subseteq Parser!Upload!HeaderLines
  BY <1>1, <1>2 DEF Typed
<1>7. k \in Parser!Upload!Files' /\ NoFile(k - 1)'
  <2>1. Parser!Upload!Files' = Parser!Upload!Files
    BY <1>4 DEF Parser!Upload!Files
  <2>2. k \in Parser!Upload!Files /\ NoFile(k - 1)
    BY <1>3 DEF ContentGoesOn
  <2> QED  BY <2>1, <2>2 DEF NoFile
<1>8. CASE state' = "content" /\ Len(held') <= 6 /\ Pos' = Pos + kept
  <2>1. Begins(post, k) <= Pos' /\ Pos' <= Ends(post, k) /\ Len(out') = Pos' - Begins(post, k)
    <3>1. /\ Begins(post, k) \in Nat /\ Pos \in Nat /\ kept \in Nat /\ Begins(post, k) <= Pos
          /\ Pos + kept <= Ends(post, k) /\ Len(out') = Pos + kept - Begins(post, k)
      BY <1>3 DEF ContentGoesOn
    <3> QED  BY <1>8, <3>1
  <2>2. \A i \in 1 .. Len(out') : out'[i] = post.parts[k].content[i]
    BY <1>3 DEF ContentGoesOn
  <2>3. Reading'
    BY <1>4, <1>7, <1>8, <2>1, <2>2 DEF Reading
  <2> QED  BY <1>1, <1>2, <1>5, <1>6, <1>8, <2>3, Closes
              DEF Parsing, AtStart, InHeaders, AtContent, Ignoring, Done
<1>9. CASE state' = "finished" /\ Pos + kept = Ends(post, k) /\ held' = <<>>
  <2>1. out' = post.parts[k].content
    <3>1. Len(out') = Size(post, k)
      <4>1. /\ Begins(post, k) \in Nat /\ Size(post, k) \in Nat
            /\ Ends(post, k) = Begins(post, k) + Size(post, k) /\ Pos \in Nat /\ kept \in Nat
            /\ Len(out') = Pos + kept - Begins(post, k)
        BY <1>3 DEF ContentGoesOn
      <4> QED  BY <1>9, <4>1
    <3>2. post.parts[k].content \in Seq(Token)
      <4>1. post.parts[k] \in Part
        BY <1>2, UptoText DEF Parts
      <4> QED  BY <4>1 DEF Part
    <3>3. \A i \in 1 .. Len(out') : out'[i] = post.parts[k].content[i]
      BY <1>3 DEF ContentGoesOn
    <3> QED  BY <1>5, <3>1, <3>2, <3>3, SeqEqual DEF Size
  <2>2. Parser!Upload!Wanted = post.parts[k].content
    BY <1>2, <1>3, WantedPart DEF ContentGoesOn
  <2>3. Parser!Upload!Wanted' = Parser!Upload!Wanted
    BY <1>4 DEF Parser!Upload!Wanted, Parser!Upload!Files
  <2>4. Done'
    BY <1>9, <2>1, <2>2, <2>3 DEF Done
  <2> QED  BY <1>1, <1>2, <1>5, <1>6, <1>9, <2>4, Closes
              DEF Parsing, AtStart, InHeaders, AtContent, Ignoring, Reading
<1>10. \/ state' = "content" /\ Len(held') <= 6 /\ Pos' = Pos + kept
       \/ state' = "finished" /\ Pos + kept = Ends(post, k) /\ held' = <<>>
  BY <1>3 DEF ContentGoesOn
<1> QED  BY <1>8, <1>9, <1>10

(* The tokens of the header lines that are left, and of the blank line      *)
(* after them.                                                              *)
IsBlock(data, line, n) ==
    /\ data \in Seq(Token) /\ n \in Nat /\ line \in [1 .. n -> Parser!Upload!HeaderLines]
    /\ \A t \in 1 .. n :
          /\ 3 * t - 2 <= Len(data) => data[3 * t - 2] = line[t]
          /\ 3 * t - 1 <= Len(data) => data[3 * t - 1] = "cr"
          /\ 3 * t <= Len(data) => data[3 * t] = "lf"
    /\ 3 * n + 1 <= Len(data) => data[3 * n + 1] = "cr"
    /\ 3 * n + 2 <= Len(data) => data[3 * n + 2] = "lf"

LineEnds(data) == {i \in DOMAIN data : data[i] = "lf"}
Among(line, T) == {line[t] : t \in 1 .. T}

(* Every position of a block belongs to a line, by its rest.                *)
LEMMA Thirds == ASSUME NEW i \in Nat, i > 0
                PROVE  \E t \in Nat : t > 0 /\ (i = 3 * t - 2 \/ i = 3 * t - 1 \/ i = 3 * t)
<1> DEFINE t == (i + 2) \div 3
<1>1. t \in Nat /\ t > 0 /\ (i = 3 * t - 2 \/ i = 3 * t - 1 \/ i = 3 * t)
  OBVIOUS
<1> HIDE DEF t
<1> QED  BY <1>1

(* The positions of a block, in turn.                                       *)
LEMMA BlockPlaces ==
    ASSUME NEW data, NEW line, NEW n, IsBlock(data, line, n), NEW i \in 1 .. Len(data),
           i <= 3 * n + 2
    PROVE  \/ \E t \in 1 .. n : i = 3 * t - 2 /\ data[i] = line[t]
           \/ \E t \in 1 .. n : i = 3 * t - 1 /\ data[i] = "cr"
           \/ \E t \in 1 .. n : i = 3 * t /\ data[i] = "lf"
           \/ i = 3 * n + 1 /\ data[i] = "cr"
           \/ i = 3 * n + 2 /\ data[i] = "lf"
<1>1. data \in Seq(Token) /\ Len(data) \in Nat /\ n \in Nat /\ i \in Nat /\ i > 0
  BY DEF IsBlock
<1>2. PICK t \in Nat : t > 0 /\ (i = 3 * t - 2 \/ i = 3 * t - 1 \/ i = 3 * t)
  BY <1>1, Thirds
<1>3. CASE t <= n
  <2>1. t \in 1 .. n
    BY <1>1, <1>2, <1>3
  <2>2. CASE i = 3 * t - 2
    <3>1. data[3 * t - 2] = line[t]
      BY <2>1, <2>2 DEF IsBlock
    <3> QED  BY <2>1, <2>2, <3>1
  <2>3. CASE i = 3 * t - 1
    <3>0. 3 * t - 1 <= Len(data)
      BY <1>1, <2>3
    <3>1. data[3 * t - 1] = "cr"
      BY <2>1, <3>0 DEF IsBlock
    <3> QED  BY <2>1, <2>3, <3>1
  <2>4. CASE i = 3 * t
    <3>0. 3 * t <= Len(data)
      BY <1>1, <2>4
    <3>1. data[3 * t] = "lf"
      BY <2>1, <3>0 DEF IsBlock
    <3> QED  BY <2>1, <2>4, <3>1
  <2> QED  BY <1>2, <2>2, <2>3, <2>4
<1>4. CASE t > n
  <2>1. i = 3 * n + 1 \/ i = 3 * n + 2
    BY <1>1, <1>2, <1>4
  <2> QED  BY <2>1 DEF IsBlock
<1> QED  BY <1>1, <1>2, <1>3, <1>4

(* The lines among the first tokens of some data.                           *)
LEMMA LinesUpTo ==
    ASSUME NEW data \in Seq(Token), NEW i \in 0 .. Len(data)
    PROVE  Parser!Lines(data, i) = {data[j] : j \in 1 .. i} \intersect Parser!Upload!HeaderLines
<1> DEFINE s == SubSeq(data, 1, i)
<1>1. s \in Seq(Token) /\ Len(s) = i /\ \A j \in 1 .. i : s[j] = data[j]
  OBVIOUS
<1> HIDE DEF s
<1>2. DOMAIN s = 1 .. i
  BY <1>1
<1>3. Parser!Range(s) = {data[j] : j \in 1 .. i}
  BY <1>1, <1>2 DEF Parser!Range
<1> QED  BY <1>3 DEF Parser!Lines, s

LEMMA NotALine == "cr" \notin Parser!Upload!HeaderLines /\ "lf" \notin Parser!Upload!HeaderLines
  BY DEF Parser!Upload!HeaderLines

(* Among the first tokens of a block the lines are what is not a line       *)
(* break.                                                                   *)
LEMMA BlockLines ==
    ASSUME NEW data, NEW line, NEW n, IsBlock(data, line, n),
           NEW T \in 0 .. n, NEW i \in 0 .. Len(data), i = 3 * T \/ (T = n /\ i = 3 * n + 2)
    PROVE  Parser!Lines(data, i) = Among(line, T)
<1>1. /\ data \in Seq(Token) /\ Len(data) \in Nat /\ n \in Nat /\ i \in Nat /\ T \in Nat
      /\ line \in [1 .. n -> Parser!Upload!HeaderLines] /\ i <= 3 * n + 2 /\ T <= n
  BY DEF IsBlock
<1>2. Parser!Lines(data, i) = {data[j] : j \in 1 .. i} \intersect Parser!Upload!HeaderLines
  BY <1>1, LinesUpTo
<1>3. ASSUME NEW t \in 1 .. T
      PROVE  line[t] \in {data[j] : j \in 1 .. i} \intersect Parser!Upload!HeaderLines
  <2>1. t \in 1 .. n /\ 3 * t - 2 \in 1 .. i /\ 3 * t - 2 <= Len(data)
    BY <1>1
  <2>2. data[3 * t - 2] = line[t] /\ line[t] \in Parser!Upload!HeaderLines
    BY <1>1, <2>1 DEF IsBlock
  <2> QED  BY <2>1, <2>2
<1>4. ASSUME NEW j \in 1 .. i, data[j] \in Parser!Upload!HeaderLines
      PROVE  data[j] \in Among(line, T)
  <2>1. j \in 1 .. Len(data) /\ j <= 3 * n + 2
    BY <1>1
  <2>2. data[j] # "cr" /\ data[j] # "lf"
    BY <1>4, NotALine
  <2>3. PICK t \in 1 .. n : j = 3 * t - 2 /\ data[j] = line[t]
    BY <2>1, <2>2, BlockPlaces
  <2>4. t \in 1 .. T
    BY <1>1, <2>3
  <2> QED  BY <2>3, <2>4 DEF Among
<1> QED  BY <1>2, <1>3, <1>4 DEF Among

(* The blank line of a block ends it.                                       *)
LEMMA BlockEnds ==
    ASSUME NEW data, NEW line, NEW n, IsBlock(data, line, n), 3 * n + 2 <= Len(data)
    PROVE  /\ Parser!Blank(data) # {} /\ Parser!Min(Parser!Blank(data)) = 3 * n + 2
           /\ 3 * n + 2 \in 1 .. Len(data)
           /\ Parser!Lines(data, 3 * n + 2) = Among(line, n)
<1> DEFINE e == 3 * n + 2
<1>1. /\ data \in Seq(Token) /\ Len(data) \in Nat /\ n \in Nat /\ e \in 1 .. Len(data)
      /\ line \in [1 .. n -> Parser!Upload!HeaderLines]
  BY DEF IsBlock
<1>2. e \in Parser!Blank(data)
  <2>1. data[e] = "lf" /\ data[e - 1] = "cr" /\ e > 1
    <3>1. e - 1 = 3 * n + 1 /\ 3 * n + 1 <= Len(data)
      BY <1>1
    <3> QED  BY <1>1, <3>1 DEF IsBlock
  <2>2. e = 2 \/ data[e - 2] = "lf"
    <3> SUFFICES ASSUME n # 0 PROVE data[e - 2] = "lf"
      BY <1>1
    <3>1. n \in 1 .. n /\ e - 2 = 3 * n /\ 3 * n <= Len(data)
      BY <1>1
    <3>2. data[3 * n] = "lf"
      BY <3>1 DEF IsBlock
    <3> QED  BY <3>1, <3>2
  <2> QED  BY <1>1, <2>1, <2>2 DEF Parser!Blank
<1>3. ASSUME NEW i \in Parser!Blank(data) PROVE e <= i
  <2> SUFFICES ASSUME i < e PROVE FALSE
    BY <1>1 DEF Parser!Blank
  <2>1. i \in 1 .. Len(data) /\ i > 1 /\ data[i] = "lf" /\ i \in Nat
             /\ (i = 2 \/ data[i - 2] = "lf")
    BY <1>1 DEF Parser!Blank
  <2>2. PICK t \in 1 .. n : i = 3 * t /\ data[i] = "lf"
    <3>1. i <= 3 * n + 2
      BY <1>1, <2>1
    <3>2. \A t \in 1 .. n : line[t] # "lf"
      BY <1>1, NotALine
    <3>3. i # 3 * n + 2 /\ "cr" # "lf"
      BY <1>1
    <3>4. \/ \E t \in 1 .. n : i = 3 * t - 2 /\ data[i] = line[t]
          \/ \E t \in 1 .. n : i = 3 * t - 1 /\ data[i] = "cr"
          \/ \E t \in 1 .. n : i = 3 * t /\ data[i] = "lf"
          \/ i = 3 * n + 1 /\ data[i] = "cr"
          \/ i = 3 * n + 2 /\ data[i] = "lf"
      BY <2>1, <3>1, BlockPlaces
    <3> QED  BY <2>1, <3>2, <3>3, <3>4, Zenon
  <2>3. i - 2 = 3 * t - 2 /\ 3 * t - 2 <= Len(data) /\ i # 2
    BY <1>1, <2>1, <2>2
  <2>4. data[i - 2] = line[t]
    BY <2>2, <2>3 DEF IsBlock
  <2> QED  BY <1>1, <2>1, <2>2, <2>3, <2>4, NotALine
<1>4. Parser!Min(Parser!Blank(data)) = e
  <2>1. Parser!Blank(data) \in SUBSET Nat /\ Parser!Blank(data) # {}
    <3>1. Parser!Blank(data) \in SUBSET Nat
      BY <1>1 DEF Parser!Blank
    <3> QED  BY <1>2, <3>1
  <2>2. Parser!Min(Parser!Blank(data)) \in Parser!Blank(data)
             /\ \A i \in Parser!Blank(data) : Parser!Min(Parser!Blank(data)) <= i
    BY <2>1, LeastIs
  <2>3. Parser!Min(Parser!Blank(data)) <= e /\ e <= Parser!Min(Parser!Blank(data))
             /\ Parser!Min(Parser!Blank(data)) \in Nat
    BY <1>2, <1>3, <2>1, <2>2
  <2> QED  BY <1>1, <2>3
<1>5. Parser!Lines(data, e) = Among(line, n)
  <2> HIDE DEF e
  <2>1. e \in 0 .. Len(data) /\ n \in 0 .. n
    BY <1>1
  <2>2. e = 3 * n + 2
    BY DEF e
  <2> QED  BY <2>1, <2>2, BlockLines
<1> QED  BY <1>1, <1>2, <1>4, <1>5

(* A block that is cut short has no blank line, and its last line end is    *)
(* that of a line.                                                          *)
LEMMA BlockGoesOn ==
    ASSUME NEW data, NEW line, NEW n, IsBlock(data, line, n), Len(data) < 3 * n + 2
    PROVE  /\ Parser!Blank(data) = {}
           /\ \E T \in 0 .. n :
                 /\ 3 * T <= Len(data) /\ Len(data) - 3 * T <= 2
                 /\ Parser!Max({0} \union LineEnds(data)) = 3 * T
                 /\ Parser!Lines(data, 3 * T) = Among(line, T)
<1> DEFINE L == Len(data)
<1>1. /\ data \in Seq(Token) /\ L \in Nat /\ n \in Nat /\ DOMAIN data = 1 .. L
      /\ line \in [1 .. n -> Parser!Upload!HeaderLines] /\ L < 3 * n + 2
  BY DEF IsBlock
<1>2. \A i \in 1 .. L : data[i] = "lf" => \E t \in 1 .. n : i = 3 * t
  <2>1. ASSUME NEW i \in 1 .. L, data[i] = "lf" PROVE \E t \in 1 .. n : i = 3 * t
    <3>1. i <= 3 * n + 2 /\ i # 3 * n + 2 /\ i \in 1 .. Len(data)
      BY <1>1
    <3>2. \A t \in 1 .. n : line[t] # "lf"
      BY <1>1, NotALine
    <3> QED  BY <2>1, <3>1, <3>2, BlockPlaces
  <2> QED  BY <2>1
<1>3. ASSUME NEW i \in Parser!Blank(data) PROVE FALSE
  <2>1. i \in 1 .. L /\ i > 1 /\ data[i] = "lf" /\ i \in Nat /\ (i = 2 \/ data[i - 2] = "lf")
    BY <1>1 DEF Parser!Blank
  <2>2. PICK t \in 1 .. n : i = 3 * t
    BY <1>2, <2>1
  <2>3. i - 2 = 3 * t - 2 /\ 3 * t - 2 <= Len(data) /\ i # 2
    BY <1>1, <2>1, <2>2
  <2>4. data[i - 2] = line[t]
    BY <2>2, <2>3 DEF IsBlock
  <2> QED  BY <1>1, <2>1, <2>2, <2>3, <2>4, NotALine
<1>4. PICK T \in 0 .. n : 3 * T <= L /\ L - 3 * T <= 2
  <2> DEFINE t == L \div 3
  <2>1. t \in 0 .. n /\ 3 * t <= L /\ L - 3 * t <= 2
    BY <1>1
  <2> HIDE DEF t
  <2> QED  BY <2>1
<1> DEFINE S == {0} \union LineEnds(data)
<1>5. Parser!Max(S) = 3 * T
  <2> USE DEF LineEnds
  <2>1. 3 * T \in S
    <3>1. CASE T = 0
      BY <3>1
    <3>2. CASE T # 0
      <4>1. T \in 1 .. n /\ 3 * T \in 1 .. L
        BY <1>1, <1>4, <3>2
      <4>2. data[3 * T] = "lf"
        BY <1>4, <4>1 DEF IsBlock
      <4> QED  BY <1>1, <4>1, <4>2
    <3> QED  BY <3>1, <3>2
  <2>2. \A i \in S : i <= 3 * T
    <3>1. ASSUME NEW i \in 1 .. L, data[i] = "lf" PROVE i <= 3 * T
      <4>1. PICK t \in 1 .. n : i = 3 * t
        BY <1>2, <3>1
      <4> QED  BY <1>1, <1>4, <3>1, <4>1
    <3> QED  BY <1>1, <1>4, <3>1
  <2>3. S \in SUBSET (0 .. L) /\ S # {}
    BY <1>1
  <2> HIDE DEF S
  <2>4. Parser!Max(S) \in S /\ \A k \in S : k <= Parser!Max(S)
    BY <1>1, <2>3, GreatestIs
  <2>5. Parser!Max(S) <= 3 * T /\ 3 * T <= Parser!Max(S) /\ Parser!Max(S) \in Nat
    <3>1. Parser!Max(S) <= 3 * T
      BY <2>2, <2>4
    <3>2. 3 * T <= Parser!Max(S)
      BY <2>1, <2>4
    <3>3. Parser!Max(S) \in Nat
      <4>1. \A x \in S : x \in Nat
        <5>1. \A x \in 0 .. L : x \in Nat
          OBVIOUS
        <5> QED  BY <2>3, <5>1
      <4>2. Parser!Max(S) \in S
        BY <2>4
      <4> QED  BY <4>1, <4>2
    <3> QED  BY <3>1, <3>2, <3>3
  <2> QED  BY <1>1, <1>4, <2>5
<1>6. Parser!Lines(data, 3 * T) = Among(line, T)
  <2> DEFINE i == 3 * T
  <2>1. i \in 0 .. Len(data)
    BY <1>1, <1>4
  <2> HIDE DEF i
  <2>2. i = 3 * T
    BY DEF i
  <2>3. Parser!Lines(data, i) = Among(line, T)
    BY <2>1, <2>2, BlockLines
  <2> QED  BY <2>2, <2>3
<1> QED  BY <1>3, <1>4, <1>5, <1>6

(* The blank line of a part and its headers, by their positions in the      *)
(* body.                                                                    *)
LEMMA BlankPlaces ==
    ASSUME NEW p, Parser!Upload!WellFormed(p), p.multipart, NEW k \in 1 .. Len(p.parts)
    PROVE  /\ Parser!Upload!Text(p)[Begins(p, k) - 1] = "cr"
           /\ Parser!Upload!Text(p)[Begins(p, k)] = "lf"
  BY PartPlaces

LEMMA HeaderPlaces ==
    ASSUME NEW p, Parser!Upload!WellFormed(p), p.multipart, NEW k \in 1 .. Len(p.parts),
           NEW j \in 1 .. LineCount(p, k)
    PROVE  /\ Parser!Upload!Text(p)[Mark(p, k - 1) + 3 * j] = p.parts[k].headers[j]
           /\ Parser!Upload!Text(p)[Mark(p, k - 1) + 3 * j + 1] = "cr"
           /\ Parser!Upload!Text(p)[Mark(p, k - 1) + 3 * j + 2] = "lf"
<1>1. \A i \in 1 .. LineCount(p, k) :
         /\ Parser!Upload!Text(p)[Mark(p, k - 1) + 3 * i] = p.parts[k].headers[i]
         /\ Parser!Upload!Text(p)[Mark(p, k - 1) + 3 * i + 1] = "cr"
         /\ Parser!Upload!Text(p)[Mark(p, k - 1) + 3 * i + 2] = "lf"
  BY PartPlaces
<1> QED  BY <1>1

(* After the line break of its delimiter and m of its header lines, a part  *)
(* has a block.                                                             *)
LEMMA PartBlock ==
    ASSUME Parser!Upload!WellFormed(post), post.multipart, NEW k \in 1 .. Parts,
           NEW m \in 0 .. LineCount(post, k), NEW data, NEW pos, Reads(data, pos, got),
           pos = Mark(post, k - 1) + 3 * m + 2
    PROVE  LET n == LineCount(post, k) - m
           IN  IsBlock(data, [t \in 1 .. n |-> post.parts[k].headers[m + t]], n)
<1> DEFINE h == LineCount(post, k)
           n == h - m
           b == Mark(post, k - 1)
           B == Parser!Upload!Body
           head == post.parts[k].headers
           line == [t \in 1 .. n |-> head[m + t]]
<1>1. k \in 1 .. Len(post.parts) /\ Parser!Upload!Body = Parser!Upload!Text(post)
  BY DEF Parts, Parser!Upload!Body
<1>2. /\ \A j \in 1 .. h : B[b + 3 * j] = head[j]
      /\ \A j \in 1 .. h : B[b + 3 * j + 1] = "cr" /\ B[b + 3 * j + 2] = "lf"
      /\ B[Begins(post, k) - 1] = "cr" /\ B[Begins(post, k)] = "lf"
      /\ b \in Nat /\ h \in Nat /\ Begins(post, k) = b + 3 * h + 4
  <2>1. Parser!Upload!WellFormed(post) /\ post.multipart
    OBVIOUS
  <2>2. \A j \in 1 .. h : /\ Parser!Upload!Text(post)[b + 3 * j] = head[j]
                          /\ Parser!Upload!Text(post)[b + 3 * j + 1] = "cr"
                          /\ Parser!Upload!Text(post)[b + 3 * j + 2] = "lf"
    BY <1>1, <2>1, HeaderPlaces
  <2>3. /\ Parser!Upload!Text(post)[Begins(post, k) - 1] = "cr"
        /\ Parser!Upload!Text(post)[Begins(post, k)] = "lf"
        /\ b \in Nat /\ h \in Nat /\ Begins(post, k) = b + 3 * h + 4
    <3>1. /\ Parser!Upload!Text(post)[Begins(post, k) - 1] = "cr"
          /\ Parser!Upload!Text(post)[Begins(post, k)] = "lf"
      BY <1>1, <2>1, BlankPlaces
    <3>2. b \in Nat /\ h \in Nat /\ Begins(post, k) = b + 3 * h + 4
      BY <1>1, <2>1, PartSizes
    <3> QED  BY <3>1, <3>2
  <2> HIDE DEF b, h, head
  <2> QED  BY <1>1, <2>2, <2>3
<1>3. head \in Seq(Parser!Upload!HeaderLines) /\ Len(head) = h
  <2>1. post.parts[k] \in Part
    BY <1>1, UptoText
  <2> QED  BY <2>1 DEF Part, LineCount
<1>4. /\ data \in Seq(Token) /\ Len(data) \in Nat /\ pos \in Nat
      /\ \A i \in 1 .. Len(data) : data[i] = B[pos + i]
  BY DEF Reads
<1> HIDE DEF b, B, head, h
<1>5. m \in Nat /\ m <= h /\ n \in Nat /\ pos = b + 3 * m + 2
  BY <1>2 DEF b, h
<1>6. line \in [1 .. n -> Parser!Upload!HeaderLines]
  <2>1. \A t \in 1 .. n : m + t \in 1 .. Len(head)
    BY <1>2, <1>3, <1>5
  <2>2. \A i \in 1 .. Len(head) : head[i] \in Parser!Upload!HeaderLines
    BY <1>3
  <2>3. \A t \in 1 .. n : head[m + t] \in Parser!Upload!HeaderLines
    BY <2>1, <2>2
  <2> QED  BY <2>3
<1>7. ASSUME NEW t \in 1 .. n
      PROVE  /\ 3 * t - 2 <= Len(data) => data[3 * t - 2] = line[t]
             /\ 3 * t - 1 <= Len(data) => data[3 * t - 1] = "cr"
             /\ 3 * t <= Len(data) => data[3 * t] = "lf"
  <2> DEFINE j == m + t
             a == 3 * t - 2
             c == 3 * t - 1
             d == 3 * t
  <2>1. /\ j \in 1 .. h /\ a \in Nat /\ a >= 1 /\ c \in Nat /\ c >= 1 /\ d \in Nat /\ d >= 1
        /\ pos + a = b + 3 * j /\ pos + c = b + 3 * j + 1 /\ pos + d = b + 3 * j + 2
    BY <1>2, <1>5
  <2>2. line[t] = head[j]
    OBVIOUS
  <2> HIDE DEF line, j, a, c, d
  <2>3. a <= Len(data) => data[a] = line[t]
    <3>1. a <= Len(data) => a \in 1 .. Len(data)
      BY <1>4, <2>1
    <3>2. a <= Len(data) => data[a] = B[pos + a]
      BY <1>4, <3>1
    <3>3. B[pos + a] = head[j]
      BY <1>2, <2>1
    <3> QED  BY <2>2, <3>2, <3>3
  <2>4. c <= Len(data) => data[c] = "cr"
    <3>1. c <= Len(data) => c \in 1 .. Len(data)
      BY <1>4, <2>1
    <3>2. c <= Len(data) => data[c] = B[pos + c]
      BY <1>4, <3>1
    <3>3. B[b + 3 * j + 1] = "cr" /\ pos + c = b + 3 * j + 1
      BY <1>2, <2>1
    <3> QED  BY <3>2, <3>3
  <2>5. d <= Len(data) => data[d] = "lf"
    <3>1. d <= Len(data) => d \in 1 .. Len(data)
      BY <1>4, <2>1
    <3>2. d <= Len(data) => data[d] = B[pos + d]
      BY <1>4, <3>1
    <3>3. B[b + 3 * j + 2] = "lf" /\ pos + d = b + 3 * j + 2
      BY <1>2, <2>1
    <3> QED  BY <3>2, <3>3
  <2> QED  BY <2>3, <2>4, <2>5 DEF a, c, d
<1>8. /\ 3 * n + 1 <= Len(data) => data[3 * n + 1] = "cr"
      /\ 3 * n + 2 <= Len(data) => data[3 * n + 2] = "lf"
  <2> DEFINE a == 3 * n + 1
             c == 3 * n + 2
  <2>1. /\ a \in Nat /\ a >= 1 /\ c \in Nat /\ c >= 1
        /\ pos + a = Begins(post, k) - 1 /\ pos + c = Begins(post, k)
    BY <1>2, <1>5
  <2> HIDE DEF a, c
  <2>2. a <= Len(data) => data[a] = "cr"
    <3>1. a <= Len(data) => a \in 1 .. Len(data)
      BY <1>4, <2>1
    <3> QED  BY <1>2, <1>4, <2>1, <3>1
  <2>3. c <= Len(data) => data[c] = "lf"
    <3>1. c <= Len(data) => c \in 1 .. Len(data)
      BY <1>4, <2>1
    <3> QED  BY <1>2, <1>4, <2>1, <3>1
  <2> QED  BY <2>2, <2>3 DEF a, c
<1> HIDE DEF n
<1>9. IsBlock(data, line, n)
  <2> HIDE DEF line
  <2> QED  BY <1>4, <1>5, <1>6, <1>7, <1>8 DEF IsBlock
<1> QED  BY <1>9 DEF n, h, head

(* One line more.                                                           *)
LEMMA MoreHeaders ==
    ASSUME NEW k, NEW m \in Nat, NEW T \in Nat, NEW line,
           \A t \in 1 .. T : line[t] = post.parts[k].headers[m + t]
    PROVE  HeadersOf(k, m) \union Among(line, T) = HeadersOf(k, m + T)
<1> DEFINE head == post.parts[k].headers
<1>1. \A t \in 1 .. T : line[t] = head[m + t]
  OBVIOUS
<1> HIDE DEF head
<1>2. ASSUME NEW j \in 1 .. m + T
      PROVE  head[j] \in {head[i] : i \in 1 .. m} \union Among(line, T)
  <2>1. CASE j <= m
    BY <2>1
  <2>2. CASE j > m
    <3> DEFINE t == j - m
    <3>1. t \in 1 .. T /\ m + t = j
      BY <2>2
    <3> HIDE DEF t
    <3> QED  BY <1>1, <3>1 DEF Among
  <2> QED  BY <2>1, <2>2
<1>3. ASSUME NEW t \in 1 .. T PROVE line[t] \in {head[i] : i \in 1 .. m + T}
  <2>1. m + t \in 1 .. m + T
    OBVIOUS
  <2> QED  BY <1>1, <2>1
<1>4. \A i \in 1 .. m : i \in 1 .. m + T
  OBVIOUS
<1>5. {head[i] : i \in 1 .. m} \union Among(line, T) = {head[i] : i \in 1 .. m + T}
  BY <1>2, <1>3, <1>4 DEF Among
<1> QED  BY <1>5 DEF HeadersOf, head

LEMMA ReadHeadersStep == ASSUME ParserIInv, Parser!ReadHeaders PROVE ParserIInv'
<1> DEFINE data == held \o rest
<1>1. Parser!Loop("headers") /\ UNCHANGED <<post, got, out, ended_>>
  BY DEF Parser!ReadHeaders
<1>2. /\ Typed /\ ~ended_ /\ post.multipart /\ Parsing /\ state = "headers"
      /\ Parser!Upload!WellFormed(post) /\ Reads(data, Pos, got) /\ Parts \in Nat
  BY <1>1, InLoop
<1>3. \/ /\ Parser!Blank(data) # {}
         /\ headers' = headers \union Parser!Lines(data, Parser!Min(Parser!Blank(data)))
         /\ state' = "check"
         /\ Parser!Continue(data, Parser!Min(Parser!Blank(data)) + 1)
      \/ /\ Parser!Blank(data) = {}
         /\ LET last == Parser!Max({0} \union LineEnds(data))
            IN headers' = headers \union Parser!Lines(data, last) /\ Parser!Hold(data, last + 1)
         /\ state' = state
  BY Zenon DEF Parser!ReadHeaders, LineEnds
<1>4. PICK k \in 1 .. Parts : \E m \in 0 .. LineCount(post, k) :
              /\ Pos = Mark(post, k - 1) + 3 * m + 2
              /\ headers = HeadersOf(k, m) /\ NoFile(k - 1)
  BY <1>2 DEF Parsing, InHeaders
<1>5. PICK m \in 0 .. LineCount(post, k) : /\ Pos = Mark(post, k - 1) + 3 * m + 2
                                           /\ headers = HeadersOf(k, m) /\ NoFile(k - 1)
  BY <1>4
<1> HIDE DEF data
<1> DEFINE h == LineCount(post, k)
           n == h - m
           line == [t \in 1 .. n |-> post.parts[k].headers[m + t]]
           b == Mark(post, k - 1)
           L == Len(data)
<1>6. /\ b \in Nat /\ h \in Nat /\ Begins(post, k) = b + 3 * h + 4 /\ m \in Nat /\ n \in Nat
      /\ Pos = b + 3 * m + 2 /\ Pos \in Nat /\ L \in Nat /\ m + n = h
  <2>1. k \in 1 .. Len(post.parts)
    BY DEF Parts
  <2>2. b \in Nat /\ h \in Nat /\ Begins(post, k) = b + 3 * h + 4
    BY <1>2, <2>1, PartSizes
  <2>3. m \in Nat /\ n \in Nat /\ m + n = h
    BY <2>2
  <2> QED  BY <1>2, <1>5, <2>2, <2>3 DEF Reads
<1>7. IsBlock(data, line, n)
  BY <1>2, <1>5, PartBlock
<1>8. /\ post' = post /\ Parts' = Parts /\ out' = <<>> /\ out' \in Seq(Token)
      /\ headers \subseteq Parser!Upload!HeaderLines
  BY <1>1, <1>2 DEF Parts, Typed, Parsing, InHeaders
<1>9. \A j : NoFile(j)' <=> NoFile(j)
  BY <1>8 DEF NoFile, Parser!Upload!Files
<1>10. \A T \in 0 .. n : HeadersOf(k, m) \union Among(line, T) = HeadersOf(k, m + T)
  <2> HIDE DEF n
  <2>1. ASSUME NEW T \in 0 .. n
        PROVE  HeadersOf(k, m) \union Among(line, T) = HeadersOf(k, m + T)
    <3>1. T \in Nat /\ T <= n
      BY <1>6
    <3>2. \A t \in 1 .. T : line[t] = post.parts[k].headers[m + t]
      <4>1. \A t \in 1 .. T : t \in 1 .. n
        BY <1>6, <3>1
      <4> QED  BY <4>1
    <3> HIDE DEF line
    <3>3. m \in Nat /\ T \in Nat
      BY <1>6, <3>1
    <3> QED  BY <3>2, <3>3, MoreHeaders
  <2> QED  BY <2>1
<1>11. \A i : Parser!Lines(data, i) \subseteq Parser!Upload!HeaderLines
  BY DEF Parser!Lines
<1> HIDE DEF line, n, h, b
<1>12. CASE 3 * n + 2 <= L
  <2>1. /\ Parser!Blank(data) # {} /\ Parser!Min(Parser!Blank(data)) = 3 * n + 2
        /\ 3 * n + 2 \in 1 .. Len(data)
        /\ Parser!Lines(data, 3 * n + 2) = Among(line, n)
    BY <1>7, <1>12, BlockEnds
  <2> DEFINE i == 3 * n + 2 + 1
  <2>2. /\ headers' = headers \union Parser!Lines(data, 3 * n + 2) /\ state' = "check"
        /\ Parser!Continue(data, i)
    BY <1>3, <2>1
  <2>3. headers' = HeadersOf(k, h)
    <3>1. n \in 0 .. n
      BY <1>6
    <3>2. headers' = HeadersOf(k, m) \union Among(line, n)
      BY <1>5, <2>1, <2>2
    <3> QED  BY <1>6, <1>10, <3>1, <3>2
  <2>4. i \in 1 .. Len(data) + 1 /\ Pos + i - 1 = Begins(post, k)
    BY <1>6, <2>1
  <2> HIDE DEF i
  <2>5. /\ held' \in Seq(Token) /\ rest' \in Seq(Token) /\ Reads(held \o rest, Pos, got)'
        /\ Len(held') + Len(rest') <= got' /\ Pos' = Pos + i - 1 /\ held' = <<>>
    BY <1>1, <1>2, <2>2, <2>4, Takes
  <2>6. HeadersOf(k, LineCount(post, k))' = HeadersOf(k, h)
    BY <1>8 DEF HeadersOf, h, LineCount
  <2>7. AtContent'
    <3>1. Pos' = Begins(post, k)
      BY <2>4, <2>5
    <3>2. headers' = HeadersOf(k, LineCount(post, k))'
      BY <2>3, <2>6
    <3>3. NoFile(k - 1)'
      BY <1>5, <1>9
    <3> QED  BY <1>8, <2>5, <3>1, <3>2, <3>3 DEF AtContent
  <2>8. headers' \subseteq Parser!Upload!HeaderLines
    BY <1>8, <1>11, <2>2
  <2> QED  BY <1>1, <1>2, <1>8, <2>2, <2>5, <2>7, <2>8, Closes
              DEF Parsing, AtStart, InHeaders, Ignoring, Reading, Done
<1>13. CASE L < 3 * n + 2
  <2> DEFINE last == Parser!Max({0} \union LineEnds(data))
  <2>1. Parser!Blank(data) = {} /\ \E T \in 0 .. n : /\ 3 * T <= Len(data)
                                                     /\ Len(data) - 3 * T <= 2
                                                     /\ last = 3 * T
                                                     /\ Parser!Lines(data, 3 * T) = Among(line, T)
    <3>1. Len(data) < 3 * n + 2
      BY <1>13
    <3> HIDE DEF L
    <3> QED  BY <1>7, <3>1, BlockGoesOn
  <2>2. PICK T \in 0 .. n : /\ 3 * T <= Len(data) /\ Len(data) - 3 * T <= 2
                            /\ last = 3 * T
                            /\ Parser!Lines(data, 3 * T) = Among(line, T)
    BY <2>1
  <2>3. headers' = headers \union Parser!Lines(data, last) /\ Parser!Hold(data, last + 1)
             /\ state' = "headers"
    BY <1>2, <1>3, <2>1
  <2> HIDE DEF last
  <2> DEFINE i == last + 1
  <2>4. T \in Nat /\ i \in 1 .. Len(data) + 1 /\ Pos + i - 1 = b + 3 * (m + T) + 2
        /\ Len(data) - i + 1 <= 2 /\ m + T \in 0 .. h
    <3>1. T \in Nat /\ T <= n /\ 3 * T <= L /\ L - 3 * T <= 2 /\ i = 3 * T + 1
      BY <1>6, <2>2
    <3> HIDE DEF i, L
    <3>2. i \in 1 .. L + 1 /\ L - i + 1 <= 2
      BY <1>6, <3>1
    <3>3. Pos + i - 1 = b + 3 * (m + T) + 2 /\ m + T \in 0 .. h
      BY <1>6, <3>1
    <3> QED  BY <3>1, <3>2, <3>3 DEF L
  <2> HIDE DEF i
  <2>5. Parser!Hold(data, i)
    BY <2>3 DEF i
  <2>6. /\ held' \in Seq(Token) /\ rest' \in Seq(Token) /\ Reads(held \o rest, Pos, got)'
        /\ Len(held') + Len(rest') <= got' /\ Pos' = Pos + i - 1
        /\ Len(held') = Len(data) - i + 1
    BY <1>1, <1>2, <2>4, <2>5, Takes
  <2>7. headers' = HeadersOf(k, m + T)
    <3>1. headers' = HeadersOf(k, m) \union Among(line, T)
      BY <1>5, <2>2, <2>3
    <3> QED  BY <1>10, <3>1
  <2>8. HeadersOf(k, m + T)' = HeadersOf(k, m + T)
    BY <1>8 DEF HeadersOf
  <2>9. InHeaders'
    <3>1. Pos' = Mark(post, k - 1) + 3 * (m + T) + 2 /\ m + T \in 0 .. LineCount(post, k)
      BY <2>4, <2>6 DEF b, h
    <3>2. NoFile(k - 1)'
      BY <1>5, <1>9
    <3>3. Len(held') <= 2
      BY <2>4, <2>6
    <3> QED  BY <1>8, <2>7, <2>8, <3>1, <3>2, <3>3 DEF InHeaders
  <2>10. headers' \subseteq Parser!Upload!HeaderLines
    BY <1>8, <1>11, <2>3
  <2> QED  BY <1>1, <1>2, <1>8, <2>3, <2>6, <2>9, <2>10, Closes
              DEF Parsing, AtStart, AtContent, Ignoring, Reading, Done
<1> QED  BY <1>6, <1>12, <1>13

(* The part with a file is the one whose header lines say so.               *)
LEMMA FileHeaders ==
    ASSUME Parser!Upload!WellFormed(post), NEW k \in 1 .. Parts
    PROVE  k \in Parser!Upload!Files <=> "file" \in HeadersOf(k, LineCount(post, k))
<1> DEFINE head == post.parts[k].headers
<1>1. k \in DOMAIN post.parts /\ head \in Seq(Parser!Upload!HeaderLines)
  <2>1. k \in 1 .. Len(post.parts)
    BY DEF Parts
  <2>2. post.parts \in Seq(Part) /\ post.parts[k] \in Part
    <3>1. post.parts[k] \in Part
      BY <2>1, UptoText
    <3>2. post.parts \in Seq(Part)
      BY DEF Parser!Upload!WellFormed, Part, Token
    <3> QED  BY <3>1, <3>2
  <2> QED  BY <2>1, <2>2 DEF Part
<1>2. DOMAIN head = 1 .. Len(head)
  BY <1>1
<1>3. Parser!Upload!Range(head) = {head[x] : x \in DOMAIN head}
  BY Zenon DEF Parser!Upload!Range
<1>4. Parser!Upload!Range(head) = HeadersOf(k, LineCount(post, k))
  <2> HIDE DEF head
  <2>1. HeadersOf(k, LineCount(post, k)) = {head[x] : x \in 1 .. Len(head)}
    BY Zenon DEF HeadersOf, LineCount, head
  <2> QED  BY <1>2, <1>3, <2>1, Zenon
<1>5. k \in Parser!Upload!Files <=> "file" \in Parser!Upload!Range(head)
  BY <1>1 DEF Parser!Upload!Files
<1> QED  BY <1>4, <1>5

LEMMA CheckHeadersStep == ASSUME ParserIInv, Parser!CheckHeaders PROVE ParserIInv'
<1>1. Parser!Loop("check") /\ UNCHANGED <<post, got, rest, held, headers, out, ended_>>
  BY DEF Parser!CheckHeaders
<1>2. /\ Typed /\ ~ended_ /\ post.multipart /\ Parsing /\ state = "check"
      /\ Parser!Upload!WellFormed(post) /\ Parts \in Nat
  BY <1>1, InLoop
<1>3. state' = IF "file" \in headers THEN "content" ELSE "ignore"
  BY DEF Parser!CheckHeaders
<1>4. out = <<>> /\ held = <<>>
  BY <1>2 DEF Parsing, AtContent
<1>5. PICK k \in 1 .. Parts : /\ Pos = Begins(post, k)
                              /\ headers = HeadersOf(k, LineCount(post, k)) /\ NoFile(k - 1)
  BY <1>2 DEF Parsing, AtContent
<1>6. Parser!Upload!Body' = Parser!Upload!Body /\ Pos' = Pos /\ post' = post /\ Parts' = Parts
  BY <1>1 DEF Parser!Upload!Body, Pos, Parts
<1>7. Reads(held \o rest, Pos, got)'
  <2>1. Reads(held \o rest, Pos, got)
    BY <1>2 DEF Parsing
  <2> QED  BY <1>1, <1>6, <2>1 DEF Reads
<1>8. k \in Parser!Upload!Files <=> "file" \in headers
  BY <1>2, <1>5, FileHeaders
<1>9. /\ Begins(post, k) \in Nat /\ Begins(post, k) <= Ends(post, k)
  <2>1. k \in 1 .. Len(post.parts)
    BY DEF Parts
  <2>2. /\ Mark(post, k - 1) \in Nat /\ LineCount(post, k) \in Nat /\ Size(post, k) \in Nat
        /\ Begins(post, k) = Mark(post, k - 1) + 3 * LineCount(post, k) + 4
    BY <1>2, <2>1, PartSizes
  <2>3. Ends(post, k) = Begins(post, k) + Size(post, k)
    BY <1>2, <2>1, PartSizes
  <2> QED  BY <2>2, <2>3
<1>10. /\ held' \in Seq(Token) /\ rest' \in Seq(Token) /\ Len(held') + Len(rest') <= got'
       /\ headers' \subseteq Parser!Upload!HeaderLines /\ out' \in Seq(Token)
  BY <1>1, <1>2 DEF Typed
<1>11. /\ \A j : NoFile(j)' <=> NoFile(j)
       /\ Parser!Upload!Files' = Parser!Upload!Files
  BY <1>6 DEF NoFile, Parser!Upload!Files
<1>12. CASE "file" \in headers
  <2>1. state' = "content"
    BY <1>3, <1>12
  <2>2. Reading'
    <3>1. out' = <<>> /\ held' = <<>> /\ Len(out') = 0 /\ Len(held') = 0
      BY <1>1, <1>4
    <3>2. k \in Parser!Upload!Files' /\ NoFile(k - 1)'
      BY <1>5, <1>8, <1>11, <1>12
    <3>3. Begins(post, k) <= Pos' /\ Pos' <= Ends(post, k) /\ Len(out') = Pos' - Begins(post, k)
      BY <1>5, <1>6, <1>9, <3>1
    <3>4. \A i \in 1 .. Len(out') : out'[i] = post.parts[k].content[i]
      BY <3>1
    <3> QED  BY <1>6, <3>1, <3>2, <3>3, <3>4 DEF Reading
  <2> QED  BY <1>1, <1>2, <1>7, <1>10, <2>1, <2>2, Closes
              DEF Parsing, AtStart, InHeaders, AtContent, Ignoring, Done
<1>13. CASE "file" \notin headers
  <2>1. state' = "ignore"
    BY <1>3, <1>13
  <2>2. NoFile(k)
    <3>1. \A i \in 1 .. k : i = k \/ i \in 1 .. k - 1
      OBVIOUS
    <3> QED  BY <1>5, <1>8, <1>13, <3>1 DEF NoFile
  <2>3. Ignoring'
    <3>1. out' = <<>> /\ Len(held') <= 6
      BY <1>1, <1>4
    <3>2. k \in 0 .. Parts' /\ k > 0
      BY <1>2, <1>6
    <3>3. Begins(post, k) <= Pos' /\ Pos' <= Ends(post, k)
      BY <1>5, <1>6, <1>9
    <3>4. NoFile(k)'
      BY <1>11, <2>2
    <3> QED  BY <1>6, <3>1, <3>2, <3>3, <3>4 DEF Ignoring
  <2> QED  BY <1>1, <1>2, <1>7, <1>10, <2>1, <2>3, Closes
              DEF Parsing, AtStart, InHeaders, AtContent, Reading, Done
<1> QED  BY <1>12, <1>13

LEMMA LeaveRestStep == ASSUME ParserIInv, Parser!LeaveRest PROVE ParserIInv'
<1>1. Parser!Loop("finished") /\ UNCHANGED <<post, got, state, held, headers, out, ended_>>
           /\ rest' = <<>>
  BY DEF Parser!LeaveRest
<1>2. /\ Typed /\ ~ended_ /\ post.multipart /\ Parsing /\ state = "finished"
      /\ Reads(held \o rest, Pos, got)
  BY <1>1, InLoop
<1>3. out = Parser!Upload!Wanted /\ held = <<>>
  BY <1>2 DEF Parsing, Done
<1>4. /\ held' = <<>> /\ rest' = <<>> /\ got' = got /\ got \in Nat
      /\ got <= Len(Parser!Upload!Body)
  BY <1>1, <1>2, <1>3 DEF Typed
<1>5. Parser!Upload!Body' = Parser!Upload!Body
  BY <1>1 DEF Parser!Upload!Body
<1>6. Pos' = got' /\ held' \o rest' = <<>> /\ <<>> \in Seq(Token) /\ Len(<<>>) = 0
  BY <1>4, Empty DEF Pos
<1>7. Reads(held \o rest, Pos, got)'
  <2>1. Reads(<<>>, got, got)
    BY <1>4, <1>6 DEF Reads
  <2>2. Reads(<<>>, got, got)'
    BY <1>4, <1>5, <2>1 DEF Reads
  <2> QED  BY <1>4, <1>6, <2>2
<1>8. Done'
  <2>1. Parser!Upload!Wanted' = Parser!Upload!Wanted
    BY <1>1 DEF Parser!Upload!Wanted, Parser!Upload!Files
  <2> QED  BY <1>1, <1>3, <1>4, <2>1 DEF Done
<1>9. /\ Len(held') + Len(rest') <= got' /\ headers' \subseteq Parser!Upload!HeaderLines
      /\ out' \in Seq(Token) /\ held' \in Seq(Token) /\ rest' \in Seq(Token)
  BY <1>1, <1>2, <1>4, <1>6 DEF Typed
<1> QED  BY <1>1, <1>2, <1>7, <1>8, <1>9, Closes
            DEF Parsing, AtStart, InHeaders, AtContent, Ignoring, Reading

(* The body of a request, multipart or not.                                 *)
LEMMA BodyText == ASSUME Parser!Upload!WellFormed(post) PROVE Parser!Upload!Body \in Seq(Token)
<1>1. CASE post.multipart
  BY <1>1, TextPlaces DEF Parser!Upload!Body
<1>2. CASE ~post.multipart
  <2>1. 1 \in 1 .. Len(post.parts)
    BY UptoText
  <2>2. post.parts[1] \in Part
    BY <2>1, UptoText
  <2>3. Parser!Upload!Body = post.parts[1].content
    BY <1>2 DEF Parser!Upload!Body, Parser!Upload!Text
  <2> QED  BY <2>2, <2>3 DEF Part
<1> QED  BY <1>1, <1>2

(* The chunk is what comes next.                                            *)
LEMMA Chunk ==
    ASSUME Typed, NEW n \in 1 .. Len(Parser!Upload!Body), got + n <= Len(Parser!Upload!Body)
    PROVE  LET s == SubSeq(Parser!Upload!Body, got + 1, got + n)
           IN  /\ s \in Seq(Token) /\ Len(s) = n /\ n \in Nat /\ got \in Nat
               /\ \A i \in 1 .. n : s[i] = Parser!Upload!Body[got + i]
<1>1. Parser!Upload!WellFormed(post)
  BY PostsAssumption DEF Typed, Parser!ConstantsOK
<1> DEFINE B == Parser!Upload!Body
           s == SubSeq(B, got + 1, got + n)
<1>2. B \in Seq(Token) /\ Len(B) \in Nat
  <2>1. Parser!Upload!Body \in Seq(Token)
    BY <1>1, BodyText
  <2> QED  BY <2>1
<1>3. got \in Nat /\ n \in Nat /\ got + n <= Len(B) /\ n >= 1
  BY <1>2 DEF Typed
<1> HIDE DEF B
<1>4. s \in Seq(Token) /\ Len(s) = n /\ \A i \in 1 .. n : s[i] = B[got + i]
  <2> DEFINE a == got + 1
             z == got + n
  <2>1. a \in 1 .. Len(B) /\ z \in a .. Len(B) /\ z - a + 1 = n
    BY <1>2, <1>3
  <2>2. /\ SubSeq(B, a, z) \in Seq(Token) /\ Len(SubSeq(B, a, z)) = n
        /\ \A i \in 1 .. n : SubSeq(B, a, z)[i] = B[a + i - 1]
    <3> HIDE DEF a, z
    <3> QED  BY <1>2, <2>1
  <2>3. \A i \in 1 .. n : a + i - 1 = got + i
    BY <1>3
  <2> QED  BY <2>2, <2>3
<1> QED  BY <1>3, <1>4 DEF B

LEMMA GotChunkStep ==
    ASSUME ParserIInv, NEW n \in 1 .. Len(Parser!Upload!Body), Parser!GotChunk(n)
    PROVE  ParserIInv'
<1> DEFINE s == SubSeq(Parser!Upload!Body, got + 1, got + n)
<1>1. /\ ~ended_ /\ post.multipart /\ rest = <<>> /\ got + n <= Len(Parser!Upload!Body)
      /\ got' = got + n /\ rest' = s
      /\ UNCHANGED <<post, state, held, headers, out, ended_>>
  BY DEF Parser!GotChunk
<1>2. Typed /\ Parsing
  BY <1>1 DEF ParserIInv
<1>3. /\ s \in Seq(Token) /\ Len(s) = n /\ n \in Nat /\ got \in Nat
      /\ \A i \in 1 .. n : s[i] = Parser!Upload!Body[got + i]
  BY <1>1, <1>2, Chunk
<1> HIDE DEF s
<1>4. held \in Seq(Token) /\ Len(held) \in Nat /\ Len(rest) = 0
  BY <1>1, <1>2 DEF Typed
<1>5. Pos' = Pos /\ Pos = got - Len(held) /\ Parser!Upload!Body' = Parser!Upload!Body
  BY <1>1, <1>3, <1>4 DEF Pos, Parser!Upload!Body
<1>6. Reads(held, Pos, got)
  BY <1>1, <1>2, <1>4, Empty DEF Parsing
<1>7. Reads(held \o s, Pos, got + n)
  <2>1. Joins(held \o s, held, s)
    BY <1>3, <1>4, Concat
  <2> DEFINE d == held \o s
  <2> HIDE DEF d
  <2>2. /\ d \in Seq(Token) /\ Len(d) = Len(held) + n
        /\ \A i \in 1 .. Len(held) : d[i] = held[i]
        /\ \A i \in 1 .. n : d[Len(held) + i] = s[i]
    BY <1>3, <2>1 DEF Joins, d
  <2>3. Pos \in Nat /\ Pos + Len(d) = got + n
    BY <1>3, <1>4, <1>5, <1>6, <2>2 DEF Reads
  <2>4. ASSUME NEW i \in 1 .. Len(d) PROVE d[i] = Parser!Upload!Body[Pos + i]
    <3>1. CASE i <= Len(held)
      BY <1>4, <1>6, <2>2, <3>1 DEF Reads
    <3>2. CASE i > Len(held)
      <4> DEFINE j == i - Len(held)
      <4>1. j \in 1 .. n /\ Len(held) + j = i /\ got + j = Pos + i
        BY <1>3, <1>4, <1>5, <2>2, <3>2
      <4> HIDE DEF j
      <4>2. d[Len(held) + j] = s[j] /\ s[j] = Parser!Upload!Body[got + j]
        BY <1>3, <2>2, <4>1
      <4> QED  BY <4>1, <4>2
    <3> QED  BY <1>4, <2>2, <3>1, <3>2
  <2> QED  BY <1>1, <2>2, <2>3, <2>4 DEF Reads, d
<1>8. Reads(held \o rest, Pos, got)'
  <2>1. (held \o rest)' = held \o s
    BY <1>1
  <2> QED  BY <1>1, <1>5, <1>7, <2>1 DEF Reads
<1>9. \A i : Mark(post, i)' = Mark(post, i)
  BY <1>1 DEF Mark
<1>10. Parsing'
  <2>1. AtStart'
    BY <1>1, <1>2, <1>5 DEF Parsing, AtStart
  <2>2. InHeaders'
    BY <1>1, <1>2, <1>5 DEF Parsing, InHeaders, Parts, NoFile, Parser!Upload!Files, HeadersOf
  <2>3. AtContent'
    BY <1>1, <1>2, <1>5 DEF Parsing, AtContent, Parts, NoFile, Parser!Upload!Files, HeadersOf
  <2>4. Ignoring'
    BY <1>1, <1>2, <1>5 DEF Parsing, Ignoring, Parts, NoFile, Parser!Upload!Files
  <2>5. Reading'
    BY <1>1, <1>2, <1>5 DEF Parsing, Reading, Parts, NoFile, Parser!Upload!Files
  <2>6. Done'
    BY <1>1, <1>2 DEF Parsing, Done, Parser!Upload!Wanted, Parser!Upload!Files
  <2> QED  BY <1>8, <2>1, <2>2, <2>3, <2>4, <2>5, <2>6 DEF Parsing
<1>11. Typed'
  <2>1. got' \in 0 .. Len(Parser!Upload!Body')
    BY <1>1, <1>3, <1>5
  <2>2. Len(held') + Len(rest') <= got'
    <3>1. Len(held) <= got
      BY <1>2, <1>4 DEF Typed
    <3> QED  BY <1>1, <1>3, <1>4, <3>1
  <2> QED  BY <1>1, <1>2, <1>3, <2>1, <2>2 DEF Typed
<1>12. Passing'
  BY <1>1 DEF Passing
<1> QED  BY <1>10, <1>11, <1>12 DEF ParserIInv

LEMMA PassChunkStep ==
    ASSUME ParserIInv, NEW n \in 1 .. Len(Parser!Upload!Body), Parser!PassChunk(n)
    PROVE  ParserIInv'
<1> DEFINE s == SubSeq(Parser!Upload!Body, got + 1, got + n)
<1>1. /\ ~ended_ /\ ~post.multipart /\ got + n <= Len(Parser!Upload!Body)
      /\ got' = got + n /\ out' = out \o s
      /\ UNCHANGED <<post, state, rest, held, headers, ended_>>
  BY DEF Parser!PassChunk
<1>2. Typed /\ Passing
  BY <1>1 DEF ParserIInv
<1>3. /\ s \in Seq(Token) /\ Len(s) = n /\ n \in Nat /\ got \in Nat
      /\ \A i \in 1 .. n : s[i] = Parser!Upload!Body[got + i]
  BY <1>1, <1>2, Chunk
<1> HIDE DEF s
<1>4. /\ out \in Seq(Token) /\ Len(out) = got
      /\ \A i \in 1 .. got : out[i] = Parser!Upload!Body[i]
      /\ state = "initial" /\ rest = <<>> /\ held = <<>>
  BY <1>1, <1>2 DEF Passing, Typed
<1>5. Parser!Upload!Body' = Parser!Upload!Body
  BY <1>1 DEF Parser!Upload!Body
<1>6. /\ out' \in Seq(Token) /\ Len(out') = got + n
      /\ \A i \in 1 .. got : out'[i] = out[i]
      /\ \A i \in 1 .. n : out'[got + i] = s[i]
  <2>1. Joins(out \o s, out, s)
    BY <1>3, <1>4, Concat
  <2> QED  BY <1>1, <1>3, <1>4, <2>1 DEF Joins
<1>7. ASSUME NEW i \in 1 .. got + n PROVE out'[i] = Parser!Upload!Body[i]
  <2>1. CASE i <= got
    BY <1>3, <1>4, <1>6, <2>1
  <2>2. CASE i > got
    <3> DEFINE j == i - got
    <3>1. j \in 1 .. n /\ got + j = i
      BY <1>3, <2>2
    <3> HIDE DEF j
    <3>2. out'[got + j] = s[j] /\ s[j] = Parser!Upload!Body[got + j]
      BY <1>3, <1>6, <3>1
    <3> QED  BY <3>1, <3>2
  <2> QED  BY <1>3, <2>1, <2>2
<1>8. Passing'
  BY <1>1, <1>4, <1>5, <1>6, <1>7 DEF Passing
<1>9. Typed'
  <2>1. got' \in 0 .. Len(Parser!Upload!Body')
    BY <1>1, <1>3, <1>5
  <2>2. Len(held') + Len(rest') <= got'
    BY <1>1, <1>3, <1>4
  <2> QED  BY <1>1, <1>2, <1>6, <2>1, <2>2 DEF Typed
<1> QED  BY <1>1, <1>8, <1>9 DEF ParserIInv

LEMMA ParserFinishedStep == ASSUME ParserIInv, Parser!Finished PROVE ParserIInv'
<1>1. /\ rest = <<>> /\ ended_' = TRUE /\ held' = <<>>
      /\ UNCHANGED <<post, got, state, rest, headers, out>>
  BY DEF Parser!Finished
<1>2. Typed
  BY DEF ParserIInv
<1>3. Parser!Upload!Body' = Parser!Upload!Body
  BY <1>1 DEF Parser!Upload!Body
<1>4. Typed'
  BY <1>1, <1>2, <1>3 DEF Typed
<1> QED  BY <1>1, <1>4 DEF ParserIInv

LEMMA ParserBegins == ASSUME Parser!Init PROVE ParserIInv
<1>1. /\ post \in Posts /\ got = 0 /\ state = "initial" /\ rest = <<>> /\ held = <<>>
      /\ headers = {} /\ out = <<>> /\ ended_ = FALSE
  BY DEF Parser!Init
<1>2. Parser!Upload!WellFormed(post)
  BY <1>1, PostsAssumption DEF Parser!ConstantsOK
<1>3. Parser!Upload!Body \in Seq(Token) /\ Len(Parser!Upload!Body) \in Nat
  <2>1. Parser!Upload!Body \in Seq(Token)
    BY <1>2, BodyText
  <2> QED  BY <2>1
<1>0. <<>> \in Seq(Token) /\ Len(<<>>) = 0
  BY EmptySeq
<1>4. Typed
  <2>1. rest \in Seq(Token) /\ held \in Seq(Token) /\ out \in Seq(Token)
    BY <1>0, <1>1
  <2>2. Len(held) + Len(rest) <= got /\ got \in 0 .. Len(Parser!Upload!Body)
    <3>1. Len(held) = 0 /\ Len(rest) = 0
      BY <1>0, <1>1
    <3> QED  BY <1>1, <1>3, <3>1
  <2>3. ended_ \in BOOLEAN
    BY <1>1
  <2> QED  BY <1>1, <2>1, <2>2, <2>3 DEF Typed
<1>5. Pos = 0 /\ held \o rest = <<>> /\ <<>> \in Seq(Token) /\ Len(<<>>) = 0
  <2>1. Len(held) = 0 /\ Len(rest) = 0 /\ got = 0
    BY <1>0, <1>1
  <2>2. Pos = 0
    BY <2>1 DEF Pos
  <2>3. held \o rest = <<>>
    <3>1. <<>> \o <<>> = <<>>
      BY <1>0, Empty
    <3> QED  BY <1>1, <3>1, Zenon
  <2> QED  BY <1>0, <2>2, <2>3
<1>6. Reads(held \o rest, Pos, got)
  BY <1>1, <1>3, <1>5 DEF Reads
<1>7. Passing
  BY <1>1, <1>5 DEF Passing
<1>8. Parsing
  BY <1>1, <1>5, <1>6 DEF Parsing, AtStart, InHeaders, AtContent, Ignoring, Reading, Done
<1> QED  BY <1>4, <1>7, <1>8 DEF ParserIInv

(* One step of the parser.                                                  *)
LEMMA ParserStep == ASSUME ParserIInv, Parser!Next PROVE ParserIInv'
<1>1. ASSUME NEW n \in 1 .. Len(Parser!Upload!Body), Parser!GotChunk(n) \/ Parser!PassChunk(n)
      PROVE ParserIInv'
  BY <1>1, GotChunkStep, PassChunkStep
<1>2. CASE Parser!Finished
  BY <1>2, ParserFinishedStep
<1>3. CASE Parser!CheckPreamble
  BY <1>3, CheckPreambleStep
<1>4. CASE Parser!SkipPreamble
  BY <1>4, SkipPreambleStep
<1>5. CASE Parser!ReadHeaders
  BY <1>5, ReadHeadersStep
<1>6. CASE Parser!CheckHeaders
  BY <1>6, CheckHeadersStep
<1>7. CASE Parser!IgnoreContent
  BY <1>7, IgnoreContentStep
<1>8. CASE Parser!ReadContent
  BY <1>8, ReadContentStep
<1>9. CASE Parser!LeaveRest
  BY <1>9, LeaveRestStep
<1> QED  BY <1>1, <1>2, <1>3, <1>4, <1>5, <1>6, <1>7, <1>8, <1>9 DEF Parser!Next

LEMMA ParserStutter == ASSUME ParserIInv, UNCHANGED Parser!vars PROVE ParserIInv'
<1>1. UNCHANGED <<post, got, state, rest, held, headers, out, ended_>>
  BY DEF Parser!vars
<1>2. Typed'
  BY <1>1 DEF ParserIInv, Typed, Parser!Upload!Body
<1>3. ASSUME ~ended_' PROVE Passing' /\ (post'.multipart => Parsing')
  <2>1. ~ended_
    BY <1>1, <1>3
  <2>2. Passing'
    BY <1>1, <2>1 DEF ParserIInv, Passing, Parser!Upload!Body
  <2>3. ASSUME post'.multipart PROVE Parsing'
    <3>1. Parsing
      BY <1>1, <2>1, <2>3 DEF ParserIInv
    <3>2. Pos' = Pos /\ Parser!Upload!Body' = Parser!Upload!Body
      BY <1>1 DEF Pos, Parser!Upload!Body
    <3>3. Reads(held \o rest, Pos, got)'
      BY <1>1, <3>1, <3>2 DEF Parsing, Reads
    <3>4. AtStart'
      BY <1>1, <3>1, <3>2 DEF Parsing, AtStart
    <3>5. InHeaders'
      BY <1>1, <3>1, <3>2 DEF Parsing, InHeaders, Parts, NoFile, Parser!Upload!Files, HeadersOf
    <3>6. AtContent'
      BY <1>1, <3>1, <3>2 DEF Parsing, AtContent, Parts, NoFile, Parser!Upload!Files, HeadersOf
    <3>7. Ignoring'
      BY <1>1, <3>1, <3>2 DEF Parsing, Ignoring, Parts, NoFile, Parser!Upload!Files
    <3>8. Reading'
      BY <1>1, <3>1, <3>2 DEF Parsing, Reading, Parts, NoFile, Parser!Upload!Files
    <3>9. Done'
      BY <1>1, <3>1 DEF Parsing, Done, Parser!Upload!Wanted, Parser!Upload!Files
    <3> QED  BY <3>3, <3>4, <3>5, <3>6, <3>7, <3>8, <3>9 DEF Parsing
  <2> QED  BY <2>2, <2>3
<1> QED  BY <1>2, <1>3 DEF ParserIInv

(* However the chunks cut a request, the parser knows where in the body it  *)
(* is: its state, what it holds and what it delivered fit one position of   *)
(* the body, a boundary is never passed, and one is never found in a part.  *)
THEOREM ParserInvariant == Parser!Spec => []ParserIInv
<1>1. Parser!Init => ParserIInv
  BY ParserBegins
<1>2. ParserIInv /\ [Parser!Next]_(Parser!vars) => ParserIInv'
  BY ParserStep, ParserStutter
<1> QED  BY <1>1, <1>2, PTL DEF Parser!Spec

(* The types follow.                                                        *)
LEMMA ParserTypes == ParserIInv => Parser!TypeOK
<1> SUFFICES ASSUME ParserIInv PROVE Parser!TypeOK
  OBVIOUS
<1>1. Typed
  BY DEF ParserIInv
<1>2. Len(rest) <= got + Len(held) /\ Len(held) <= got
  <2>1. /\ Len(rest) \in Nat /\ Len(held) \in Nat /\ Len(held) + Len(rest) <= got
    BY <1>1 DEF Typed
  <2>2. got \in Int
    BY <1>1 DEF Typed
  <2> QED  BY <2>1, <2>2
<1> QED  BY <1>1, <1>2 DEF Typed, Parser!TypeOK

-----------------------------------------------------------------------------
(* The greater of two numbers.                                              *)
LEMMA LargerIs ==
    ASSUME NEW i \in Int, NEW j \in Int
    PROVE  Parser!Upload!Max({i, j}) = IF i >= j THEN i ELSE j
<1> DEFINE S == {i, j}
           m == IF i >= j THEN i ELSE j
<1>1. m \in S /\ \A k \in S : m >= k
  OBVIOUS
<1>2. \A x \in S : (\A k \in S : x >= k) => x = m
  OBVIOUS
<1>3. Parser!Upload!Max(S) = CHOOSE x \in S : \A k \in S : x >= k
  BY Zenon DEF Parser!Upload!Max
<1> HIDE DEF S, m
<1>4. \E x \in S : \A k \in S : x >= k
  BY <1>1
<1>5. Parser!Upload!Max(S) \in S /\ \A k \in S : Parser!Upload!Max(S) >= k
  BY <1>3, <1>4
<1>6. Parser!Upload!Max(S) = m
  BY <1>2, <1>5
<1> QED  BY <1>6 DEF S, m

(* The tokens of the content that have arrived.                             *)
LEMMA ArrivedIs ==
    ASSUME NEW w, Parser!Upload!WantedEnd = w, w \in Nat, got \in Nat,
           Len(Parser!Upload!Wanted) \in Nat
    PROVE  /\ Parser!Upload!Arrived \in Nat /\ Parser!Upload!Arrived <= Len(Parser!Upload!Wanted)
           /\ got >= w => Parser!Upload!Arrived = Len(Parser!Upload!Wanted)
           /\ got < w => Parser!Upload!Arrived = IF Len(Parser!Upload!Wanted) - w + got >= 0
                                          THEN Len(Parser!Upload!Wanted) - w + got ELSE 0
<1> DEFINE l == Len(Parser!Upload!Wanted)
           missing == Parser!Upload!Max({0, w - got})
           a == Parser!Upload!Max({0, l - missing})
<1>1. Parser!Upload!Arrived = a
  BY DEF Parser!Upload!Arrived
<1>2. missing = IF 0 >= w - got THEN 0 ELSE w - got
  BY LargerIs
<1> HIDE DEF missing, l
<1>3. missing \in Nat /\ l \in Nat
  BY <1>2 DEF l
<1>4. a = IF 0 >= l - missing THEN 0 ELSE l - missing
  BY <1>3, LargerIs
<1> HIDE DEF a
<1>5. a \in Nat /\ a <= l
  BY <1>3, <1>4
<1>6. got >= w => a = l
  BY <1>2, <1>3, <1>4
<1>7. got < w => a = IF l - w + got >= 0 THEN l - w + got ELSE 0
  BY <1>2, <1>3, <1>4
<1> QED  BY <1>1, <1>5, <1>6, <1>7 DEF l

(* The part with the file: what is delivered of it, and where it ends.      *)
LEMMA FilePart ==
    ASSUME Typed, post.multipart, Parser!Upload!Files # {}
    PROVE  \E k \in 1 .. Parts :
              /\ k \in Parser!Upload!Files /\ NoFile(k - 1)
              /\ Parser!Upload!Wanted = post.parts[k].content
              /\ Len(Parser!Upload!Wanted) = Size(post, k)
              /\ Begins(post, k) \in Nat /\ Size(post, k) \in Nat /\ Mark(post, k - 1) \in Nat
              /\ Ends(post, k) = Begins(post, k) + Size(post, k)
              /\ Mark(post, k - 1) + 4 <= Begins(post, k)
              /\ Parser!Upload!WantedEnd = Ends(post, k)
              /\ Parser!Upload!Closed = Ends(post, k) + 7
<1>1. Parser!Upload!WellFormed(post)
  BY PostsAssumption DEF Typed, Parser!ConstantsOK
<1>2. Parser!Upload!Files \subseteq 1 .. Parts /\ Parts \in Nat
  <2>1. post.parts \in Seq(Part)
    BY <1>1 DEF Parser!Upload!WellFormed, Part, Token
  <2> QED  BY <2>1 DEF Parser!Upload!Files, Parts
<1> DEFINE k == Parser!Min(Parser!Upload!Files)
<1>3. k \in Parser!Upload!Files /\ \A i \in Parser!Upload!Files : k <= i
  BY <1>2, LeastIs
<1>4. Parser!Upload!Min(Parser!Upload!Files) = k
  BY Zenon DEF Parser!Upload!Min, Parser!Min
<1> HIDE DEF k
<1>5. k \in 1 .. Parts /\ k \in 1 .. Len(post.parts)
  BY <1>2, <1>3 DEF Parts
<1>6. NoFile(k - 1)
  <2>1. \A i \in 1 .. k - 1 : i < k
    BY <1>2, <1>5
  <2>2. \A i \in 1 .. k - 1 : ~(k <= i)
    BY <1>2, <1>5, <2>1
  <2> QED  BY <1>3, <2>2 DEF NoFile
<1>7. Parser!Upload!Wanted = post.parts[k].content
  BY <1>3, <1>5, <1>6, WantedPart
<1>8. Len(Parser!Upload!Wanted) = Size(post, k)
  BY <1>7 DEF Size
<1>9. /\ Mark(post, k - 1) \in Nat /\ LineCount(post, k) \in Nat /\ Size(post, k) \in Nat
      /\ Begins(post, k) = Mark(post, k - 1) + 3 * LineCount(post, k) + 4
  BY <1>1, <1>5, PartSizes
<1>10. Ends(post, k) = Begins(post, k) + Size(post, k)
  BY <1>1, <1>5, PartSizes
<1>11. Begins(post, k) \in Nat /\ Mark(post, k - 1) + 4 <= Begins(post, k)
  BY <1>9
<1>12. Len(Parser!Upload!Delimiter) = 5
  BY Marks
<1>13. Parser!Upload!WantedEnd = Ends(post, k)
  <2>1. Parser!Upload!WantedEnd = Len(Parser!Upload!Upto(post)[k]) - Len(Parser!Upload!Delimiter)
    BY <1>4, Zenon DEF Parser!Upload!WantedEnd
  <2> QED  BY <1>12, <2>1 DEF Ends, Mark
<1>14. Parser!Upload!Closed = Ends(post, k) + 7
  <2>1. Parser!Upload!Closed = Ends(post, k) + 5 + 2
    BY <1>12, <1>13, Zenon DEF Parser!Upload!Closed
  <2>2. Ends(post, k) \in Nat
    BY <1>9, <1>10, <1>11
  <2> QED  BY <2>1, <2>2
<1> QED  BY <1>3, <1>5, <1>6, <1>7, <1>8, <1>9, <1>10, <1>11, <1>13, <1>14

(* A part that comes later begins after the one before it ends.             *)
LEMMA LaterPart ==
    ASSUME Parser!Upload!WellFormed(post), post.multipart,
           NEW k \in 1 .. Parts, NEW i \in 0 .. Parts, i < k
    PROVE  /\ Mark(post, i) \in Nat /\ Ends(post, i) = Mark(post, i) - 5
           /\ Mark(post, i) + 4 <= Begins(post, k)
           /\ i > 0 => Begins(post, i) \in Nat /\ Begins(post, i) <= Mark(post, i)
<1>1. /\ i \in 0 .. Len(post.parts) /\ k \in 1 .. Len(post.parts) /\ Parts \in Nat
      /\ k - 1 \in 0 .. Len(post.parts) /\ k - 1 \in i .. Len(post.parts)
  BY UptoText DEF Parts
<1>2. Mark(post, i) \in Nat /\ Mark(post, k - 1) \in Nat
  BY <1>1, Lengths
<1>3. Mark(post, i) <= Mark(post, k - 1)
  <2> DEFINE n == k - 1
  <2>1. n \in i .. Len(post.parts)
    BY <1>1
  <2> HIDE DEF n
  <2>2. Mark(post, i) <= Mark(post, n)
    BY <1>1, <2>1, Prefix
  <2> QED  BY <2>2 DEF n
<1>4. /\ LineCount(post, k) \in Nat
      /\ Begins(post, k) = Mark(post, k - 1) + 3 * LineCount(post, k) + 4
  BY <1>1, PartSizes
<1>5. i > 0 => Begins(post, i) \in Nat /\ Begins(post, i) <= Mark(post, i)
  <2> SUFFICES ASSUME i > 0 PROVE Begins(post, i) \in Nat /\ Begins(post, i) <= Mark(post, i)
    OBVIOUS
  <2>1. i \in 1 .. Len(post.parts)
    BY <1>1
  <2>2. /\ Mark(post, i - 1) \in Nat /\ LineCount(post, i) \in Nat /\ Size(post, i) \in Nat
        /\ Begins(post, i) = Mark(post, i - 1) + 3 * LineCount(post, i) + 4
    BY <2>1, PartSizes
  <2>3. Mark(post, i) = Mark(post, i - 1) + 3 * LineCount(post, i) + Size(post, i) + 9
    BY <2>1, Lengths
  <2> QED  BY <2>2, <2>3
<1> QED  BY <1>2, <1>3, <1>4, <1>5 DEF Ends

(* Between two chunks, and before the parser is done, at most six of the    *)
(* tokens that have arrived of the content were not delivered.              *)
LEMMA NotFarBehind ==
    ASSUME ParserIInv, ~ended_, rest = <<>>, post.multipart, state # "finished",
           NEW k \in 1 .. Parts, k \in Parser!Upload!Files, NoFile(k - 1)
    PROVE  Len(out) \in Nat /\ Len(out) <= Size(post, k) /\ got <= Begins(post, k) + Len(out) + 6
<1>1. Typed /\ Parsing /\ Parser!Upload!WellFormed(post)
  BY PostsAssumption DEF ParserIInv, Typed, Parser!ConstantsOK
<1>2. /\ k \in 1 .. Len(post.parts) /\ Parts \in Nat /\ Parts > 0 /\ k \in Nat
  BY <1>1, UptoText DEF Parts
<1>3. /\ Mark(post, k - 1) \in Nat /\ LineCount(post, k) \in Nat /\ Size(post, k) \in Nat
      /\ Begins(post, k) = Mark(post, k - 1) + 3 * LineCount(post, k) + 4
  BY <1>1, <1>2, PartSizes
<1>4. Ends(post, k) = Begins(post, k) + Size(post, k)
  BY <1>1, <1>2, PartSizes
<1>5. Begins(post, k) \in Nat
  BY <1>3
<1>6. /\ held \in Seq(Token) /\ Len(held) \in Nat /\ Len(rest) = 0 /\ Len(out) \in Nat
      /\ got \in Nat /\ got = Pos + Len(held) /\ Pos \in Nat
  <2>1. held \in Seq(Token) /\ out \in Seq(Token) /\ rest = <<>> /\ got \in Nat
    BY <1>1 DEF Typed
  <2>2. Pos \in Nat
    BY <1>1 DEF Parsing, Reads
  <2>3. Len(rest) = 0 /\ Len(held) \in Nat /\ Len(out) \in Nat
    BY <2>1
  <2>4. got = Pos + Len(held)
    BY <2>1, <2>3 DEF Pos
  <2> QED  BY <2>1, <2>2, <2>3, <2>4
<1>7. out = <<>> => Len(out) = 0
  OBVIOUS
<1>8. CASE state \in {"initial", "preamble"}
  <2>1. Pos = 0 /\ out = <<>> /\ Len(held) < 5
    <3>1. Pos = 0 /\ out = <<>> /\ IF state = "initial" THEN held = <<>> ELSE Len(held) < 5
      BY <1>1, <1>8 DEF Parsing, AtStart
    <3>2. held = <<>> => Len(held) < 5
      OBVIOUS
    <3> QED  BY <3>1, <3>2
  <2> QED  BY <1>3, <1>5, <1>6, <1>7, <2>1
<1>9. ASSUME NEW i \in 1 .. Parts, NoFile(i - 1) PROVE i <= k
  BY <1>2, <1>9 DEF NoFile
<1>10. CASE state = "headers"
  <2>1. out = <<>> /\ Len(held) <= 2
    BY <1>1, <1>10 DEF Parsing, InHeaders
  <2>2. PICK i \in 1 .. Parts : \E m \in 0 .. LineCount(post, i) :
              Pos = Mark(post, i - 1) + 3 * m + 2 /\ NoFile(i - 1)
    BY <1>1, <1>10 DEF Parsing, InHeaders
  <2>3. PICK m \in 0 .. LineCount(post, i) : Pos = Mark(post, i - 1) + 3 * m + 2
    BY <2>2
  <2>4. i <= k
    BY <1>9, <2>2
  <2>5. /\ Mark(post, i - 1) \in Nat /\ LineCount(post, i) \in Nat
        /\ Begins(post, i) = Mark(post, i - 1) + 3 * LineCount(post, i) + 4
    BY <1>1, PartSizes DEF Parts
  <2>6. Begins(post, i) \in Nat /\ Pos + 2 <= Begins(post, i)
    <3> DEFINE h == LineCount(post, i)
               b == Mark(post, i - 1)
    <3>1. m \in Nat /\ m <= h /\ h \in Nat /\ b \in Nat
      BY <2>5
    <3>2. Pos = b + 3 * m + 2 /\ Begins(post, i) = b + 3 * h + 4
      BY <2>3, <2>5
    <3> HIDE DEF Pos, h, b
    <3> QED  BY <3>1, <3>2
  <2>7. Begins(post, i) <= Begins(post, k)
    <3>1. CASE i = k
      BY <1>5, <3>1
    <3>2. CASE i < k
      <4>1. i \in 0 .. Parts /\ i > 0
        BY <1>2
      <4>2. /\ Mark(post, i) \in Nat /\ Mark(post, i) + 4 <= Begins(post, k)
            /\ Begins(post, i) <= Mark(post, i)
        BY <1>1, <3>2, <4>1, LaterPart
      <4> QED  BY <1>5, <2>6, <4>2
    <3> QED  BY <1>2, <2>4, <3>1, <3>2
  <2>8. Len(out) = 0 /\ Len(held) <= 2
    BY <1>7, <2>1
  <2>9. got <= Begins(post, k) + 0 + 6
    BY <1>5, <1>6, <2>6, <2>7, <2>8
  <2> QED  BY <1>3, <2>8, <2>9
<1>11. CASE state = "check"
  <2>1. out = <<>> /\ held = <<>> /\ Len(held) = 0
    BY <1>1, <1>11 DEF Parsing, AtContent
  <2>2. PICK i \in 1 .. Parts : Pos = Begins(post, i) /\ NoFile(i - 1)
    BY <1>1, <1>11 DEF Parsing, AtContent
  <2>3. i <= k
    BY <1>9, <2>2
  <2>4. Begins(post, i) <= Begins(post, k)
    <3>1. CASE i = k
      BY <1>5, <3>1
    <3>2. CASE i < k
      <4>1. i \in 0 .. Parts /\ i > 0
        BY <1>2
      <4>2. /\ Mark(post, i) \in Nat /\ Mark(post, i) + 4 <= Begins(post, k)
            /\ Begins(post, i) <= Mark(post, i) /\ Begins(post, i) \in Nat
        BY <1>1, <3>2, <4>1, LaterPart
      <4> QED  BY <1>5, <4>2
    <3> QED  BY <1>2, <2>3, <3>1, <3>2
  <2>5. got <= Begins(post, k) + 0 + 6
    BY <1>5, <1>6, <2>1, <2>2, <2>4
  <2>6. Len(out) = 0
    BY <1>7, <2>1
  <2> QED  BY <1>3, <2>5, <2>6
<1>12. CASE state = "ignore"
  <2>1. out = <<>> /\ Len(held) <= 6
    BY <1>1, <1>12 DEF Parsing, Ignoring
  <2>2. PICK i \in 0 .. Parts : Pos <= Ends(post, i) /\ NoFile(i)
    BY <1>1, <1>12 DEF Parsing, Ignoring
  <2>3. i < k
    BY <1>2, <2>2 DEF NoFile
  <2>4. Mark(post, i) \in Nat /\ Ends(post, i) = Mark(post, i) - 5
        /\ Mark(post, i) + 4 <= Begins(post, k)
    BY <1>1, <2>3, LaterPart
  <2>5. Len(out) = 0 /\ Len(held) <= 6
    BY <1>7, <2>1
  <2>6. got <= Begins(post, k) + 0 + 6
    BY <1>5, <1>6, <2>2, <2>4, <2>5
  <2> QED  BY <1>3, <2>5, <2>6
<1>13. CASE state = "content"
  <2>1. Len(held) <= 6
    BY <1>1, <1>13 DEF Parsing, Reading
  <2>2. PICK i \in 1 .. Parts :
              /\ i \in Parser!Upload!Files /\ NoFile(i - 1)
              /\ Begins(post, i) <= Pos /\ Pos <= Ends(post, i)
              /\ Len(out) = Pos - Begins(post, i)
    BY <1>1, <1>13 DEF Parsing, Reading
  <2>3. i = k
    <3>1. i <= k
      BY <1>9, <2>2
    <3>2. ~(i < k)
      BY <1>2, <2>2 DEF NoFile
    <3> QED  BY <1>2, <3>1, <3>2
  <2>4. Begins(post, k) <= Pos /\ Pos <= Ends(post, k) /\ Len(out) = Pos - Begins(post, k)
    BY <2>2, <2>3
  <2>5. Len(out) <= Size(post, k)
    <3>1. \A p, b, z \in Nat : b <= p /\ p <= b + z => p - b <= z
      OBVIOUS
    <3>2. Pos \in Nat /\ Begins(post, k) \in Nat /\ Size(post, k) \in Nat
      BY <1>3, <1>5, <1>6
    <3>3. Begins(post, k) <= Pos /\ Pos <= Begins(post, k) + Size(post, k)
      BY <1>4, <2>4, Zenon
    <3>4. Len(out) = Pos - Begins(post, k)
      BY <2>4
    <3> QED  BY <3>1, <3>2, <3>3, <3>4, Zenon
  <2>6. got <= Begins(post, k) + Len(out) + 6
    <3>1. Begins(post, k) + Len(out) = Pos
      BY <1>5, <1>6, <2>4
    <3> QED  BY <1>6, <2>1, <3>1
  <2> QED  BY <1>6, <2>5, <2>6
<1> QED  BY <1>1, <1>8, <1>10, <1>11, <1>12, <1>13 DEF Typed

(* A request that is passed on as it arrives is its own content.            *)
LEMMA PassEnds ==
    ASSUME Typed, ~post.multipart
    PROVE  /\ Parser!Upload!WellFormed(post) /\ Parser!Upload!Wanted = Parser!Upload!Body
           /\ Parser!Upload!Body \in Seq(Token) /\ Len(Parser!Upload!Body) \in Nat
           /\ Parser!Upload!WantedEnd = Len(Parser!Upload!Body)
           /\ Parser!Upload!Closed = Len(Parser!Upload!Body)
           /\ got \in Nat /\ got <= Len(Parser!Upload!Body)
<1>1. Parser!Upload!WellFormed(post)
  BY PostsAssumption DEF Typed, Parser!ConstantsOK
<1>2. Parser!Upload!Body \in Seq(Token)
  BY <1>1, BodyText
<1>3. Parser!Upload!Wanted = Parser!Upload!Body
  BY DEF Parser!Upload!Wanted, Parser!Upload!Body, Parser!Upload!Text
<1>4. Parser!Upload!WantedEnd = Len(Parser!Upload!Body)
  BY DEF Parser!Upload!WantedEnd
<1>5. Parser!Upload!Closed = Len(Parser!Upload!Body)
  BY <1>4 DEF Parser!Upload!Closed
<1>6. Len(Parser!Upload!Body) \in Nat
  BY <1>2
<1>7. got \in Nat /\ got <= Len(Parser!Upload!Body)
  BY <1>6 DEF Typed
<1> QED  BY <1>1, <1>2, <1>3, <1>4, <1>5, <1>6, <1>7

(* Two beginnings of one text of the same length are the same.              *)
LEMMA SameText ==
    ASSUME NEW s \in Seq(Token), NEW t \in Seq(Token), NEW n \in Nat, n <= Len(t),
           Len(s) = n, \A i \in 1 .. n : s[i] = t[i]
    PROVE  s = SubSeq(t, 1, n)
<1> DEFINE u == SubSeq(t, 1, n)
<1>1. Len(t) \in Nat
  OBVIOUS
<1>2. u \in Seq(Token) /\ Len(u) = n /\ \A i \in 1 .. n : u[i] = t[i]
  BY <1>1
<1> HIDE DEF u
<1>3. \A i \in 1 .. Len(s) : s[i] = u[i]
  BY <1>2
<1>4. s = u
  BY <1>2, <1>3, SeqEqual
<1> QED  BY <1>4 DEF u

(* The steps of the parser as steps of PostUpload: a chunk is a Receive,    *)
(* or a Pass of a request that is passed on; the end is an End; and a pass  *)
(* over the content is a Deliver.                                           *)
LEMMA GotChunkImplements ==
    ASSUME ParserIInv, NEW n \in 1 .. Len(Parser!Upload!Body), Parser!GotChunk(n)
    PROVE  Parser!Upload!Receive
<1>1. /\ ~ended_ /\ got + n <= Len(Parser!Upload!Body) /\ got' = got + n
      /\ UNCHANGED <<post, out, ended_>>
  BY DEF Parser!GotChunk
<1>2. Typed
  BY DEF ParserIInv
<1>3. Parser!Upload!Body \in Seq(Token)
  BY <1>2, PostsAssumption, BodyText DEF Typed, Parser!ConstantsOK
<1>4. Len(Parser!Upload!Body) \in Nat /\ got \in Nat /\ n \in Nat /\ n >= 1
  <2>1. Len(Parser!Upload!Body) \in Nat
    BY <1>3
  <2> QED  BY <1>2, <2>1 DEF Typed
<1>5. got' \in got + 1 .. Len(Parser!Upload!Body)
  BY <1>1, <1>4
<1> QED  BY <1>1, <1>5 DEF Parser!Upload!Receive

LEMMA PassChunkImplements ==
    ASSUME ParserIInv, NEW n \in 1 .. Len(Parser!Upload!Body), Parser!PassChunk(n)
    PROVE  Parser!Upload!Pass
<1>1. /\ ~ended_ /\ ~post.multipart /\ got + n <= Len(Parser!Upload!Body) /\ got' = got + n
      /\ UNCHANGED <<post, ended_>>
  BY DEF Parser!PassChunk
<1>2. Typed /\ ParserIInv'
  BY PassChunkStep DEF ParserIInv
<1>3. /\ Parser!Upload!Wanted = Parser!Upload!Body /\ Parser!Upload!Body \in Seq(Token)
      /\ Len(Parser!Upload!Body) \in Nat
      /\ got \in Nat
  BY <1>1, <1>2, PassEnds
<1>4. got' \in got + 1 .. Len(Parser!Upload!Body) /\ got' \in Nat
           /\ got' <= Len(Parser!Upload!Body)
  BY <1>1, <1>3
<1>5. out' = SubSeq(Parser!Upload!Wanted, 1, got')
  <2>1. ~ended_' /\ ~post'.multipart /\ Parser!Upload!Body' = Parser!Upload!Body
    BY <1>1 DEF Parser!Upload!Body
  <2>2. Passing' /\ Typed'
    BY <1>2, <2>1 DEF ParserIInv
  <2>3. Len(out') = got' /\ \A i \in 1 .. got' : out'[i] = Parser!Upload!Body[i]
    BY <2>1, <2>2 DEF Passing
  <2>4. out' \in Seq(Token)
    BY <2>2 DEF Typed
  <2> DEFINE B == Parser!Upload!Body
             o == out'
             g == got'
  <2>5. o \in Seq(Token) /\ B \in Seq(Token) /\ g \in Nat /\ g <= Len(B) /\ Len(o) = g
        /\ \A i \in 1 .. g : o[i] = B[i]
    BY <1>3, <1>4, <2>3, <2>4
  <2> HIDE DEF B, o, g
  <2>6. o = SubSeq(B, 1, g)
    BY <2>5, SameText
  <2> QED  BY <1>3, <2>6 DEF B, o, g
<1> QED  BY <1>1, <1>4, <1>5 DEF Parser!Upload!Pass

LEMMA FinishedImplements == ASSUME ParserIInv, Parser!Finished PROVE Parser!Upload!End
<1>1. ~ended_ /\ rest = <<>> /\ ended_' = TRUE /\ UNCHANGED <<post, got, out>>
  BY DEF Parser!Finished
<1>2. Typed /\ Passing /\ (post.multipart => Parsing)
  BY <1>1 DEF ParserIInv
<1>3. Parser!Upload!WellFormed(post) /\ got \in Nat /\ out \in Seq(Token) /\ Len(out) \in Nat
  <2>1. Parser!Upload!WellFormed(post) /\ got \in Nat /\ out \in Seq(Token)
    BY <1>2, PostsAssumption DEF Typed, Parser!ConstantsOK
  <2> QED  BY <2>1
<1>4. SUFFICES /\ got >= Parser!Upload!Closed => out = Parser!Upload!Wanted
               /\ Len(out) > Parser!Upload!Arrived - 7
  <2>1. Len(Parser!Upload!Delimiter) + 2 = 7
    BY Marks
  <2> QED  BY <1>1, <2>1 DEF Parser!Upload!End
<1>5. CASE ~post.multipart
  <2>1. /\ Parser!Upload!Wanted = Parser!Upload!Body /\ Parser!Upload!Body \in Seq(Token)
        /\ Len(Parser!Upload!Body) \in Nat
        /\ Parser!Upload!WantedEnd = Len(Parser!Upload!Body)
        /\ Parser!Upload!Closed = Len(Parser!Upload!Body)
        /\ got <= Len(Parser!Upload!Body)
    BY <1>2, <1>5, PassEnds
  <2>2. Len(out) = got /\ \A i \in 1 .. got : out[i] = Parser!Upload!Body[i]
    BY <1>2, <1>5 DEF Passing
  <2>3. got >= Parser!Upload!Closed => out = Parser!Upload!Wanted
    <3> SUFFICES ASSUME got >= Parser!Upload!Closed PROVE out = Parser!Upload!Wanted
      OBVIOUS
    <3>1. got = Len(Parser!Upload!Body)
      BY <1>3, <2>1
    <3> QED  BY <1>3, <2>1, <2>2, <3>1, SeqEqual
  <2>4. Len(out) > Parser!Upload!Arrived - 7
    <3> DEFINE w == Len(Parser!Upload!Body)
    <3>1. w \in Nat /\ Parser!Upload!WantedEnd = w /\ Len(Parser!Upload!Wanted) = w /\ got <= w
      BY <2>1
    <3> HIDE DEF w
    <3>2. /\ Parser!Upload!Arrived \in Nat /\ Parser!Upload!Arrived <= Len(Parser!Upload!Wanted)
          /\ got < w => Parser!Upload!Arrived = IF Len(Parser!Upload!Wanted) - w + got >= 0
                                         THEN Len(Parser!Upload!Wanted) - w + got ELSE 0
      BY <1>3, <3>1, ArrivedIs
    <3>3. Parser!Upload!Arrived <= got
      <4>1. CASE got = w
        BY <3>1, <3>2, <4>1
      <4>2. CASE got < w
        BY <1>3, <3>1, <3>2, <4>2
      <4> QED  BY <1>3, <3>1, <4>1, <4>2
    <3> QED  BY <1>3, <2>2, <3>2, <3>3
  <2> QED  BY <2>3, <2>4
<1>6. CASE post.multipart /\ Parser!Upload!Files = {}
  <2>1. Parser!Upload!Wanted = <<>>
    BY <1>6 DEF Parser!Upload!Wanted
  <2>2. out = <<>>
    BY <1>2, <1>6, <2>1
       DEF Typed, Parsing, AtStart, InHeaders, AtContent, Ignoring, Reading, Done
  <2>3. Parser!Upload!WantedEnd = Len(Parser!Upload!Body) /\ Len(Parser!Upload!Body) \in Nat
    <3>1. Parser!Upload!Body \in Seq(Token)
      BY <1>3, BodyText
    <3>2. Parser!Upload!WantedEnd = Len(Parser!Upload!Body)
      BY <1>6 DEF Parser!Upload!WantedEnd
    <3> QED  BY <3>1, <3>2
  <2>4. Len(Parser!Upload!Wanted) = 0 /\ Len(out) = 0
    BY <2>1, <2>2
  <2>5. Parser!Upload!Arrived \in Nat /\ Parser!Upload!Arrived <= 0
    <3> DEFINE w == Len(Parser!Upload!Body)
    <3>1. w \in Nat /\ Parser!Upload!WantedEnd = w /\ Len(Parser!Upload!Wanted) \in Nat
      BY <2>3, <2>4
    <3> HIDE DEF w
    <3>2. Parser!Upload!Arrived \in Nat /\ Parser!Upload!Arrived <= Len(Parser!Upload!Wanted)
      BY <1>3, <3>1, ArrivedIs
    <3> QED  BY <2>4, <3>2
  <2> QED  BY <2>1, <2>2, <2>4, <2>5
<1>7. CASE post.multipart /\ Parser!Upload!Files # {} /\ state = "finished"
  <2>1. out = Parser!Upload!Wanted
    BY <1>2, <1>7 DEF Parsing, Done
  <2>2. PICK k \in 1 .. Parts :
              /\ Begins(post, k) \in Nat /\ Size(post, k) \in Nat
              /\ Ends(post, k) = Begins(post, k) + Size(post, k)
              /\ Parser!Upload!WantedEnd = Ends(post, k)
    BY <1>2, <1>7, FilePart
  <2>3. Ends(post, k) \in Nat /\ Len(Parser!Upload!Wanted) \in Nat
    BY <1>3, <2>1, <2>2
  <2>4. Parser!Upload!Arrived \in Nat /\ Parser!Upload!Arrived <= Len(Parser!Upload!Wanted)
    BY <1>3, <2>2, <2>3, ArrivedIs
  <2>5. Len(out) > Parser!Upload!Arrived - 7
    <3>1. Len(out) = Len(Parser!Upload!Wanted)
      BY <2>1
    <3> QED  BY <1>3, <2>4, <3>1
  <2> QED  BY <2>1, <2>5
<1>8. CASE post.multipart /\ Parser!Upload!Files # {} /\ state # "finished"
  <2>1. PICK k \in 1 .. Parts :
              /\ k \in Parser!Upload!Files /\ NoFile(k - 1)
              /\ Len(Parser!Upload!Wanted) = Size(post, k)
              /\ Begins(post, k) \in Nat /\ Size(post, k) \in Nat
              /\ Ends(post, k) = Begins(post, k) + Size(post, k)
              /\ Parser!Upload!WantedEnd = Ends(post, k)
              /\ Parser!Upload!Closed = Ends(post, k) + 7
    BY <1>2, <1>8, FilePart
  <2> DEFINE b == Begins(post, k)
             z == Size(post, k)
             w == Ends(post, k)
             n == Len(out)
             a == Parser!Upload!Arrived
  <2>2. n <= z /\ got <= b + n + 6 /\ n \in Nat
    BY <1>1, <1>8, <2>1, NotFarBehind
  <2>3. b \in Nat /\ z \in Nat /\ w = b + z /\ w \in Nat /\ Len(Parser!Upload!Wanted) = z
    BY <2>1
  <2>4. /\ a \in Nat /\ a <= z
        /\ got < w => a = IF z - w + got >= 0 THEN z - w + got ELSE 0
    <3> HIDE DEF a, w, z
    <3>1. Parser!Upload!WantedEnd = w /\ Len(Parser!Upload!Wanted) \in Nat
               /\ Len(Parser!Upload!Wanted) = z
      BY <2>1, <2>3 DEF w, z
    <3> QED  BY <1>3, <2>3, <3>1, ArrivedIs DEF a
  <2>5. Parser!Upload!Closed = w + 7
    BY <2>1
  <2> HIDE DEF b, z, w, n, a
  <2>6. ~(got >= Parser!Upload!Closed)
    BY <1>3, <2>2, <2>3, <2>5
  <2>7. n > a - 7
    <3>1. CASE got >= w
      BY <1>3, <2>2, <2>3, <2>4, <3>1
    <3>2. CASE got < w
      <4>1. CASE z - w + got >= 0
        BY <1>3, <2>2, <2>3, <2>4, <3>2, <4>1
      <4>2. CASE ~(z - w + got >= 0)
        BY <1>3, <2>2, <2>3, <2>4, <3>2, <4>2
      <4> QED  BY <4>1, <4>2
    <3> QED  BY <1>3, <2>3, <3>1, <3>2
  <2> QED  BY <2>6, <2>7 DEF n, a
<1> QED  BY <1>5, <1>6, <1>7, <1>8

LEMMA ReadContentImplements ==
    ASSUME ParserIInv, Parser!ReadContent
    PROVE  Parser!Upload!Deliver \/ UNCHANGED Parser!Upload!upload
<1>1. Parser!Loop("content") /\ UNCHANGED <<post, got, headers, ended_>>
  BY DEF Parser!ReadContent
<1>2. /\ Typed /\ ~ended_ /\ post.multipart /\ got \in Nat
  BY <1>1, InLoop DEF Typed
<1>3. PICK k \in 1 .. Parts, kept \in Nat : ContentGoesOn(k, kept)
  BY ContentRead
<1>4. /\ k \in Parser!Upload!Files /\ NoFile(k - 1)
      /\ Begins(post, k) \in Nat /\ Size(post, k) \in Nat
      /\ Ends(post, k) = Begins(post, k) + Size(post, k)
      /\ Pos \in Nat /\ Begins(post, k) <= Pos /\ Pos + kept <= Ends(post, k)
      /\ Pos + kept <= got
      /\ Len(out) = Pos - Begins(post, k) /\ Len(out') = Pos + kept - Begins(post, k)
  BY <1>3 DEF ContentGoesOn
<1>5. /\ out \in Seq(Token) /\ out' \in Seq(Token)
      /\ \A i \in 1 .. Len(out) : out[i] = post.parts[k].content[i]
      /\ \A i \in 1 .. Len(out') : out'[i] = post.parts[k].content[i]
  BY <1>3 DEF ContentGoesOn
<1>6. Parser!Upload!Wanted = post.parts[k].content
  BY <1>2, <1>4, WantedPart
<1>7. Parser!Upload!Wanted \in Seq(Token) /\ Len(Parser!Upload!Wanted) = Size(post, k)
  <2>1. post.parts[k] \in Part
    BY <1>2, PostsAssumption, UptoText DEF Typed, Parser!ConstantsOK, Parts
  <2> QED  BY <1>6, <2>1 DEF Part, Size
<1>8. Parser!Upload!WantedEnd = Ends(post, k)
  <2>1. PICK j \in 1 .. Parts : j \in Parser!Upload!Files /\ NoFile(j - 1)
             /\ Parser!Upload!WantedEnd = Ends(post, j)
    BY <1>2, <1>4, FilePart
  <2>2. j = k
    <3>1. j \in Nat /\ k \in Nat
      OBVIOUS
    <3> QED  BY <1>4, <2>1, <3>1 DEF NoFile
  <2> QED  BY <2>1, <2>2
<1>9. /\ Len(out) \in Nat /\ Len(out') \in Nat /\ Len(out) <= Len(out')
      /\ Len(out') <= Size(post, k) /\ Begins(post, k) + Len(out') <= got
  <2>1. Len(out) \in Nat /\ Len(out') \in Nat
    BY <1>5
  <2>2. Len(out) <= Len(out')
    BY <1>4
  <2>3. Len(out') <= Size(post, k) /\ Begins(post, k) + Len(out') <= got
    BY <1>2, <1>4
  <2> QED  BY <2>1, <2>2, <2>3
<1>10. out' = SubSeq(Parser!Upload!Wanted, 1, Len(out'))
  <2> DEFINE o == out'
             t == Parser!Upload!Wanted
             n == Len(out')
  <2>1. /\ o \in Seq(Token) /\ t \in Seq(Token) /\ n \in Nat /\ n <= Len(t) /\ Len(o) = n
        /\ \A i \in 1 .. n : o[i] = t[i]
    BY <1>5, <1>6, <1>7, <1>9
  <2> HIDE DEF o, t, n
  <2>2. o = SubSeq(t, 1, n)
    BY <2>1, SameText
  <2> QED  BY <2>2 DEF o, t, n
<1>11. CASE Len(out') = Len(out)
  <2>1. out' = out
    BY <1>5, <1>11, SeqEqual
  <2> QED  BY <1>1, <2>1 DEF Parser!Upload!upload
<1>12. CASE Len(out') > Len(out)
  <2>1. Len(out') <= Parser!Upload!Arrived /\ Parser!Upload!Arrived \in Nat
    <3> DEFINE b == Begins(post, k)
               z == Size(post, k)
               w == Ends(post, k)
               n == Len(out')
               a == Parser!Upload!Arrived
    <3>1. b \in Nat /\ z \in Nat /\ w = b + z /\ w \in Nat /\ n \in Nat /\ n <= z /\ b + n <= got
      BY <1>4, <1>9
    <3>2. /\ a \in Nat
          /\ got >= w => a = z
          /\ got < w => a = IF z - w + got >= 0 THEN z - w + got ELSE 0
      <4> HIDE DEF a, w, z
      <4>1. Parser!Upload!WantedEnd = w /\ Len(Parser!Upload!Wanted) \in Nat
                 /\ Len(Parser!Upload!Wanted) = z
        BY <1>7, <1>8, <3>1 DEF w, z
      <4> QED  BY <1>2, <3>1, <4>1, ArrivedIs DEF a
    <3> HIDE DEF b, z, w, n, a
    <3>3. n <= a
      <4>1. CASE got >= w
        BY <1>2, <3>1, <3>2, <4>1
      <4>2. CASE got < w
        <5>1. CASE z - w + got >= 0
          BY <1>2, <3>1, <3>2, <4>2, <5>1
        <5>2. CASE ~(z - w + got >= 0)
          BY <1>2, <3>1, <3>2, <4>2, <5>2
        <5> QED  BY <5>1, <5>2
      <4> QED  BY <1>2, <3>1, <4>1, <4>2
    <3> QED  BY <3>2, <3>3 DEF n, a
  <2>2. Len(out') \in Len(out) + 1 .. Parser!Upload!Arrived
    BY <1>9, <1>12, <2>1
  <2> QED  BY <1>1, <1>2, <1>10, <2>2 DEF Parser!Upload!Deliver
<1> QED  BY <1>9, <1>11, <1>12

(* The other passes of the loop deliver nothing.                            *)
LEMMA OthersStutter ==
    ASSUME Parser!CheckPreamble \/ Parser!SkipPreamble \/ Parser!ReadHeaders
         \/ Parser!CheckHeaders \/ Parser!IgnoreContent
           \/ Parser!LeaveRest \/ UNCHANGED Parser!vars
    PROVE  UNCHANGED Parser!Upload!upload
  BY DEF Parser!CheckPreamble, Parser!SkipPreamble, Parser!ReadHeaders, Parser!CheckHeaders,
         Parser!IgnoreContent, Parser!LeaveRest, Parser!vars, Parser!Upload!upload

LEMMA StepImplements == ASSUME ParserIInv, [Parser!Next]_(Parser!vars)
                        PROVE [Parser!Upload!Next]_(Parser!Upload!upload)
<1>1. ASSUME NEW n \in 1 .. Len(Parser!Upload!Body), Parser!GotChunk(n) \/ Parser!PassChunk(n)
      PROVE Parser!Upload!Next
  BY <1>1, GotChunkImplements, PassChunkImplements DEF Parser!Upload!Next
<1>2. CASE Parser!Finished
  BY <1>2, FinishedImplements DEF Parser!Upload!Next
<1>3. CASE Parser!ReadContent
  BY <1>3, ReadContentImplements DEF Parser!Upload!Next
<1> QED  BY <1>1, <1>2, <1>3, OthersStutter DEF Parser!Next

(* Every step of the parser is a step of PostUpload or leaves what that     *)
(* module sees as it is: of a multipart request the content of its first    *)
(* part with a file is delivered, all of it when its delimiter has arrived, *)
(* and of any other the body.                                               *)
THEOREM ParserUploads == Parser!Spec => Parser!Uploads
<1>1. Parser!Init => Parser!Upload!Init
  BY DEF Parser!Init, Parser!Upload!Init
<1>2. ParserIInv /\ [Parser!Next]_(Parser!vars) => [Parser!Upload!Next]_(Parser!Upload!upload)
  BY StepImplements
<1> QED  BY <1>1, <1>2, ParserInvariant, PTL DEF Parser!Spec, Parser!Uploads, Parser!Upload!Spec

-----------------------------------------------------------------------------
(* The endpoint: the session and the parser, one at a time. *)

LEMMA SessionOf == MCSpec => Spec
<1>1. MCInit => Init
  BY DEF MCInit
<1>2. [MCNext]_all => [Next]_vars
  BY DEF MCNext, all
<1> QED  BY <1>1, <1>2, PTL DEF MCSpec, Spec

LEMMA ParserOf == MCSpec => Parser!Spec
<1>1. MCInit => Parser!Init
  BY DEF MCInit
<1>2. [MCNext]_all => [Parser!Next]_(Parser!vars)
  BY DEF MCNext, all, parser, Parser!vars
<1> QED  BY <1>1, <1>2, PTL DEF MCSpec, Parser!Spec

(* The variables of both keep their types.                                  *)
THEOREM EndpointTypes == MCSpec => []Types
<1>1. TypeOK /\ ParserIInv => Types
  BY ParserTypes DEF Types
<1> QED  BY <1>1, SessionOf, ParserOf, TypeInvariant, ParserInvariant, PTL

(* In the endpoint the parser of the controller does what PostUpload        *)
(* promises.                                                                *)
THEOREM EndpointUploads == MCSpec => Uploads
<1>1. Parser!Spec => Uploads
  BY ParserUploads DEF Uploads
<1> QED  BY <1>1, ParserOf

=================================================================================
