------------------------------ MODULE WebrtcSession ------------------------------
(***************************************************************************)
(* Trickle ICE in a WebRTC session (kmswebrtcsession.c, over the ICE agent *)
(* of kmsiceniceagent.c): local candidates are gathered, put in the local  *)
(* SDP and told to the application; the remote ones are stored and given   *)
(* to the agent as soon as the session is ready for them.                  *)
(*                                                                         *)
(* Threads.  One application thread negotiates, another gathers, others    *)
(* add remote candidates; the loop of the agent reports candidates and the *)
(* end of the gathering.  All but the last steps of the negotiation take   *)
(* the SDP lock, which is recursive: the gathering thread keeps it while   *)
(* the agent reports to it the candidates that it finds at once.           *)
(*                                                                         *)
(* libnice and the SDP endpoint are not in the repository: a stream that   *)
(* is gathering ignores another start, reports its candidates and then its *)
(* end; the endpoint sets the SDPs and calls the session's handlers.       *)
(***************************************************************************)
EXTENDS Integers, Sequences, FiniteSets

CONSTANTS
    Streams,    \* stream ids of the agent, one per connection
    LastMedia,  \* index of the last medium of the SDP
    StreamOf,   \* the stream each medium goes through
    Inactive,   \* the media without a direction
    Remote,     \* remote candidates: records with an index and the agent's reply
    Described,  \* the remote candidates written in the remote SDP
    Unusable,   \* the media of the remote SDP without credentials or without a mid
    MaxLocal,   \* bound: local candidates of a stream
    MaxGathers, \* bound: calls of gatherCandidates
    OtherFamily \* streams whose default address is not of the SDP's IP version

Medias == 0 .. LastMedia
MediasLen == LastMedia + 1

ASSUME ConstantsAssumption ==
    /\ LastMedia \in Nat /\ StreamOf \in [Medias -> Streams] /\ Inactive \subseteq Medias
    /\ IsFiniteSet(Streams) /\ "away" \notin Streams
    /\ \A c \in Remote : c.index \in Nat /\ c.accepted \in BOOLEAN
    /\ Unusable \subseteq Medias
    /\ Described \subseteq {c \in Remote : c.index \in Medias}
    /\ MaxLocal \in Nat \ {0} /\ MaxGathers \in Nat /\ OtherFamily \subseteq Streams

VARIABLES
    nego,             \* where the negotiation is
    local_sdp,        \* the local SDP is there, and with it the connections
    remote_sdp,       \* the remote SDP is there
    localLines,       \* candidate lines of the local SDP: <<medium, stream, number>>
    remoteLines,      \* candidate lines of the remote SDP: <<medium, candidate>>
    defaults,         \* media of the local SDP with a default address
    gather_started,
    remote_candidates,
    agent,            \* the remote candidates the agent has, with their streams
    gathering,        \* what the agent does for a stream: "idle", "running", "ended"
    found,            \* number of local candidates of a stream
    ice_gathering_done,
    caller,           \* the thread in gatherCandidates: the streams to do, or Away
    failed,           \* a start of this call has failed
    gathers,          \* calls of gatherCandidates
    loop,             \* what the loop has still to tell
    told,             \* local candidates told to the application
    doneTold          \* times OnIceGatheringDone was told

sdp == <<local_sdp, remote_sdp, localLines, remoteLines, defaults>>
remoteSide == <<remote_candidates, agent>>
localSide == <<gathering, found, ice_gathering_done>>
gatherer == <<caller, failed, gathers>>
app == <<told, doneTold>>
vars == <<nego, sdp, gather_started, remoteSide, localSide, gatherer, loop, app>>

Away == {"away"}
Quiet == [lines |-> {}, done |-> FALSE]

Init ==
    /\ nego = "new"
    /\ local_sdp = FALSE /\ remote_sdp = FALSE
    /\ localLines = {} /\ remoteLines = {} /\ defaults = {}
    /\ gather_started = FALSE
    /\ remote_candidates = <<>> /\ agent = {}
    /\ gathering = [s \in Streams |-> "idle"] /\ found = [s \in Streams |-> 0]
    /\ ice_gathering_done = {}
    /\ caller = Away /\ failed = FALSE /\ gathers = 0
    /\ loop = Quiet /\ told = {} /\ doneTold = 0

\* Nobody holds the SDP lock from one step to the next but the gathering thread.
LockFree == caller = Away

\* The connections, made with the local SDP.
Conns == IF local_sdp THEN {StreamOf[m] : m \in Medias} ELSE {}

-----------------------------------------------------------------------------
(* Remote candidates. *)

\* What set_remote_ice_candidate answers.  An index just past the media
\* passes its test and reads beyond the array.
Answers(c, started) ==
    IF ~local_sdp \/ ~started THEN {TRUE}
    ELSE IF c.index > MediasLen THEN {FALSE}
    ELSE IF c.index = MediasLen THEN BOOLEAN
    ELSE IF c.index \in Inactive THEN {TRUE}
    ELSE {c.accepted}

\* The stream of the agent that gets the candidate with that call.
Given(c, started) ==
    IF local_sdp /\ started /\ c.index \in Medias \ Inactive /\ c.accepted
    THEN {<<StreamOf[c.index], c>>} ELSE {}

Line(c) == IF remote_sdp /\ c.index \in Medias THEN {<<c.index, c>>} ELSE {}

Stored == {remote_candidates[i] : i \in DOMAIN remote_candidates}

\* add_stored_ice_candidates: those before the first one answered FALSE.
AddStored(started) ==
    \E k \in 0 .. Len(remote_candidates) :
        /\ \A i \in 1 .. k : TRUE \in Answers(remote_candidates[i], started)
        /\ k < Len(remote_candidates) => FALSE \in Answers(remote_candidates[k + 1], started)
        /\ agent' = agent \union UNION {Given(remote_candidates[i], started) : i \in 1 .. k}

\* addIceCandidate: store, give to the agent, write in the remote SDP.
Add(c) ==
    /\ remote_candidates' = Append(remote_candidates, c)
    /\ agent' = agent \union Given(c, gather_started)
    /\ remoteLines' = remoteLines \union Line(c)

AddIceCandidate(c) ==
    /\ LockFree /\ c \notin Stored \union Described
    /\ Add(c)
    /\ UNCHANGED <<nego, local_sdp, remote_sdp, localLines, defaults, gather_started,
                   localSide, gatherer, loop, app>>

-----------------------------------------------------------------------------
(* Negotiation. *)

\* generateOffer: connections with their streams, credentials, fingerprint.
GenerateOffer ==
    /\ nego = "new" /\ LockFree
    /\ nego' = "offered" /\ local_sdp' = TRUE
    /\ UNCHANGED <<remote_sdp, localLines, remoteLines, defaults, gather_started,
                   remoteSide, localSide, gatherer, loop, app>>

SetRemote ==
    /\ LockFree /\ remote_sdp' = TRUE
    /\ remoteLines' = {<<c.index, c>> : c \in Described}
    /\ UNCHANGED <<localLines, defaults, gather_started, remoteSide, localSide,
                   gatherer, loop, app>>

ProcessAnswer ==
    /\ nego = "offered" /\ SetRemote
    /\ nego' = "start" /\ UNCHANGED local_sdp

ProcessOffer ==
    /\ nego = "new" /\ SetRemote
    /\ nego' = "answering" /\ UNCHANGED local_sdp

GenerateAnswer ==
    /\ nego = "answering" /\ LockFree
    /\ nego' = "start" /\ local_sdp' = TRUE
    /\ UNCHANGED <<remote_sdp, localLines, remoteLines, defaults, gather_started,
                   remoteSide, localSide, gatherer, loop, app>>

\* start_transport_send: each candidate of the active media of the remote SDP
\* with addIceCandidate, unless the credentials or the mid are missing.
Usable == {c \in Described : c.index \notin Inactive \union Unusable}

AddDescribed ==
    /\ nego = "start" /\ LockFree
    /\ \E c \in Usable \ Stored : Add(c)
    /\ UNCHANGED <<nego, local_sdp, remote_sdp, localLines, defaults, gather_started,
                   localSide, gatherer, loop, app>>

\* Then all the stored ones again, without the lock.
StartStored ==
    /\ nego = "start" /\ Usable \subseteq Stored
    /\ AddStored(gather_started)
    /\ nego' = "stored"
    /\ UNCHANGED <<sdp, gather_started, remote_candidates, localSide, gatherer, loop, app>>

StartLines ==
    /\ nego = "stored"
    /\ remoteLines' = remoteLines \union UNION {Line(c) : c \in Stored}
    /\ nego' = "started"
    /\ UNCHANGED <<local_sdp, remote_sdp, localLines, defaults, gather_started,
                   remoteSide, localSide, gatherer, loop, app>>

-----------------------------------------------------------------------------
(* Local candidates. *)

\* The media a candidate of stream s is announced for, when it is the n-th.
Announcements(s, n) ==
    {<<m, s, n>> : m \in {i \in Medias \ Inactive : local_sdp /\ StreamOf[i] = s}}

\* The end of stream s ends them all.  (AnyEnded and AllEndedBefore are mutants.)
AnyEnded(s) == s \in Streams
AllEndedBefore(s) == s \in Streams /\ Conns \subseteq ice_gathering_done
AllEnded(s) == Conns \subseteq ice_gathering_done \union {s}

\* The end of the gathering of stream s; the media get their default address
\* one after the other, up to the first one that fails.
Finish(s) ==
    LET fails == {m \in Medias \ Inactive : StreamOf[m] \in OtherFamily} IN
    /\ ice_gathering_done' = ice_gathering_done \union {s}
    /\ defaults' = IF AllEnded(s)
                   THEN {m \in Medias \ Inactive : \A f \in fails : m < f}
                   ELSE defaults
    /\ gathering' = [gathering EXCEPT ![s] = "ended"]

\* gatherCandidates takes the lock and starts the streams in any order.
GatherBegin ==
    /\ LockFree /\ gathers < MaxGathers
    /\ caller' = Conns /\ failed' = FALSE /\ gathers' = gathers + 1
    /\ UNCHANGED <<nego, sdp, gather_started, remoteSide, localSide, loop, app>>

\* The agent finds the first candidate at once, and maybe no other one.
GatherStream(s) ==
    /\ s \in caller /\ gathering[s] = "idle"
    /\ caller' = caller \ {s}
    /\ found' = [found EXCEPT ![s] = 1]
    /\ localLines' = localLines \union Announcements(s, 1)
    /\ told' = told \union Announcements(s, 1)
    /\ \/ gathering' = [gathering EXCEPT ![s] = "running"]
          /\ UNCHANGED <<ice_gathering_done, defaults, doneTold>>
       \/ Finish(s)
          /\ doneTold' = IF AllEnded(s) THEN doneTold + 1 ELSE doneTold
    /\ UNCHANGED <<nego, local_sdp, remote_sdp, remoteLines, gather_started, remoteSide,
                   failed, gathers, loop>>

GatherAgain(s) ==
    /\ s \in caller /\ gathering[s] # "idle"
    /\ caller' = caller \ {s}
    /\ UNCHANGED <<nego, sdp, gather_started, remoteSide, localSide, failed, gathers,
                   loop, app>>

GatherFails(s) ==
    /\ s \in caller /\ gathering[s] = "idle"
    /\ caller' = caller \ {s} /\ failed' = TRUE
    /\ UNCHANGED <<nego, sdp, gather_started, remoteSide, localSide, gathers, loop, app>>

\* The stored candidates go to the agent.  (GatherEndOnly, without them, is a mutant.)
GatherEndOnly ==
    /\ caller = {}
    /\ caller' = Away /\ gather_started' = (gather_started \/ ~failed)
    /\ UNCHANGED <<nego, sdp, remoteSide, localSide, failed, gathers, loop, app>>

GatherEnd ==
    /\ caller = {}
    /\ caller' = Away
    /\ IF failed THEN UNCHANGED <<gather_started, agent>>
       ELSE gather_started' = TRUE /\ AddStored(TRUE)
    /\ UNCHANGED <<nego, sdp, remote_candidates, localSide, failed, gathers, loop, app>>

\* The loop: the lines under the lock, the events after it.
NewCandidate(s) ==
    /\ loop = Quiet /\ LockFree
    /\ gathering[s] = "running" /\ found[s] < MaxLocal
    /\ found' = [found EXCEPT ![s] = found[s] + 1]
    /\ localLines' = localLines \union Announcements(s, found[s] + 1)
    /\ loop' = [Quiet EXCEPT !.lines = Announcements(s, found[s] + 1)]
    /\ UNCHANGED <<nego, local_sdp, remote_sdp, remoteLines, defaults, gather_started,
                   remoteSide, gathering, ice_gathering_done, gatherer, app>>

StreamEnds(s) ==
    /\ loop = Quiet /\ LockFree /\ gathering[s] = "running"
    /\ Finish(s)
    /\ loop' = [Quiet EXCEPT !.done = AllEnded(s)]
    /\ UNCHANGED <<nego, local_sdp, remote_sdp, localLines, remoteLines, gather_started,
                   remoteSide, found, gatherer, app>>

Tell ==
    /\ loop # Quiet
    /\ loop' = Quiet
    /\ told' = told \union loop.lines
    /\ doneTold' = IF loop.done THEN doneTold + 1 ELSE doneTold
    /\ UNCHANGED <<nego, sdp, gather_started, remoteSide, localSide, gatherer>>

Next ==
    \/ \E c \in Remote : AddIceCandidate(c)
    \/ GenerateOffer \/ ProcessAnswer \/ ProcessOffer \/ GenerateAnswer
    \/ AddDescribed \/ StartStored \/ StartLines
    \/ GatherBegin \/ GatherEnd
    \/ \E s \in Streams :
         \/ GatherStream(s) \/ GatherAgain(s) \/ GatherFails(s)
         \/ NewCandidate(s) \/ StreamEnds(s)
    \/ Tell

Spec == Init /\ [][Next]_vars

(* A call that has begun runs to its end, and the loop runs: the agent gives *)
(* up what it has not found after a while.  Nobody has to call, and a start  *)
(* may fail.  The bounds end every behaviour, so that fairness for all these *)
(* steps together is fairness for each thread.                               *)
Progress ==
    \/ AddDescribed \/ StartStored \/ StartLines
    \/ \E s \in Streams : GatherStream(s) \/ GatherAgain(s) \/ StreamEnds(s)
    \/ GatherEnd \/ Tell

Fairness == WF_vars(Progress)

FairSpec == Spec /\ Fairness

-----------------------------------------------------------------------------
(* Properties. *)

TypeOK ==
    /\ nego \in {"new", "offered", "answering", "start", "stored", "started"}
    /\ local_sdp \in BOOLEAN /\ remote_sdp \in BOOLEAN
    /\ localLines \subseteq Medias \X Streams \X (1 .. MaxLocal)
    /\ told \subseteq Medias \X Streams \X (1 .. MaxLocal)
    /\ remoteLines \subseteq Medias \X Remote
    /\ defaults \subseteq Medias \ Inactive
    /\ gather_started \in BOOLEAN
    /\ remote_candidates \in Seq(Remote)
    /\ agent \subseteq Streams \X Remote
    /\ gathering \in [Streams -> {"idle", "running", "ended"}]
    /\ found \in [Streams -> 0 .. MaxLocal]
    /\ ice_gathering_done \subseteq Streams
    /\ caller = Away \/ caller \subseteq Streams
    /\ failed \in BOOLEAN /\ gathers \in 0 .. MaxGathers
    /\ loop \in [lines : SUBSET (Medias \X Streams \X (1 .. MaxLocal)), done : BOOLEAN]
    /\ doneTold \in Nat

Negotiated == nego \in {"stored", "started"}

(* However the calls of the application, the negotiation and the gathering  *)
(* fall, no remote candidate is left in the list alone: once the session is *)
(* negotiated and gathers, the agent has each one of an active medium that  *)
(* it accepts, unless one stored before it is refused (the stored ones are  *)
(* given up to the first refusal), and the remote SDP shows each one.       *)
CandidatesKept ==
    /\ Negotiated /\ gather_started =>
         \A i \in DOMAIN remote_candidates :
             \/ Given(remote_candidates[i], TRUE) \subseteq agent
             \/ \E j \in 1 .. i - 1 : FALSE \in Answers(remote_candidates[j], TRUE)
    /\ nego = "started" => \A c \in Stored : Line(c) \subseteq remoteLines

(* The end of the gathering is told once, and last: no candidate is found   *)
(* or told after it, and the media have their default address, up to the    *)
(* first one whose address has the wrong IP version.                        *)
DoneIsLast ==
    doneTold > 0 =>
        /\ doneTold = 1
        /\ \A s \in Conns :
             /\ gathering[s] = "ended"
             /\ \A n \in 1 .. found[s] : Announcements(s, n) \subseteq told
        /\ \A m \in Medias \ Inactive :
             \/ m \in defaults
             \/ \E f \in 0 .. m : f \notin Inactive /\ StreamOf[f] \in OtherFamily

(* A gathering that has begun is reported to its end, unless a connection   *)
(* was made after the call and nobody has called again.                     *)
GatheringIsTold ==
    (gather_started /\ \E s \in Streams : gathering[s] # "idle")
        ~> (doneTold > 0 \/ \E s \in Conns : gathering[s] = "idle")

===================================================================================
