------------------------------- MODULE WebrtcProofs -------------------------------
(***************************************************************************)
(* Theorems about a WebRTC session.  Of trickle ICE, for every set of      *)
(* media, streams and candidates and every number of calls: no remote      *)
(* candidate is left behind, and the end of the gathering is told once and *)
(* last.  Of the session with its data channels: what ChannelTableProofs   *)
(* shows of the table holds in the composed machine.                       *)
(***************************************************************************)
EXTENDS MCWebrtc, TLAPS

Table == INSTANCE ChannelTableProofs WITH Own <- OwnIds, Peers <- PeerIds

(* The local SDP is there from the offer, or the answer, on.                *)
Phase ==
    /\ nego \in {"new", "answering"} => ~local_sdp
    /\ nego \notin {"new", "answering"} => local_sdp

(* What a stream of the agent has done, and what the session knows of it.   *)
(* The caller and the agent only work on connections, which the local SDP   *)
(* has made; the loop has lines to tell only while a stream is running.     *)
Ends ==
    \A s \in Streams :
        /\ gathering[s] # "idle" => s \in Conns
        /\ gathering[s] = "idle" => found[s] = 0
        /\ gathering[s] = "ended" <=> s \in ice_gathering_done

Lines ==
    /\ \A s \in Streams : \A n \in 1 .. found[s] :
         Announcements(s, n) \subseteq told \union loop.lines
    /\ loop.lines # {} => \E s \in Streams : gathering[s] = "running"

Callers == caller # Away => caller \subseteq Conns

(* The end is told, or in the loop, exactly when all connections have ended. *)
Complete == local_sdp /\ Conns \subseteq ice_gathering_done
Fails == {m \in Medias \ Inactive : StreamOf[m] \in OtherFamily}

Once ==
    /\ loop.done => Complete
    /\ Complete /\ ~loop.done => doneTold = 1
    /\ ~Complete \/ loop.done => doneTold = 0

Defaults == Complete => defaults = {m \in Medias \ Inactive : \A f \in Fails : m < f}

IInv ==
    TypeOK /\ Phase /\ Ends /\ Lines /\ Callers /\ Once /\ Defaults /\ CandidatesKept

-----------------------------------------------------------------------------
(* The operators of the session. *)

(* A candidate that the agent refuses, or that is out of the SDP, is given  *)
(* to no stream.                                                            *)
LEMMA RefusedGetsNothing ==
    ASSUME NEW c, NEW started \in BOOLEAN, FALSE \in Answers(c, started)
    PROVE  Given(c, started) = {}
<1> SUFFICES ASSUME local_sdp, started, c.index \in Medias \ Inactive, c.accepted
             PROVE  FALSE
    BY DEF Given
<1>1. c.index \in Int /\ c.index < MediasLen
    BY ConstantsAssumption DEF Medias, MediasLen
<1>2. ~(c.index > MediasLen) /\ c.index # MediasLen /\ c.index \notin Inactive
    BY <1>1, ConstantsAssumption DEF MediasLen
<1>3. Answers(c, started) = {c.accepted}
    BY <1>2 DEF Answers
<1> QED  BY <1>3

(* What goes to the agent and into the SDPs. *)
LEMMA GivenType ==
    ASSUME NEW c \in Remote, NEW started \in BOOLEAN
    PROVE  Given(c, started) \subseteq Streams \X Remote
  BY ConstantsAssumption DEF Given

LEMMA LineType ==
    ASSUME NEW c \in Remote
    PROVE  Line(c) \subseteq Medias \X Remote
  BY DEF Line

LEMMA AnnouncementsType ==
    ASSUME NEW s \in Streams, NEW n \in 1 .. MaxLocal
    PROVE  Announcements(s, n) \subseteq Medias \X Streams \X (1 .. MaxLocal)
  BY DEF Announcements

(* add_stored_ice_candidates gives the agent each stored candidate up to    *)
(* the first one it refuses, and nothing that it had is lost.               *)
LEMMA StoredAreGiven ==
    ASSUME NEW started \in BOOLEAN, AddStored(started), remote_candidates \in Seq(Remote)
    PROVE  /\ agent \subseteq agent'
           /\ agent \subseteq Streams \X Remote => agent' \subseteq Streams \X Remote
           /\ \A i \in DOMAIN remote_candidates :
                \/ Given(remote_candidates[i], started) \subseteq agent'
                \/ \E j \in 1 .. i - 1 : FALSE \in Answers(remote_candidates[j], started)
<1>1. PICK k \in 0 .. Len(remote_candidates) :
        /\ k < Len(remote_candidates) => FALSE \in Answers(remote_candidates[k + 1], started)
        /\ agent' = agent \union UNION {Given(remote_candidates[i], started) : i \in 1 .. k}
    BY DEF AddStored
<1>2. agent \subseteq agent'
    BY <1>1
<1>3. ASSUME agent \subseteq Streams \X Remote
      PROVE  agent' \subseteq Streams \X Remote
  <2>1. \A i \in 1 .. k : Given(remote_candidates[i], started) \subseteq Streams \X Remote
    BY GivenType
  <2> QED  BY <1>1, <1>3, <2>1
<1>4. DOMAIN remote_candidates = 1 .. Len(remote_candidates) /\ Len(remote_candidates) \in Nat
    OBVIOUS
<1>5. ASSUME NEW i \in DOMAIN remote_candidates
      PROVE  \/ Given(remote_candidates[i], started) \subseteq agent'
             \/ \E j \in 1 .. i - 1 : FALSE \in Answers(remote_candidates[j], started)
  <2>1. CASE i <= k
    <3>1. i \in 1 .. k
      BY <1>4, <2>1
    <3>2. Given(remote_candidates[i], started) \subseteq agent'
      BY <1>1, <3>1
    <3> QED  BY <3>2
  <2>2. CASE i = k + 1
    <3>1. k < Len(remote_candidates) /\ k + 1 = i
      BY <1>4, <2>2
    <3>2. FALSE \in Answers(remote_candidates[i], started)
      BY <1>1, <3>1
    <3>3. Given(remote_candidates[i], started) = {}
      BY <3>2, RefusedGetsNothing
    <3> QED  BY <3>3
  <2>3. CASE i > k + 1
    <3>1. k < Len(remote_candidates) /\ k + 1 \in 1 .. i - 1
      BY <1>4, <2>3
    <3>2. FALSE \in Answers(remote_candidates[k + 1], started)
      BY <1>1, <3>1
    <3> QED  BY <3>1, <3>2
  <2>4. i <= k \/ i = k + 1 \/ i > k + 1
    BY <1>4
  <2> QED  BY <2>1, <2>2, <2>3, <2>4
<1> QED  BY <1>2, <1>3, <1>5

(* The connections stay, and so do the lines and the media of a candidate,  *)
(* unless an SDP is set.                                                    *)
LEMMA SameSdp ==
    ASSUME UNCHANGED local_sdp
    PROVE  /\ Conns' = Conns
           /\ \A s, n : Announcements(s, n)' = Announcements(s, n)
           /\ \A c, b : Given(c, b)' = Given(c, b) /\ Answers(c, b)' = Answers(c, b)
  BY DEF Conns, Announcements, Given, Answers

-----------------------------------------------------------------------------

LEMMA InitHolds == Init => IInv
<1> SUFFICES ASSUME Init PROVE IInv
    OBVIOUS
<1>1. TypeOK
  <2>1. /\ gathering \in [Streams -> {"idle", "running", "ended"}]
        /\ found \in [Streams -> 0 .. MaxLocal]
        /\ gathers \in 0 .. MaxGathers /\ doneTold \in Nat
    BY ConstantsAssumption DEF Init
  <2>2. loop \in [lines : SUBSET (Medias \X Streams \X (1 .. MaxLocal)), done : BOOLEAN]
    BY DEF Init, Quiet
  <2>3. remote_candidates \in Seq(Remote)
    BY DEF Init
  <2> QED  BY <2>1, <2>2, <2>3 DEF Init, TypeOK
<1>2. Phase /\ Ends /\ Lines /\ Callers
    BY DEF Init, Phase, Ends, Lines, Callers, Quiet, Away
<1>3. Once /\ Defaults /\ CandidatesKept
    BY DEF Init, Once, Defaults, Complete, CandidatesKept, Negotiated, Quiet
<1> QED  BY <1>1, <1>2, <1>3 DEF IInv

-----------------------------------------------------------------------------
(* Remote candidates and the negotiation. *)

Gathering == Ends /\ Lines /\ Callers /\ Once /\ Defaults

(* A step that leaves the connections and all that is gathered alone.       *)
LEMMA GatheringIsApart ==
    ASSUME Gathering, UNCHANGED <<local_sdp, defaults, localSide, gatherer, loop, app>>
    PROVE  Gathering'
<1>1. Conns' = Conns /\ \A s, n : Announcements(s, n)' = Announcements(s, n)
    BY SameSdp
<1> USE DEF Gathering, localSide, gatherer, app
<1>2. Ends' /\ Lines' /\ Callers'
    BY <1>1 DEF Ends, Lines, Callers
<1>3. Complete' = Complete
    BY <1>1 DEF Complete
<1>4. Once' /\ Defaults'
    BY <1>3 DEF Once, Defaults, Fails
<1> QED  BY <1>2, <1>4

(* addIceCandidate: the list, the agent and the SDP in one.                 *)
LEMMA AddKeeps ==
    ASSUME IInv, NEW c \in Remote, Add(c), UNCHANGED <<nego, local_sdp, remote_sdp, gather_started>>
    PROVE  /\ remote_candidates' \in Seq(Remote) /\ agent' \subseteq Streams \X Remote
           /\ remoteLines' \subseteq Medias \X Remote
           /\ CandidatesKept'
<1>1. /\ remote_candidates \in Seq(Remote) /\ remote_candidates' \in Seq(Remote)
      /\ remote_candidates' = Append(remote_candidates, c)
      /\ gather_started \in BOOLEAN
    BY DEF IInv, TypeOK, Add
<1>2. /\ agent' = agent \union Given(c, gather_started)
      /\ agent' \subseteq Streams \X Remote
    BY GivenType, <1>1 DEF IInv, TypeOK, Add
<1>3. /\ remoteLines' = remoteLines \union Line(c)
      /\ remoteLines' \subseteq Medias \X Remote
    BY LineType DEF IInv, TypeOK, Add
<1>4. /\ \A d, b : Given(d, b)' = Given(d, b) /\ Answers(d, b)' = Answers(d, b)
      /\ \A d : Line(d)' = Line(d)
    BY SameSdp DEF Line
<1>5. ASSUME Negotiated, gather_started, NEW i \in DOMAIN remote_candidates'
      PROVE  \/ Given(remote_candidates[i], TRUE)' \subseteq agent'
             \/ \E j \in 1 .. i - 1 : FALSE \in Answers(remote_candidates[j], TRUE)'
  <2>1. CASE i = Len(remote_candidates) + 1
    <3>1. remote_candidates'[i] = c /\ gather_started = TRUE
      BY <1>1, <1>5, <2>1
    <3>2. Given(remote_candidates'[i], TRUE) \subseteq agent'
      BY <1>2, <3>1
    <3> QED  BY <1>4, <3>2
  <2>2. CASE i # Len(remote_candidates) + 1
    <3>1. i \in DOMAIN remote_candidates
      BY <1>1, <1>5, <2>2
    <3>2. \A j \in 1 .. i : remote_candidates'[j] = remote_candidates[j]
      BY <1>1, <3>1
    <3>3. i \in 1 .. i
      BY <1>1, <3>1
    <3>4. CASE Given(remote_candidates[i], TRUE) \subseteq agent
      BY <1>2, <1>4, <3>2, <3>3, <3>4
    <3>5. ASSUME NEW j \in 1 .. i - 1, FALSE \in Answers(remote_candidates[j], TRUE)
          PROVE  FALSE \in Answers(remote_candidates[j], TRUE)'
      <4>1. j \in 1 .. i
        BY <1>1, <3>1, <3>5
      <4>2. remote_candidates'[j] = remote_candidates[j]
        BY <3>2, <4>1
      <4> QED  BY <1>4, <3>5, <4>2
    <3>6. \/ Given(remote_candidates[i], TRUE) \subseteq agent
          \/ \E j \in 1 .. i - 1 : FALSE \in Answers(remote_candidates[j], TRUE)
      BY <1>5, <3>1 DEF IInv, CandidatesKept
    <3> QED  BY <3>4, <3>5, <3>6
  <2> QED  BY <2>1, <2>2
<1>6. ASSUME nego = "started", NEW d \in Stored'
      PROVE  Line(d)' \subseteq remoteLines'
  <2>1. d = c \/ d \in Stored
    BY <1>1 DEF Stored
  <2>2. d \in Stored => Line(d) \subseteq remoteLines
    BY <1>6 DEF IInv, CandidatesKept
  <2> QED  BY <1>3, <1>4, <2>1, <2>2
<1>7. CandidatesKept'
    BY <1>5, <1>6 DEF CandidatesKept, Negotiated
<1> QED  BY <1>1, <1>2, <1>3, <1>7

LEMMA AddStep ==
    ASSUME IInv, (\E c \in Remote : AddIceCandidate(c)) \/ AddDescribed
    PROVE  IInv'
<1>1. PICK c \in Remote : Add(c)
    BY ConstantsAssumption DEF AddIceCandidate, AddDescribed, Usable
<1>2. UNCHANGED <<nego, local_sdp, remote_sdp, localLines, defaults, gather_started, localSide,
                  gatherer, loop, app>>
    BY DEF AddIceCandidate, AddDescribed
<1>3. TypeOK' /\ CandidatesKept'
    BY <1>1, <1>2, AddKeeps DEF IInv, TypeOK, localSide, gatherer, app
<1>4. Gathering'
    BY <1>2, GatheringIsApart DEF IInv, Gathering
<1> QED  BY <1>2, <1>3, <1>4 DEF IInv, Gathering, Phase

LEMMA StartStoredStep == ASSUME IInv, StartStored PROVE IInv'
<1> USE DEF sdp, remoteSide
<1>1. /\ remote_candidates \in Seq(Remote) /\ gather_started \in BOOLEAN
      /\ UNCHANGED <<local_sdp, defaults, gather_started, remote_candidates,
                     localSide, gatherer, loop, app>>
    BY DEF IInv, TypeOK, StartStored
<1>2. TypeOK'
    BY <1>1, StoredAreGiven DEF IInv, TypeOK, StartStored, localSide, gatherer, app
<1>3. Gathering'
    BY <1>1, GatheringIsApart DEF IInv, Gathering
<1>4. Phase'
    BY DEF IInv, Phase, StartStored
<1>5. CandidatesKept'
  <2>1. nego' # "started"
    BY DEF StartStored
  <2>2. ASSUME gather_started, NEW i \in DOMAIN remote_candidates
        PROVE  \/ Given(remote_candidates[i], TRUE) \subseteq agent'
               \/ \E j \in 1 .. i - 1 : FALSE \in Answers(remote_candidates[j], TRUE)
    <3>1. gather_started = TRUE
      BY <1>1, <2>2
    <3>2. AddStored(TRUE)
      BY <3>1 DEF StartStored
    <3> QED  BY <1>1, <3>2, StoredAreGiven
  <2>3. \A d, b : Given(d, b)' = Given(d, b) /\ Answers(d, b)' = Answers(d, b)
    BY <1>1, SameSdp
  <2> QED  BY <1>1, <2>1, <2>2, <2>3 DEF CandidatesKept
<1> QED  BY <1>2, <1>3, <1>4, <1>5 DEF IInv, Gathering

LEMMA StartLinesStep == ASSUME IInv, StartLines PROVE IInv'
<1> USE DEF remoteSide
<1>1. UNCHANGED <<local_sdp, remote_sdp, defaults, gather_started, remote_candidates, agent,
                  localSide, gatherer, loop, app>>
    BY DEF StartLines
<1>2. TypeOK'
  <2>1. \A c \in Stored : Line(c) \subseteq Medias \X Remote
    BY LineType DEF IInv, TypeOK, Stored
  <2>2. remoteLines' \subseteq Medias \X Remote
    BY <2>1 DEF IInv, TypeOK, StartLines
  <2> QED  BY <2>2 DEF IInv, TypeOK, StartLines, localSide, gatherer, app
<1>3. Gathering'
    BY <1>1, GatheringIsApart DEF IInv, Gathering
<1>4. Phase'
    BY DEF IInv, Phase, StartLines
<1>5. CandidatesKept'
  <2>1. /\ \A d, b : Given(d, b)' = Given(d, b) /\ Answers(d, b)' = Answers(d, b)
        /\ \A d : Line(d)' = Line(d)
        /\ Stored' = Stored
    BY <1>1, SameSdp DEF Line, Stored
  <2>2. \A c \in Stored : Line(c) \subseteq remoteLines'
    BY DEF StartLines
  <2>3. Negotiated
    BY DEF StartLines, Negotiated
  <2> QED  BY <1>1, <2>1, <2>2, <2>3 DEF IInv, CandidatesKept
<1> QED  BY <1>2, <1>3, <1>4, <1>5 DEF IInv, Gathering

(* Before the local SDP there is no connection, and nothing is gathered.    *)
LEMMA NothingYet ==
    ASSUME IInv, ~local_sdp
    PROVE  /\ \A s \in Streams : gathering[s] = "idle" /\ found[s] = 0
           /\ ice_gathering_done = {} /\ loop.lines = {} /\ loop.done = FALSE /\ doneTold = 0
<1>1. Conns = {} /\ ~Complete
    BY DEF Conns, Complete
<1>2. \A s \in Streams : gathering[s] = "idle" /\ found[s] = 0
    BY <1>1 DEF IInv, Ends
<1>3. ice_gathering_done = {} /\ loop.lines = {}
    BY <1>2 DEF IInv, TypeOK, Ends, Lines
<1>4. loop.done = FALSE /\ doneTold = 0
    BY <1>1 DEF IInv, TypeOK, Once
<1> QED  BY <1>2, <1>3, <1>4

(* generateOffer and processOffer, processAnswer, generateAnswer: there is  *)
(* no candidate list to keep before the session starts.                     *)
LEMMA NegotiateStep ==
    ASSUME IInv, GenerateOffer \/ GenerateAnswer
    PROVE  IInv'
<1> USE DEF remoteSide, localSide, gatherer, app
<1>1. /\ ~local_sdp /\ local_sdp' = TRUE /\ caller = Away
      /\ UNCHANGED <<remote_sdp, localLines, remoteLines, defaults, gather_started,
                     remoteSide, localSide, gatherer, loop, app>>
      /\ nego' \in {"offered", "start"}
    BY DEF IInv, Phase, GenerateOffer, GenerateAnswer, LockFree
<1>2. TypeOK'
    BY <1>1 DEF IInv, TypeOK
<1>3. Phase' /\ CandidatesKept'
    BY <1>1 DEF Phase, CandidatesKept, Negotiated
<1>4. ~Complete'
  <2>1. StreamOf[0] \in Conns'
    BY <1>1, ConstantsAssumption DEF Conns, Medias
  <2> QED  BY <1>1, <2>1, NothingYet DEF Complete
<1>5. Ends' /\ Lines' /\ Callers'
  <2>1. \A s \in Streams : gathering'[s] = "idle" /\ found'[s] = 0
    BY <1>1, NothingYet
  <2>2. ice_gathering_done' = {} /\ loop'.lines = {} /\ caller' = Away
    BY <1>1, NothingYet
  <2> QED  BY <2>1, <2>2 DEF Ends, Lines, Callers
<1>6. Once' /\ Defaults'
    BY <1>1, <1>4, NothingYet DEF Once, Defaults
<1> QED  BY <1>2, <1>3, <1>5, <1>6 DEF IInv

LEMMA ProcessStep ==
    ASSUME IInv, ProcessAnswer \/ ProcessOffer
    PROVE  IInv'
<1> USE DEF remoteSide, localSide, gatherer, app
<1>1. /\ UNCHANGED <<local_sdp, localLines, defaults, gather_started,
                     remoteSide, localSide, gatherer, loop, app>>
      /\ remote_sdp' = TRUE /\ remoteLines' = {<<c.index, c>> : c \in Described}
    BY DEF ProcessAnswer, ProcessOffer, SetRemote
<1>2. TypeOK'
  <2>1. remoteLines' \subseteq Medias \X Remote
    BY <1>1, ConstantsAssumption
  <2>2. nego' \in {"answering", "start"}
    BY DEF ProcessAnswer, ProcessOffer
  <2> QED  BY <1>1, <2>1, <2>2 DEF IInv, TypeOK
<1>3. Phase' /\ CandidatesKept'
    BY <1>1 DEF IInv, Phase, CandidatesKept, Negotiated, ProcessAnswer, ProcessOffer
<1>4. Gathering'
    BY <1>1, GatheringIsApart DEF IInv, Gathering
<1> QED  BY <1>2, <1>3, <1>4 DEF IInv, Gathering

-----------------------------------------------------------------------------
(* The gathering. *)

(* The remote side does not mind what is gathered. *)
LEMMA RemoteIsApart ==
    ASSUME IInv, UNCHANGED <<nego, local_sdp, remote_sdp, remoteLines, gather_started, remoteSide>>
    PROVE  Phase' /\ CandidatesKept'
<1>1. /\ \A d, b : Given(d, b)' = Given(d, b) /\ Answers(d, b)' = Answers(d, b)
      /\ \A d : Line(d)' = Line(d)
      /\ Stored' = Stored
    BY SameSdp DEF Line, Stored, remoteSide
<1> QED  BY <1>1 DEF IInv, Phase, CandidatesKept, Negotiated, remoteSide

(* The calls that start no stream. *)
LEMMA CallStep ==
    ASSUME IInv,
           GatherBegin \/ \E s \in Streams : GatherAgain(s) \/ GatherFails(s)
    PROVE  IInv'
<1> USE DEF sdp, remoteSide, localSide, app
<1>1. UNCHANGED <<nego, sdp, gather_started, remoteSide, localSide, loop, app>>
    BY DEF GatherBegin, GatherAgain, GatherFails
<1>2. Phase' /\ CandidatesKept'
    BY <1>1, RemoteIsApart
<1>3. Conns' = Conns /\ Conns \subseteq Streams
      /\ \A s, n : Announcements(s, n)' = Announcements(s, n)
    BY <1>1, SameSdp, ConstantsAssumption DEF Conns
<1>4. gathers' \in 0 .. MaxGathers
  <2>1. gathers \in 0 .. MaxGathers
    BY DEF IInv, TypeOK
  <2>2. gathers' = gathers \/ (gathers < MaxGathers /\ gathers' = gathers + 1)
    BY DEF GatherBegin, GatherAgain, GatherFails
  <2> QED  BY <2>1, <2>2, ConstantsAssumption
<1>5. failed' \in BOOLEAN
    BY DEF IInv, TypeOK, GatherBegin, GatherAgain, GatherFails
<1>6. Callers' /\ (caller' = Away \/ caller' \subseteq Streams)
  <2>1. CASE GatherBegin
    BY <1>3, <2>1 DEF Callers, GatherBegin
  <2>2. ASSUME NEW s \in Streams, GatherAgain(s) \/ GatherFails(s)
        PROVE  caller' \subseteq Conns
    BY <1>3, <2>2, ConstantsAssumption DEF IInv, Callers, GatherAgain, GatherFails, Away
  <2> QED  BY <1>3, <2>1, <2>2 DEF Callers
<1>7. TypeOK'
    BY <1>1, <1>4, <1>5, <1>6 DEF IInv, TypeOK
<1>8. Ends' /\ Lines'
    BY <1>1, <1>3 DEF IInv, Ends, Lines
<1>9. Once' /\ Defaults'
  <2>1. Complete' = Complete
    BY <1>1, <1>3 DEF Complete
  <2> QED  BY <1>1, <2>1 DEF IInv, Once, Defaults, Fails
<1> QED  BY <1>2, <1>6, <1>7, <1>8, <1>9 DEF IInv

LEMMA GatherEndStep == ASSUME IInv, GatherEnd PROVE IInv'
<1> USE DEF sdp, localSide, app
<1>1. UNCHANGED <<nego, sdp, remote_candidates, localSide, failed, gathers, loop, app>>
      /\ caller' = Away /\ remote_candidates \in Seq(Remote)
    BY DEF IInv, TypeOK, GatherEnd
<1>2. agent \subseteq Streams \X Remote /\ gather_started \in BOOLEAN /\ failed \in BOOLEAN
    BY DEF IInv, TypeOK
<1>3. \/ failed /\ UNCHANGED <<gather_started, agent>>
      \/ ~failed /\ gather_started' = TRUE /\ AddStored(TRUE)
    BY DEF GatherEnd
<1>4. /\ gather_started' \in BOOLEAN /\ agent' \subseteq Streams \X Remote
    BY <1>1, <1>2, <1>3, StoredAreGiven
<1>5. TypeOK'
    BY <1>1, <1>4 DEF IInv, TypeOK
<1>6. Gathering'
  <2>1. Conns' = Conns /\ \A s, n : Announcements(s, n)' = Announcements(s, n)
    BY <1>1, SameSdp
  <2>2. Complete' = Complete
    BY <1>1, <2>1 DEF Complete
  <2>3. Ends' /\ Lines' /\ Callers'
    BY <1>1, <2>1 DEF IInv, Ends, Lines, Callers
  <2>4. Once' /\ Defaults'
    BY <1>1, <2>2 DEF IInv, Once, Defaults, Fails
  <2> QED  BY <2>3, <2>4 DEF Gathering
<1>7. CandidatesKept'
  <2>1. CASE failed
    BY <1>1, <1>3, <2>1, RemoteIsApart DEF remoteSide
  <2>2. CASE ~failed
    <3>1. \A i \in DOMAIN remote_candidates :
            \/ Given(remote_candidates[i], TRUE) \subseteq agent'
            \/ \E j \in 1 .. i - 1 : FALSE \in Answers(remote_candidates[j], TRUE)
      BY <1>1, <1>3, <2>2, StoredAreGiven
    <3>2. /\ \A d, b : Given(d, b)' = Given(d, b) /\ Answers(d, b)' = Answers(d, b)
          /\ \A d : Line(d)' = Line(d)
          /\ Stored' = Stored
      BY <1>1, SameSdp DEF Line, Stored
    <3> QED  BY <1>1, <3>1, <3>2 DEF IInv, CandidatesKept
  <2> QED  BY <2>1, <2>2
<1> QED  BY <1>1, <1>5, <1>6, <1>7 DEF IInv, Gathering, Phase

(* The end of a stream: it was not over before, and it is over if this was  *)
(* the last connection.                                                     *)
LEMMA FinishEnds ==
    ASSUME IInv, NEW s \in Streams, Finish(s), s \in Conns, gathering[s] # "ended",
           UNCHANGED local_sdp
    PROVE  /\ ~Complete /\ Complete' = AllEnded(s) /\ Defaults'
           /\ gathering' \in [Streams -> {"idle", "running", "ended"}]
           /\ ice_gathering_done' \subseteq Streams /\ defaults' \subseteq Medias \ Inactive
           /\ \A t \in Streams : gathering'[t] = IF t = s THEN "ended" ELSE gathering[t]
           /\ \A t \in Streams : gathering'[t] = "ended" <=> t \in ice_gathering_done'
<1>1. /\ gathering \in [Streams -> {"idle", "running", "ended"}]
      /\ ice_gathering_done \subseteq Streams /\ defaults \subseteq Medias \ Inactive
    BY DEF IInv, TypeOK
<1>2. /\ gathering' = [gathering EXCEPT ![s] = "ended"]
      /\ ice_gathering_done' = ice_gathering_done \union {s}
      /\ defaults' = IF AllEnded(s) THEN {m \in Medias \ Inactive : \A f \in Fails : m < f}
                     ELSE defaults
    BY DEF Finish, Fails
<1>3. ~Complete
    BY DEF IInv, Ends, Complete
<1>4. Complete' = AllEnded(s)
  <2>1. Conns' = Conns /\ local_sdp
    BY SameSdp DEF Conns
  <2> QED  BY <1>2, <2>1 DEF Complete, AllEnded
<1>5. Defaults'
    BY <1>2, <1>4 DEF Defaults, Fails
<1>6. /\ gathering' \in [Streams -> {"idle", "running", "ended"}]
      /\ ice_gathering_done' \subseteq Streams
      /\ \A t \in Streams : gathering'[t] = IF t = s THEN "ended" ELSE gathering[t]
    BY <1>1, <1>2
<1>7. \A t \in Streams : gathering'[t] = "ended" <=> t \in ice_gathering_done'
    BY <1>2, <1>6 DEF IInv, Ends
<1>8. defaults' \subseteq Medias \ Inactive
    BY <1>1, <1>2
<1> QED  BY <1>3, <1>4, <1>5, <1>6, <1>7, <1>8

(* A stream starts: its first candidate, and maybe its end, is told at once. *)
LEMMA GatherStreamStep ==
    ASSUME IInv, NEW s \in Streams, GatherStream(s)
    PROVE  IInv'
<1> USE DEF remoteSide
<1>1. /\ UNCHANGED <<nego, local_sdp, remote_sdp, remoteLines, gather_started, remoteSide,
                     failed, gathers, loop>>
      /\ s \in caller /\ gathering[s] = "idle" /\ caller' = caller \ {s}
      /\ found' = [found EXCEPT ![s] = 1]
      /\ localLines' = localLines \union Announcements(s, 1)
      /\ told' = told \union Announcements(s, 1)
    BY DEF GatherStream
<1>2. /\ Conns' = Conns /\ Conns \subseteq Streams
      /\ \A t, n : Announcements(t, n)' = Announcements(t, n)
    BY <1>1, SameSdp, ConstantsAssumption DEF Conns
<1>3. caller # Away /\ caller \subseteq Conns /\ s \in Conns
    BY <1>1, ConstantsAssumption DEF IInv, Callers, Away
<1>4. Phase' /\ CandidatesKept'
    BY <1>1, RemoteIsApart
<1>5. Callers' /\ caller' \subseteq Streams
    BY <1>1, <1>2, <1>3 DEF Callers
<1>6. /\ gathering \in [Streams -> {"idle", "running", "ended"}]
      /\ found \in [Streams -> 0 .. MaxLocal] /\ found' \in [Streams -> 0 .. MaxLocal]
      /\ \A t \in Streams : found'[t] = IF t = s THEN 1 ELSE found[t]
    BY <1>1, ConstantsAssumption DEF IInv, TypeOK
<1>7. /\ localLines' \subseteq Medias \X Streams \X (1 .. MaxLocal)
      /\ told' \subseteq Medias \X Streams \X (1 .. MaxLocal)
  <2>1. 1 \in 1 .. MaxLocal
    BY ConstantsAssumption
  <2> QED  BY <1>1, <2>1, AnnouncementsType DEF IInv, TypeOK
<1>8. \A t \in Streams : \A n \in 1 .. found'[t] :
        Announcements(t, n)' \subseteq told' \union loop'.lines
  <2> SUFFICES ASSUME NEW t \in Streams, NEW n \in 1 .. found'[t]
               PROVE  Announcements(t, n) \subseteq told' \union loop.lines
    BY <1>1, <1>2
  <2>1. CASE t = s
    <3>1. n = 1
      BY <1>6, <2>1
    <3> QED  BY <1>1, <2>1, <3>1
  <2>2. CASE t # s
    <3>1. n \in 1 .. found[t]
      BY <1>6, <2>2
    <3> QED  BY <1>1, <3>1 DEF IInv, Lines
  <2> QED  BY <2>1, <2>2
<1>9. CASE /\ gathering' = [gathering EXCEPT ![s] = "running"]
           /\ UNCHANGED <<ice_gathering_done, defaults, doneTold>>
  <2>1. /\ gathering' \in [Streams -> {"idle", "running", "ended"}]
        /\ \A t \in Streams : gathering'[t] = IF t = s THEN "running" ELSE gathering[t]
    BY <1>6, <1>9
  <2>2. TypeOK'
    BY <1>1, <1>5, <1>6, <1>7, <1>9, <2>1 DEF IInv, TypeOK
  <2>3. Ends'
    <3>1. ASSUME NEW t \in Streams
          PROVE  /\ gathering'[t] # "idle" => t \in Conns'
                 /\ gathering'[t] = "idle" => found'[t] = 0
      BY <1>2, <1>3, <1>6, <2>1 DEF IInv, Ends
    <3>2. s \notin ice_gathering_done /\ ice_gathering_done' = ice_gathering_done
      BY <1>1, <1>9 DEF IInv, Ends
    <3>3. \A t \in Streams : gathering'[t] = "ended" <=> t \in ice_gathering_done'
      BY <2>1, <3>2 DEF IInv, Ends
    <3> QED  BY <3>1, <3>3 DEF Ends
  <2>4. Lines'
    BY <1>1, <1>8, <2>1 DEF IInv, Lines
  <2>5. Complete' = Complete
    BY <1>1, <1>2, <1>9 DEF Complete
  <2>6. Once' /\ Defaults'
    BY <1>1, <1>9, <2>5 DEF IInv, Once, Defaults, Fails
  <2> QED  BY <1>4, <1>5, <2>2, <2>3, <2>4, <2>6 DEF IInv
<1>10. CASE Finish(s) /\ doneTold' = IF AllEnded(s) THEN doneTold + 1 ELSE doneTold
  <2>1. /\ ~Complete /\ Complete' = AllEnded(s) /\ Defaults'
        /\ gathering' \in [Streams -> {"idle", "running", "ended"}]
        /\ ice_gathering_done' \subseteq Streams /\ defaults' \subseteq Medias \ Inactive
        /\ \A t \in Streams : gathering'[t] = IF t = s THEN "ended" ELSE gathering[t]
        /\ \A t \in Streams : gathering'[t] = "ended" <=> t \in ice_gathering_done'
    BY <1>1, <1>3, <1>10, FinishEnds
  <2>2. doneTold = 0 /\ ~loop.done
    BY <2>1 DEF IInv, Once
  <2>3. Once'
    BY <1>1, <1>10, <2>1, <2>2 DEF Once
  <2>4. doneTold' \in Nat
    BY <1>10, <2>2
  <2>5. TypeOK'
    BY <1>1, <1>5, <1>6, <1>7, <2>1, <2>4 DEF IInv, TypeOK
  <2>6. Ends'
    <3>1. ASSUME NEW t \in Streams
          PROVE  /\ gathering'[t] # "idle" => t \in Conns'
                 /\ gathering'[t] = "idle" => found'[t] = 0
      BY <1>2, <1>3, <1>6, <2>1 DEF IInv, Ends
    <3> QED  BY <2>1, <3>1 DEF Ends
  <2>7. Lines'
    BY <1>1, <1>8, <2>1 DEF IInv, Lines
  <2> QED  BY <1>4, <1>5, <2>1, <2>3, <2>5, <2>6, <2>7 DEF IInv
<1> QED  BY <1>9, <1>10 DEF GatherStream

(* The loop of the agent finds one more candidate. *)
LEMMA NewCandidateStep ==
    ASSUME IInv, NEW s \in Streams, NewCandidate(s)
    PROVE  IInv'
<1> USE DEF remoteSide, gatherer, app
<1>1. /\ UNCHANGED <<nego, local_sdp, remote_sdp, remoteLines, defaults, gather_started,
                     remoteSide, gathering, ice_gathering_done, gatherer, app>>
      /\ loop = Quiet /\ gathering[s] = "running" /\ found[s] < MaxLocal
      /\ found' = [found EXCEPT ![s] = found[s] + 1]
      /\ localLines' = localLines \union Announcements(s, found[s] + 1)
      /\ loop' = [Quiet EXCEPT !.lines = Announcements(s, found[s] + 1)]
    BY DEF NewCandidate
<1>2. /\ Conns' = Conns /\ \A t, n : Announcements(t, n)' = Announcements(t, n)
    BY <1>1, SameSdp
<1>3. Phase' /\ CandidatesKept'
    BY <1>1, RemoteIsApart
<1>4. /\ loop.lines = {} /\ loop.done = FALSE /\ loop'.done = FALSE
      /\ loop'.lines = Announcements(s, found[s] + 1)
      /\ loop' = [lines |-> Announcements(s, found[s] + 1), done |-> FALSE]
    BY <1>1 DEF Quiet
<1>5. /\ found \in [Streams -> 0 .. MaxLocal] /\ found[s] + 1 \in 1 .. MaxLocal
    BY <1>1, ConstantsAssumption DEF IInv, TypeOK
<1>6. /\ found' \in [Streams -> 0 .. MaxLocal]
      /\ \A t \in Streams : found'[t] = IF t = s THEN found[s] + 1 ELSE found[t]
    BY <1>1, <1>5, ConstantsAssumption
<1>7. TypeOK'
  <2>1. Announcements(s, found[s] + 1) \subseteq Medias \X Streams \X (1 .. MaxLocal)
    BY <1>5, AnnouncementsType
  <2>2. localLines' \subseteq Medias \X Streams \X (1 .. MaxLocal)
    BY <1>1, <2>1 DEF IInv, TypeOK
  <2>3. loop' \in [lines : SUBSET (Medias \X Streams \X (1 .. MaxLocal)), done : BOOLEAN]
    BY <1>4, <2>1
  <2> QED  BY <1>1, <1>6, <2>2, <2>3 DEF IInv, TypeOK
<1>8. Ends' /\ Callers'
    BY <1>1, <1>2, <1>5, <1>6 DEF IInv, Ends, Callers
<1>9. Lines'
  <2>1. ASSUME NEW t \in Streams, NEW n \in 1 .. found'[t]
        PROVE  Announcements(t, n)' \subseteq told' \union loop'.lines
    <3>1. CASE t = s /\ n = found[s] + 1
      BY <1>2, <1>4, <3>1
    <3>2. CASE ~(t = s /\ n = found[s] + 1)
      <4>1. n \in 1 .. found[t]
        BY <1>5, <1>6, <3>2
      <4> QED  BY <1>1, <1>2, <1>4, <4>1 DEF IInv, Lines
    <3> QED  BY <3>1, <3>2
  <2> QED  BY <1>1, <2>1 DEF Lines
<1>10. Once' /\ Defaults'
  <2>1. Complete' = Complete
    BY <1>1, <1>2 DEF Complete
  <2> QED  BY <1>1, <1>4, <2>1 DEF IInv, Once, Defaults, Fails
<1> QED  BY <1>3, <1>7, <1>8, <1>9, <1>10 DEF IInv

(* The loop of the agent ends a stream. *)
LEMMA StreamEndsStep ==
    ASSUME IInv, NEW s \in Streams, StreamEnds(s)
    PROVE  IInv'
<1> USE DEF remoteSide, gatherer, app
<1>1. /\ UNCHANGED <<nego, local_sdp, remote_sdp, localLines, remoteLines, gather_started,
                     remoteSide, found, gatherer, app>>
      /\ loop = Quiet /\ gathering[s] = "running" /\ Finish(s)
      /\ loop' = [Quiet EXCEPT !.done = AllEnded(s)]
    BY DEF StreamEnds
<1>2. /\ Conns' = Conns /\ \A t, n : Announcements(t, n)' = Announcements(t, n)
    BY <1>1, SameSdp
<1>3. Phase' /\ CandidatesKept'
    BY <1>1, RemoteIsApart
<1>4. s \in Conns
    BY <1>1 DEF IInv, Ends
<1>5. /\ ~Complete /\ Complete' = AllEnded(s) /\ Defaults'
      /\ gathering' \in [Streams -> {"idle", "running", "ended"}]
      /\ ice_gathering_done' \subseteq Streams /\ defaults' \subseteq Medias \ Inactive
      /\ \A t \in Streams : gathering'[t] = IF t = s THEN "ended" ELSE gathering[t]
      /\ \A t \in Streams : gathering'[t] = "ended" <=> t \in ice_gathering_done'
    BY <1>1, <1>4, FinishEnds
<1>6. loop'.lines = {} /\ loop.lines = {} /\ loop'.done = AllEnded(s) /\ loop.done = FALSE
    BY <1>1 DEF Quiet
<1>7. TypeOK'
  <2>1. AllEnded(s) \in BOOLEAN
    BY DEF AllEnded
  <2>2. loop' \in [lines : SUBSET (Medias \X Streams \X (1 .. MaxLocal)), done : BOOLEAN]
    BY <1>1, <2>1 DEF Quiet
  <2> QED  BY <1>1, <1>5, <2>2 DEF IInv, TypeOK
<1>8. Ends' /\ Callers'
    BY <1>1, <1>2, <1>4, <1>5 DEF IInv, Ends, Callers
<1>9. Lines'
    BY <1>1, <1>2, <1>6 DEF IInv, Lines
<1>10. Once'
    BY <1>1, <1>5, <1>6 DEF IInv, Once
<1> QED  BY <1>3, <1>5, <1>7, <1>8, <1>9, <1>10 DEF IInv

(* The loop tells the application. *)
LEMMA TellStep == ASSUME IInv, Tell PROVE IInv'
<1> USE DEF sdp, remoteSide, localSide, gatherer
<1>1. /\ UNCHANGED <<nego, sdp, gather_started, remoteSide, localSide, gatherer>>
      /\ loop'.lines = {} /\ loop'.done = FALSE /\ told' = told \union loop.lines
    BY DEF Tell, Quiet
<1>2. /\ Conns' = Conns /\ \A t, n : Announcements(t, n)' = Announcements(t, n)
    BY <1>1, SameSdp
<1>3. Phase' /\ CandidatesKept'
    BY <1>1, RemoteIsApart
<1>4. Complete' = Complete
    BY <1>1, <1>2 DEF Complete
<1>5. /\ loop.done => Complete /\ doneTold = 0 /\ doneTold' = doneTold + 1
      /\ ~loop.done => doneTold' = doneTold
    BY DEF IInv, Once, Tell
<1>6. Once' /\ Defaults' /\ doneTold' \in Nat
  <2>1. Once'
    BY <1>1, <1>4, <1>5 DEF IInv, Once
  <2>2. doneTold' \in Nat
    BY <1>5 DEF IInv, TypeOK
  <2>3. Defaults'
    BY <1>1, <1>4 DEF IInv, Defaults, Fails
  <2> QED  BY <2>1, <2>2, <2>3
<1>7. TypeOK'
  <2>1. loop' \in [lines : SUBSET (Medias \X Streams \X (1 .. MaxLocal)), done : BOOLEAN]
    BY DEF Tell, Quiet
  <2>2. told' \subseteq Medias \X Streams \X (1 .. MaxLocal)
    BY <1>1 DEF IInv, TypeOK
  <2> QED  BY <1>1, <1>6, <2>1, <2>2 DEF IInv, TypeOK
<1>8. Ends' /\ Lines' /\ Callers'
    BY <1>1, <1>2 DEF IInv, Ends, Lines, Callers
<1> QED  BY <1>3, <1>6, <1>7, <1>8 DEF IInv

LEMMA Stutters == ASSUME IInv, UNCHANGED vars PROVE IInv'
<1> USE DEF vars, sdp, remoteSide, localSide, gatherer, app
<1>1. TypeOK'
    BY DEF IInv, TypeOK
<1>2. Phase' /\ CandidatesKept'
    BY RemoteIsApart
<1>3. Gathering'
    BY GatheringIsApart DEF IInv, Gathering
<1> QED  BY <1>1, <1>2, <1>3 DEF IInv, Gathering

-----------------------------------------------------------------------------

LEMMA StepHolds == IInv /\ [Next]_vars => IInv'
  BY AddStep, StartStoredStep, StartLinesStep, NegotiateStep, ProcessStep, CallStep,
     GatherEndStep, GatherStreamStep, NewCandidateStep, StreamEndsStep, TellStep, Stutters
     DEF Next

(* What the negotiation, the gathering and the loop know of the session     *)
(* agrees in every state, however the threads of kmswebrtcsession.c fall.   *)
THEOREM InductiveInvariant == Spec => []IInv
  BY InitHolds, StepHolds, PTL DEF Spec

(* The variables keep their types: the lines name media, streams and        *)
(* candidates that there are, and no stream passes its bound.               *)
THEOREM TypeInvariant == Spec => []TypeOK
<1>1. IInv => TypeOK
    BY DEF IInv
<1> QED  BY <1>1, InductiveInvariant, PTL

(* A remote candidate that addIceCandidate stores reaches the agent and the *)
(* remote SDP, by itself, with the negotiation or with the gathering: none  *)
(* falls between start_transport_send and gather_candidates.                *)
THEOREM NoCandidateIsLost == Spec => []CandidatesKept
<1>1. IInv => CandidatesKept
    BY DEF IInv
<1> QED  BY <1>1, InductiveInvariant, PTL

LEMMA DoneIsKnown == IInv => DoneIsLast
<1> SUFFICES ASSUME IInv, doneTold > 0
             PROVE  /\ doneTold = 1
                    /\ \A s \in Conns :
                         /\ gathering[s] = "ended"
                         /\ \A n \in 1 .. found[s] : Announcements(s, n) \subseteq told
                    /\ \A m \in Medias \ Inactive :
                         \/ m \in defaults
                         \/ \E f \in 0 .. m : f \notin Inactive /\ StreamOf[f] \in OtherFamily
    BY DEF DoneIsLast
<1>1. Complete /\ ~loop.done /\ doneTold = 1
  <2>1. doneTold # 0
    OBVIOUS
  <2> QED  BY <2>1 DEF IInv, Once
<1>2. Conns \subseteq Streams /\ \A s \in Conns : gathering[s] = "ended"
    BY <1>1, ConstantsAssumption DEF IInv, TypeOK, Ends, Complete
<1>3. \A s \in Streams : gathering[s] # "running"
    BY <1>2 DEF IInv, Ends
<1>4. \A s \in Conns : \A n \in 1 .. found[s] : Announcements(s, n) \subseteq told
    BY <1>2, <1>3 DEF IInv, Lines
<1>5. ASSUME NEW m \in Medias \ Inactive, m \notin defaults
      PROVE  \E f \in 0 .. m : f \notin Inactive /\ StreamOf[f] \in OtherFamily
  <2>1. PICK f \in Fails : ~(m < f)
    BY <1>1, <1>5 DEF IInv, Defaults
  <2>2. f \in 0 .. m
    BY <2>1, ConstantsAssumption DEF Fails, Medias
  <2> QED  BY <2>1, <2>2 DEF Fails
<1> QED  BY <1>1, <1>2, <1>4, <1>5

(* OnIceGatheringDone is told once, when all connections have ended, with   *)
(* their candidates told before it and the default addresses in the SDP,    *)
(* although the caller and the loop can each end the last stream.           *)
THEOREM EndIsToldLast == Spec => []DoneIsLast
  BY InductiveInvariant, DoneIsKnown, PTL

-----------------------------------------------------------------------------
(* The session with its data channels. *)

(* The table that ChannelTableProofs is about is the one of the machine.    *)
LEMMA SameInit == Channels!ConstantsOK /\ Channels!Init => Table!ConstantsOK /\ Table!Init
  BY DEF Channels!ConstantsOK, Table!ConstantsOK, Channels!Init, Table!Init,
         Channels!StreamIds, Table!StreamIds, Channels!Bins, Table!Bins, Channels!NoBin,
         Table!NoBin, Channels!Free, Table!Free, Channels!App, Table!App, Channels!Idle,
         Table!Idle

LEMMA SameNext == Channels!Next \/ UNCHANGED channelVars => [Table!Next]_(Table!vars)
<1> USE DEF Channels!StreamIds, Table!StreamIds, Channels!Bins, Table!Bins, Channels!NoBin,
            Table!NoBin, Channels!Free, Table!Free, Channels!App, Table!App, Channels!Idle,
            Table!Idle, Channels!vars, Table!vars, Channels!hookup, Table!hookup,
            Channels!element, Table!element, Channels!bin, Table!bin, Channels!told, Table!told,
            Channels!locks, Table!locks, Channels!app, Table!app
<1>1. \A S : Channels!Cardinality(S) = Table!Cardinality(S)
    BY DEF Channels!Cardinality, Table!Cardinality
<1>2. \A i : Channels!OpenedCb(i) => Table!OpenedCb(i)
    BY <1>1 DEF Channels!OpenedCb, Table!OpenedCb, Channels!Entries, Table!Entries,
                Channels!MAX_DATA_CHANNELS, Table!MAX_DATA_CHANNELS
<1>3. Channels!Next => Table!Next
    BY <1>2
    DEF Channels!CreateSession, Table!CreateSession, Channels!ConnectHandler,
        Table!ConnectHandler, Channels!AskConnected, Table!AskConnected, Channels!KeySet,
        Table!KeySet, Channels!Connected, Table!Connected, Channels!AddDataSession,
        Table!AddDataSession, Channels!Call, Table!Call, Channels!CallLocks, Table!CallLocks,
        Channels!NewElement, Table!NewElement, Channels!Return, Table!Return, Channels!Create,
        Table!Create, Channels!Reset, Table!Reset, Channels!Destroy, Table!Destroy,
        Channels!SctpThreadFree, Table!SctpThreadFree, Channels!PadAdded, Table!PadAdded,
        Channels!Negotiate, Table!Negotiate, Channels!NegotiatedCb, Table!NegotiatedCb,
        Channels!Reject, Table!Reject, Channels!Insert, Table!Insert, Channels!EmitOpened,
        Table!EmitOpened, Channels!ResetStream, Table!ResetStream, Channels!PadRemoved,
        Table!PadRemoved, Channels!WorkerRemoves, Table!WorkerRemoves, Channels!PeerResets,
        Table!PeerResets, Channels!ClosedCb, Table!ClosedCb, Channels!EmitClosed,
        Table!EmitClosed, Channels!Hookup, Table!Hookup, Channels!Stream, Table!Stream,
        Channels!Next, Table!Next
<1>4. UNCHANGED channelVars => UNCHANGED Table!vars
    BY DEF channelVars
<1> QED  BY <1>3, <1>4

LEMMA SameProperties ==
    /\ Table!TypeOK => Channels!TypeOK
    /\ Table!TableBacked => TableBacked
    /\ Table!ToldInOrder => ToldInOrder
  BY DEF TableBacked, ToldInOrder, Channels!TypeOK, Table!TypeOK, Channels!TableBacked,
         Table!TableBacked, Channels!ToldInOrder, Table!ToldInOrder,
         Channels!StreamIds, Table!StreamIds, Channels!Bins, Table!Bins, Channels!NoBin,
         Table!NoBin, Channels!Free, Table!Free, Channels!App, Table!App, Channels!Idle,
         Table!Idle

MCInv == IInv /\ Table!ChannelInv

LEMMA MCInitHolds == MCInit => MCInv
<1>1. MCInit => Table!ConstantsOK /\ Table!Init
    BY SameInit, ChannelsAssumption DEF MCInit
<1> QED  BY <1>1, InitHolds, Table!ChannelInit DEF MCInit, MCInv

LEMMA MCStepHolds == MCInv /\ [MCNext]_all => MCInv'
<1> SUFFICES ASSUME MCInv, [MCNext]_all PROVE MCInv'
    OBVIOUS
<1>1. [Next]_vars
    BY DEF MCNext, all
<1>2. Channels!Next \/ UNCHANGED channelVars
    BY DEF MCNext, all
<1>3. [Table!Next]_(Table!vars)
    BY <1>2, SameNext
<1> QED  BY <1>1, <1>3, StepHolds, Table!ChannelStep DEF MCInv

(* Both parts of the session, ICE and the table of its data channels, keep  *)
(* their invariants when they run as one machine.                           *)
THEOREM MCInductiveInvariant == MCSpec => []MCInv
  BY MCInitHolds, MCStepHolds, PTL DEF MCSpec

(* The variables of both parts keep their types.                            *)
THEOREM MCTypeInvariant == MCSpec => []Types
<1>1. MCInv => Types
    BY Table!ChannelTyped, SameProperties DEF MCInv, IInv, Types
<1> QED  BY <1>1, MCInductiveInvariant, PTL

(* An entry of the table of kmswebrtcsession.c is the channel of its pad,   *)
(* or one whose closed callback is on its way, and no open channel is       *)
(* without entry: the one place of the table is not blocked by a channel    *)
(* that is gone.                                                            *)
THEOREM TableIsBacked == MCSpec => []TableBacked
<1>1. MCInv => TableBacked
    BY Table!EntriesAreBacked, SameProperties DEF MCInv
<1> QED  BY <1>1, MCInductiveInvariant, PTL

(* data-channel-opened comes once for a channel and before                  *)
(* data-channel-closed, and a channel that was told opened stays in the     *)
(* table until its closed callback has it.                                  *)
THEOREM ChannelsAreToldInOrder == MCSpec => []ToldInOrder
<1>1. MCInv => ToldInOrder
    BY Table!ToldAreInOrder, SameProperties DEF MCInv
<1> QED  BY <1>1, MCInductiveInvariant, PTL

===================================================================================
