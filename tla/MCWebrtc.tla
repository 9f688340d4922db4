-------------------------------- MODULE MCWebrtc --------------------------------
(***************************************************************************)
(* The WebRTC session for the model checker: two media in one bundle, an   *)
(* inactive one and a data medium, with remote candidates that the agent   *)
(* takes, refuses, or that are out of the SDP; and the data channels of a  *)
(* session with a stream of each side.  Trickle ICE and the channels meet  *)
(* only in single steps that take the SDP lock, so that the instance       *)
(* explores one or the other ("part").                                     *)
(***************************************************************************)
EXTENDS WebrtcSession

CONSTANTS bundle, data, OwnIds, PeerIds, MaxBins, MaxMessages, MaxCalls

TwoStreams == {bundle, data}
BundledAndData == [m \in 0 .. 3 |-> IF m = 3 THEN data ELSE bundle]

Candidate(index, accepted) == [index |-> index, accepted |-> accepted]
InSdp == {Candidate(0, TRUE), Candidate(1, TRUE)}
Candidates == InSdp \union {Candidate(3, TRUE), Candidate(1, FALSE), Candidate(4, TRUE)}

VARIABLES part, key, hook, attaching, sessions, made, id, state, data_channels, pad, pc,
          table, jobs, closing, sdp_mutex, mutex, call, calls, msgs, opened, closed

Channels == INSTANCE ChannelTable WITH Own <- OwnIds, Peers <- PeerIds

ASSUME ChannelsAssumption == Channels!ConstantsOK

channelVars ==
    <<key, hook, attaching, sessions, made, id, state, data_channels, pad, pc, table, jobs,
      closing, sdp_mutex, mutex, call, calls, msgs, opened, closed>>
all == <<part, vars, channelVars>>

MCInit == part \in {"ice", "channels"} /\ Init /\ Channels!Init

MCNext ==
    \/ part = "ice" /\ Next /\ UNCHANGED <<part, channelVars>>
    \/ part = "channels" /\ Channels!Next /\ UNCHANGED <<part, vars>>

MCSpec == MCInit /\ [][MCNext]_all /\ Fairness /\ Channels!Fairness

(* The type invariants of both parts. *)
Types == TypeOK /\ Channels!TypeOK

(* ChannelTable: no entry outlives its channel, no open channel lacks one.    *)
TableBacked == Channels!TableBacked

(* ChannelTable: a channel is told opened once, and closed only after that.   *)
ToldInOrder == Channels!ToldInOrder

(* ChannelTable: a call returns unless the two locks are crossed.             *)
CallsReturn == Channels!CallsReturn

(* ChannelTable: the data session is added, whenever the connection comes up. *)
SessionAdded == Channels!SessionAdded
=================================================================================
