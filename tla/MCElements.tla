------------------------------- MODULE MCElements -------------------------------
(***************************************************************************)
(* The elements without a run of their own for the model checker: the      *)
(* style composite mixer, the alpha blending mixer, the hubs that only     *)
(* route, and the RTP endpoint.  They are explored one at a time           *)
(* ("element"), the variables of the others stay idle, and the two mixers  *)
(* share those of their ports.                                             *)
(***************************************************************************)
EXTENDS RoutingHubs

CONSTANTS MixerPorts, ViewCount, MaxUnmapped, Ids, StyleChanges, Default, Widths, Parts, Unit,
    AlphaChanges, UdpPorts, Privileged, Suites, Offers, Ranges, MaxOthers, MaxLimits

VARIABLES
    element,
    ports, input, eos_managed, padEos, elements, idles, n_elems, changes,
    bitrate, viewId, views, place, overlay, call, stale,
    caps, master_port, output_width, wanted, drawn,
    crypto, master, range, taken, others, role, at, stage, search, keys, announced,
    port, peerKeys, conn, stream, limits, told

Style == INSTANCE StyleComposite WITH MaxPorts <- MixerPorts, MaxChanges <- StyleChanges
Alpha == INSTANCE AlphaBlending WITH MaxPorts <- MixerPorts, MaxChanges <- AlphaChanges

\* What a peer may offer or answer, and the ranges of ports: with an even and an odd
\* beginning, with too few ports, without an end, and with all of them.
Offer(tag, suite) == [tag |-> tag, suite |-> suite]
PeerOffers == { <<>>, <<Offer(1, 1)>>, <<Offer(2, 1)>>, <<Offer(1, 2)>>,
                <<Offer(2, 2), Offer(1, 1)>> }
Small == <<6, 9>>
All == <<0, 0>>
Endless == <<7, 0>>
PortRanges == {Small, <<6, 12>>, <<5, 10>>, <<7, 7>>, Endless, All}

Rtp == INSTANCE RtpEndpoint WITH Ports <- UdpPorts, busy <- taken

ASSUME ConstantsAssumption == Style!ConstantsOK /\ Alpha!ConstantsOK /\ Rtp!ConstantsOK

portVars == <<ports, input, eos_managed, padEos, elements, idles, n_elems, changes>>
styleVars == <<bitrate, viewId, views, place, overlay, call, stale>>
alphaVars == <<caps, master_port, output_width, wanted, drawn>>
rtpVars == <<crypto, master, range, taken, others, role, at, stage, search, keys,
             announced, port, peerKeys, conn, stream, limits, told>>
all == <<element, vars, portVars, styleVars, alphaVars, rtpVars>>

PortsIdle ==
    /\ ports = None /\ input = None /\ eos_managed = None /\ padEos = None
    /\ elements = None /\ idles = None /\ n_elems = None /\ changes = None
StyleIdle ==
    /\ bitrate = None /\ viewId = None /\ views = None /\ place = None /\ overlay = None
    /\ call = None /\ stale = None
AlphaIdle ==
    /\ caps = None /\ master_port = None /\ output_width = None /\ wanted = None
    /\ drawn = None
RoutingIdle ==
    /\ kind = None /\ added = None /\ table = None /\ busy = None /\ adding = None
    /\ mutex = None /\ main_port = None /\ audio = None /\ video = None /\ mixed = None
    /\ crashed = None

RtpIdle ==
    /\ crypto = None /\ master = None /\ range = None /\ taken = None /\ others = None
    /\ role = None /\ at = None /\ stage = None /\ search = None /\ keys = None
    /\ announced = None /\ port = None /\ peerKeys = None /\ conn = None
    /\ stream = None /\ limits = None /\ told = None

\* The keys do not depend on which ports there are.
RtpInit ==
    /\ Rtp!Init
    /\ crypto # Rtp!NoSuite => range = Small /\ taken = {}
    /\ range \in {Endless, All} => taken \in {{}, Rtp!Lowest .. Rtp!Highest}

MCInit ==
    \/ element = "style" /\ Style!Init /\ AlphaIdle /\ RoutingIdle /\ RtpIdle
    \/ element = "alpha" /\ Alpha!Init /\ StyleIdle /\ RoutingIdle /\ RtpIdle
    \/ element = "routing" /\ Init /\ PortsIdle /\ StyleIdle /\ AlphaIdle /\ RtpIdle
    \/ element = "rtp" /\ RtpInit /\ PortsIdle /\ StyleIdle /\ AlphaIdle /\ RoutingIdle

MCNext ==
    \/ element = "style" /\ Style!Next /\ UNCHANGED <<element, vars, alphaVars, rtpVars>>
    \/ element = "alpha" /\ Alpha!Next /\ UNCHANGED <<element, vars, styleVars, rtpVars>>
    \/ /\ element = "routing" /\ Next
       /\ UNCHANGED <<element, portVars, styleVars, alphaVars, rtpVars>>
    \/ element = "rtp" /\ Rtp!Next /\ UNCHANGED <<element, vars, portVars, styleVars, alphaVars>>

MCSpec == MCInit /\ [][MCNext]_all

(* The type invariants. *)
Types ==
    /\ element = "style" => Style!TypeOK
    /\ element = "alpha" => Alpha!TypeOK
    /\ element = "routing" => TypeOK
    /\ element = "rtp" => Rtp!TypeOK

(* StyleComposite: one port per column, and the views that were asked for. *)
ViewsAsAsked == element = "style" => Style!ViewsAsAsked

(* AlphaBlending: all pictures are scaled to the one output, which one master fills. *)
OneSize == element = "alpha" => Alpha!OneSize

(* RoutingHubs: a port gets the media that were asked for, of ports that exist. *)
Routed == element = "routing" => RoutesAsAsked

(* RtpEndpoint: a search for ports leaves no free pair out, and the keys in use are *)
(* the ones that were announced for the medium.                                    *)
MediaReachable == element = "rtp" => Rtp!MediaReachable
=================================================================================
