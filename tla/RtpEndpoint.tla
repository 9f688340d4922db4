------------------------------- MODULE RtpEndpoint -------------------------------
(***************************************************************************)
(* An RTP endpoint (kmsrtpendpoint.c, its object RtpEndpointImpl.cpp): the *)
(* search for a pair of UDP ports of each of its connections               *)
(* (kmssocketutils.c), the SDES keys of their media, negotiated with the   *)
(* SDP, and the connections that encrypt and decrypt with them             *)
(* (kmssrtpconnection.c; kmsrtpconnection.c when there are none).          *)
(*                                                                         *)
(* Threads.  One application thread negotiates: the SDP agent of kms-core, *)
(* which is not in the repository, calls the endpoint for one medium after *)
(* the other, first for its keys, then to configure it.  Other processes   *)
(* take and free ports meanwhile, and the streaming threads ask for keys.  *)
(*                                                                         *)
(* The peer is arbitrary in the keys it offers or answers with.  Ports     *)
(* have a word of their own size, in which the search wraps.               *)
(***************************************************************************)
EXTENDS Integers, Sequences, FiniteSets

CONSTANTS
    Ports,        \* 2^16 in the code: the ports are 0 .. Ports - 1
    Privileged,   \* 1024 in the code: no port up to it can be opened
    Suites,       \* the crypto suites
    Offers,       \* what a peer may offer for a medium: sequences of [tag, suite]
    Ranges,       \* the values of [min, max]
    MaxOthers,    \* bound: ports that others take or free in a negotiation
    MaxLimits     \* bound: soft limits reached

\* What the code's types give: ports are of the word, suites and tags are numbers.
ConstantsOK ==
    /\ Ports \in Nat /\ Ports > 1 /\ Privileged \in Nat
    /\ Suites \subseteq Nat \ {0}
    /\ Offers \subseteq Seq([tag : Nat, suite : Nat])
    /\ Ranges \subseteq (0 .. Ports - 1) \X (0 .. Ports - 1)

Media == <<"audio", "video">>
Index == DOMAIN Media
DefaultTag == 1

\* What is not there: a suite, a master key, a key of the SDP, a key in use.
NoSuite == 0
NoMaster == <<>>
NoKey == [key |-> <<>>, tag |-> 0, suite |-> NoSuite]
NotUsed == [key |-> <<>>, suite |-> NoSuite]
NoKeys == [local |-> NoKey, remote |-> NoKey]

VARIABLES
    crypto, master,   \* the suite, or NoSuite, and the master key once there is one
    range,            \* min-port and max-port
    busy,             \* ports that others hold
    others,           \* how often they took or freed one
    role,             \* offerer or answerer, once a negotiation began
    at, stage,        \* the medium that is negotiated, and how far it is
    search,           \* the search for its ports
    keys,             \* sdes_keys: [local, remote] of a medium
    announced,        \* the key in the SDP of the endpoint
    port,             \* the port in it, 0 when the medium is refused
    peerKeys,         \* the keys in the SDP of the peer
    conn,             \* the connection of a medium
    stream,           \* the key the decryption of a medium began with
    limits, told      \* soft limits reached, and key-soft-limit signals

config == <<crypto, range>>
world == <<busy, others>>
sdp == <<announced, port, peerKeys>>
events == <<stream, limits, told>>
vars == <<config, master, world, role, at, stage, search, keys, sdp, conn, events>>

NoConn == [ports |-> {}, enc |-> NotUsed, dec |-> NotUsed, updated |-> FALSE,
           handlers |-> 0, remote |-> FALSE]
NoSearch == [start |-> 0, current |-> 0, first |-> {}, wrapped |-> FALSE, seen |-> {}]

\* The range that is searched.
Lowest == IF range[1] <= Privileged THEN Privileged + 1 ELSE range[1]
Highest == IF range[2] = 0 THEN Ports - 1 ELSE range[2]

\* RtpEndpointImpl: a key is given with its suite, whose size it must have, or none.
Init ==
    /\ crypto \in Suites \union {NoSuite}
    /\ master \in {NoMaster} \union {<<"user", s>> : s \in {crypto} \ {NoSuite}}
    /\ range \in Ranges
    /\ busy \in SUBSET (Lowest .. Highest)
    /\ others = 0
    /\ role = "none" /\ at = 1 /\ stage = "idle"
    /\ search = NoSearch
    /\ keys = [i \in Index |-> NoKeys]
    /\ announced = [i \in Index |-> NoKey]
    /\ port = [i \in Index |-> 0]
    /\ peerKeys = [i \in Index |-> <<>>]
    /\ conn = [i \in Index |-> NoConn]
    /\ stream = [i \in Index |-> NotUsed]
    /\ limits = 0 /\ told = 0

-----------------------------------------------------------------------------
(* The search for a pair of ports: kms_rtp_connection_get_rtp_rtcp_sockets. *)

Held == busy \union search.first \union UNION {conn[i].ports : i \in Index}
Opens(p) == p > Privileged /\ p \notin Held

Neighbour(p) == IF p % 2 = 1 THEN p - 1 ELSE p + 1
InRange(p) == p \in Lowest .. Highest

\* The pairs of the range, and those of them that are not free.
Pairs == {e \in Lowest .. Highest : e % 2 = 0 /\ InRange(e + 1)}
BusyPairs(held) == {e \in Pairs : {e, e + 1} \intersect held # {}}

\* The start is random.  A range of less than two ports has no pair.
SearchBegin ==
    /\ stage = "ports" /\ ~(Lowest + 1 > Highest)
    /\ stage' = "first"
    /\ \E p \in Lowest .. Highest :
          search' = [NoSearch EXCEPT !.start = p, !.current = p, !.seen = BusyPairs(Held)]
    /\ UNCHANGED <<config, master, world, role, at, keys, sdp, conn, events>>

SearchRefused ==
    /\ stage = "ports" /\ Lowest + 1 > Highest
    /\ stage' = "failed"
    /\ search' = [NoSearch EXCEPT !.seen = BusyPairs(Held)]
    /\ UNCHANGED <<config, master, world, role, at, keys, sdp, conn, events>>

\* inc_port, in a word of the ports' size: the next port, whether the search has
\* come back to the lowest one, and whether it is over.  (SkipLast, which ends it one
\* pair too early, is a mutant.)
SkipLast(p) ==
    LET next == (p + 2) % Ports
        wrapped == search.wrapped \/ next > Highest
        current == IF next > Highest THEN Lowest ELSE next
    IN /\ search' = [search EXCEPT !.current = current, !.wrapped = wrapped, !.first = {}]
       /\ stage' = IF wrapped /\ current + 3 >= search.start THEN "failed" ELSE "first"

IncPort(p) ==
    LET next == (p + 2) % Ports
        wrapped == search.wrapped \/ next > Highest
        current == IF next > Highest THEN Lowest ELSE next
    IN /\ search' = [search EXCEPT !.current = current, !.wrapped = wrapped, !.first = {}]
       /\ stage' = IF wrapped /\ current + 1 >= search.start THEN "failed" ELSE "first"

\* The first socket of a pair: port 0 stands for any free port.
OpenFirst ==
    /\ stage = "first"
    /\ LET possible == IF search.current = 0
                       THEN {p \in 0 .. Ports - 1 : Opens(p)}
                       ELSE {p \in {search.current} : Opens(p)}
       IN \/ possible = {} /\ IncPort(search.current)
          \/ \E p \in possible :
                IF InRange(Neighbour(p))
                THEN /\ stage' = "second"
                     /\ search' = [search EXCEPT !.first = {p}, !.current = p]
                ELSE IncPort(p)
    /\ UNCHANGED <<config, master, world, role, at, keys, sdp, conn, events>>

\* kms_rtp_connection_new: the connection has the sockets, and nowhere to send yet.
NewConnection(ports) == [NoConn EXCEPT !.ports = ports]

\* The second one.  With both, the connection is made.
OpenSecond ==
    /\ stage = "second"
    /\ IF Opens(Neighbour(search.current))
       THEN /\ conn' = [conn EXCEPT ![at] =
                            NewConnection({search.current, Neighbour(search.current)})]
            /\ stage' = "found" /\ search' = NoSearch
       ELSE IncPort(search.current) /\ UNCHANGED conn
    /\ UNCHANGED <<config, master, world, role, at, keys, sdp, events>>

\* Other processes.
Searching == stage \in {"first", "second"}

OtherTakes(p) ==
    /\ Searching /\ others < MaxOthers
    /\ Opens(p) /\ InRange(p)
    /\ busy' = busy \union {p} /\ others' = others + 1
    /\ search' = [search EXCEPT !.seen = @ \union BusyPairs({p})]
    /\ UNCHANGED <<config, master, role, at, stage, keys, sdp, conn, events>>

OtherFrees(p) ==
    /\ Searching /\ others < MaxOthers
    /\ p \in busy
    /\ busy' = busy \ {p} /\ others' = others + 1
    /\ UNCHANGED <<config, master, role, at, stage, search, keys, sdp, conn, events>>

-----------------------------------------------------------------------------
(* Keys.  A key of a peer is told by its medium and its place in the SDP. *)

Key(k, tag, suite) == [key |-> k, tag |-> tag, suite |-> suite]
Use(k) == [key |-> k.key, suite |-> k.suite]

\* Only handlers with the SDES extension look at the keys of an SDP.
KeysOfPeer(i, offered) ==
    [n \in DOMAIN offered |-> Key(<<"peer", i, n>>, offered[n].tag, offered[n].suite)]

\* generate_random_key: the system call gives up if it would wait or after three
\* times, and the device if it has too little entropy; without both there is no key.
RandomKey == {NoMaster, <<"random", crypto>>}

\* kms_rtp_endpoint_create_new_key: one master key for all media, which the next
\* medium tries to make again if there is none.
MasterKey == IF master = NoMaster THEN RandomKey ELSE {master}

\* The SDP agent asks for the handlers of the media (create_media_handler), and the
\* negotiation begins.
Negotiate(r, offered) ==
    /\ stage = "idle"
    /\ role' = r /\ stage' = "keys"
    /\ keys' = [i \in Index |-> NoKeys]
    /\ peerKeys' = IF r = "answerer" /\ crypto # NoSuite
                   THEN [i \in Index |-> KeysOfPeer(i, offered[i])]
                   ELSE peerKeys
    /\ UNCHANGED <<config, master, world, at, search, announced, port, conn, events>>

\* kms_rtp_endpoint_on_offer_keys_cb.
OfferKeys ==
    /\ stage = "keys" /\ role = "offerer" /\ crypto # NoSuite
    /\ master' \in MasterKey
    /\ IF master' = NoMaster THEN UNCHANGED <<keys, announced>>
       ELSE LET key == Key(master', DefaultTag, crypto)
            IN /\ keys' = [keys EXCEPT ![at].local = key]
               /\ announced' = [announced EXCEPT ![at] = key]
    /\ stage' = "ports"
    /\ UNCHANGED <<config, world, role, at, search, port, peerKeys, conn, events>>

\* kms_rtp_endpoint_get_supported_key looks at the first key only, once per key.
Supported(offered) == offered # <<>> /\ offered[1].suite = crypto

\* kms_rtp_endpoint_on_answer_keys_cb: the answer has the tag of the offered key.
AnswerKeys ==
    /\ stage = "keys" /\ role = "answerer" /\ crypto # NoSuite
    /\ master' \in IF Supported(peerKeys[at]) THEN MasterKey ELSE {master}
    /\ IF Supported(peerKeys[at]) /\ master' # NoMaster
       THEN LET key == Key(master', peerKeys[at][1].tag, crypto)
            IN /\ keys' = [keys EXCEPT ![at] = [local |-> key, remote |-> peerKeys[at][1]]]
               /\ announced' = [announced EXCEPT ![at] = key]
       ELSE UNCHANGED <<keys, announced>>
    /\ stage' = "ports"
    /\ UNCHANGED <<config, world, role, at, search, port, peerKeys, conn, events>>

PlainMedia ==
    /\ stage = "keys" /\ crypto = NoSuite
    /\ stage' = "ports"
    /\ UNCHANGED <<config, master, world, role, at, search, keys, sdp, conn, events>>

\* kms_rtp_endpoint_set_remote_srtp_connection_key and kms_srtp_connection_set_key:
\* the key of the peer for connection c, if its tag and suite are those of ours.
\* (AnySuite, which takes the peer's key as it comes, is a mutant.)
SetKey(c, key) ==
    IF c.dec = Use(key) THEN c ELSE [c EXCEPT !.dec = Use(key), !.updated = TRUE]

AnySuite(c, k) ==
    IF k.local = NoKey \/ k.remote = NoKey THEN c ELSE SetKey(c, k.remote)

SetRemoteKey(c, k) ==
    IF \/ k.local = NoKey \/ k.remote = NoKey
       \/ k.local.tag # k.remote.tag \/ k.local.suite # k.remote.suite
    THEN c
    ELSE SetKey(c, k.remote)

\* kms_rtp_endpoint_configure_connection_keys.
ConfigureKeys(c, k) ==
    IF k.local = NoKey THEN c
    ELSE SetRemoteKey([c EXCEPT !.enc = Use(k.local)], k)

\* After a medium comes the next one; after the last the SDP of the peer is applied.
NextMedium ==
    IF at < Len(Media) THEN at' = at + 1 /\ stage' = "keys"
    ELSE at' = 1 /\ stage' = IF role = "offerer" THEN "offered" ELSE "transport"

\* kms_rtp_endpoint_get_connection follows the soft limit of the connection, every time
\* it is called.
FollowLimit(c) == IF crypto = NoSuite THEN c ELSE [c EXCEPT !.handlers = @ + 1]

\* kms_rtp_endpoint_configure_media, with a connection.
ConfigureMedia ==
    /\ stage = "found"
    /\ port' = [port EXCEPT ![at] = CHOOSE p \in conn[at].ports : p % 2 = 0]
    /\ conn' = [conn EXCEPT ![at] =
                  IF crypto = NoSuite THEN @ ELSE ConfigureKeys(FollowLimit(@), keys[at])]
    /\ NextMedium
    /\ UNCHANGED <<config, master, world, role, search, keys, announced, peerKeys, events>>

\* Without one the medium is refused.
RefuseMedia ==
    /\ stage = "failed"
    /\ search' = NoSearch
    /\ NextMedium
    /\ UNCHANGED <<config, master, world, role, keys, sdp, conn, events>>

\* The answer of the peer: for each medium a key, or none.
ProcessAnswer(answers) ==
    /\ stage = "offered"
    /\ \A i \in Index : port[i] = 0 => answers[i] = <<>>
    /\ IF crypto = NoSuite
       THEN stage' = "transport" /\ UNCHANGED peerKeys
       ELSE /\ stage' = "select"
            /\ peerKeys' = [i \in Index |-> KeysOfPeer(i, answers[i])]
    /\ UNCHANGED <<config, master, world, role, at, search, keys, announced, port, conn, events>>

\* kms_rtp_endpoint_on_selected_key_cb, for each key of the answer.
SelectedKey ==
    /\ stage = "select"
    /\ IF peerKeys[at] # <<>>
       THEN LET k == [keys[at] EXCEPT !.remote = peerKeys[at][1]]
            IN /\ keys' = [keys EXCEPT ![at] = k]
               /\ conn' = [conn EXCEPT ![at] = SetRemoteKey(@, k)]
       ELSE UNCHANGED <<keys, conn>>
    /\ IF at < Len(Media) THEN at' = at + 1 /\ UNCHANGED stage
       ELSE at' = 1 /\ stage' = "transport"
    /\ UNCHANGED <<config, master, world, role, search, sdp, events>>

\* kms_srtp_connection_set_remote_info, of the connection that is asked for again.
SetRemoteInfo(c) ==
    IF c.ports = {} THEN c ELSE [FollowLimit(c) EXCEPT !.remote = TRUE]

\* kms_rtp_endpoint_start_transport_send: the connections learn where to send.
StartTransport ==
    /\ stage = "transport"
    /\ stage' = "connected"
    /\ conn' = [i \in Index |-> SetRemoteInfo(conn[i])]
    /\ UNCHANGED <<config, master, world, role, at, search, keys, sdp, events>>

-----------------------------------------------------------------------------
(* Streaming. *)

\* kms_srtp_connection_request_remote_key_cb: packets may arrive before the key does;
\* they are lost, and srtpdec asks again.
RequestKey(i) ==
    /\ conn[i].ports # {} /\ crypto # NoSuite
    /\ stream[i] = NotUsed /\ conn[i].dec # NotUsed
    /\ stream' = [stream EXCEPT ![i] = conn[i].dec]
    /\ conn' = [conn EXCEPT ![i].updated = FALSE]
    /\ UNCHANGED <<config, master, world, role, at, stage, search, keys, sdp, limits, told>>

\* kms_srtp_connection_soft_key_limit_cb, once per handler that follows it.
SoftLimit(i) ==
    /\ stream[i] # NotUsed /\ limits < MaxLimits
    /\ limits' = limits + 1
    /\ told' = told + conn[i].handlers
    /\ UNCHANGED <<config, master, world, role, at, stage, search, keys, sdp, conn, stream>>

-----------------------------------------------------------------------------

Next ==
    \/ SearchBegin \/ SearchRefused \/ OpenFirst \/ OpenSecond
    \/ \E p \in 0 .. Ports - 1 : OtherTakes(p) \/ OtherFrees(p)
    \/ Negotiate("offerer", <<>>)
    \/ \E offered \in [Index -> Offers] : Negotiate("answerer", offered)
    \/ OfferKeys \/ AnswerKeys \/ PlainMedia
    \/ ConfigureMedia \/ RefuseMedia
    \/ \E answers \in [Index -> {o \in Offers : Len(o) <= 1}] : ProcessAnswer(answers)
    \/ SelectedKey \/ StartTransport
    \/ \E i \in Index : RequestKey(i) \/ SoftLimit(i)

Spec == Init /\ [][Next]_vars

-----------------------------------------------------------------------------
(* Properties. *)

\* The pairs with a port in the range.  The port beside may be out of it: the range is
\* asked of the second port that is opened only, and a search without a highest port
\* goes on at 0.
Touched == {e \in 0 .. Ports - 1 : e % 2 = 0 /\ (InRange(e) \/ InRange(e + 1))}

TypeOK ==
    /\ crypto \in Suites \union {NoSuite}
    /\ role \in {"none", "offerer", "answerer"} /\ at \in Index
    /\ stage \in {"idle", "keys", "ports", "first", "second", "found", "failed",
                  "offered", "select", "transport", "connected"}
    /\ busy \subseteq 0 .. Ports - 1
    /\ \A i \in Index :
          /\ conn[i].ports = {} \/ \E e \in Touched : conn[i].ports = {e, e + 1}
          /\ conn[i].handlers \in 0 .. 2
          /\ port[i] \in {0} \union Touched

(***************************************************************************)
(* A medium is refused for want of ports only if no pair of the range was  *)
(* free throughout the search, although the search begins anywhere, goes   *)
(* in steps of two and others take ports meanwhile.  In a range that       *)
(* begins with an odd port the search may leave one pair out.              *)
(***************************************************************************)
PairsExhausted == (stage = "failed" /\ Lowest % 2 = 0) => Pairs \subseteq search.seen

(***************************************************************************)
(* What a connection encrypts with is what the SDP announced for its       *)
(* medium; what it decrypts with is a key the peer announced for that same *)
(* medium, with the tag and the suite of ours; no two connections share a  *)
(* port, and the announced one is that of a connection.                    *)
(***************************************************************************)
KeysAgree ==
    \A i \in Index :
        LET c == conn[i] IN
        /\ c.enc # NotUsed => announced[i] # NoKey /\ c.enc = Use(announced[i])
        /\ c.dec # NotUsed =>
              /\ c.enc # NotUsed /\ c.dec.suite = c.enc.suite
              /\ \E n \in DOMAIN peerKeys[i] :
                    /\ c.dec = Use(peerKeys[i][n])
                    /\ peerKeys[i][n].tag = announced[i].tag
        /\ stream[i] \in {NotUsed, c.dec}
        /\ port[i] # 0 => port[i] \in c.ports
        /\ \A j \in Index \ {i} : c.ports \intersect conn[j].ports = {}

\* Both, for the media of one negotiation.
MediaReachable == PairsExhausted /\ KeysAgree

=================================================================================
