# A formal model of kms-elements

kms-elements is the part of the Kurento media server that holds its endpoints
(WebRTC, RTP, player, recorder, HTTP) and its hubs (composite, dispatchers,
mixers): GStreamer elements written in C, and C++ objects that expose them to
applications through the interface files `src/src/server/interface/*.kmd.json`.
This directory holds TLA+ modules translated from that code, TLC runs that
check them on small instances, and theorems that TLAPS checks for every value
of the constants.

Paths below leave out the leading `src/src/`: `gst-plugins/kmsplayerendpoint.c`
is `src/src/gst-plugins/kmsplayerendpoint.c`.

* [Inventory](#inventory): the components, their state, operations and hazards
* [Modules](#modules): how each module corresponds to the code
* [Runs](#runs): bounds, what each run shows, fairness
* [Findings](#findings)
* [Theorems](#theorems)
* [Plan](#plan): what comes next, and what is assumed

`PROJECT.json` has the same in machine form: components, runs, the source lines
behind every definition (`map`), the code changes that break each property
(`mutants`), the hazards at their lines, and the theorems.

## Inventory

What is hard in this code is the same nearly everywhere. An element is shared
by application threads (through the server objects), by GStreamer streaming
threads that run its pad probes and callbacks, by GLib main loops that run its
timers and idle sources, and by thread pools. A handler takes a lock, decides,
lets go of the lock, calls something, and takes a lock again. GStreamer has
locks of its own (a pad's stream lock; the wait for a streaming thread when a
pad or an element goes away), which nobody sees in the source of the handler.
Memory is reference counted, and an asynchronous job may outlive its element.
Nothing is stored on disk for a restart, so there is no crash recovery in the
usual sense; what replaces it are connections that go away at any time.

### Modelled

**Data session and data channels**: `gst-plugins/webrtcendpoint/kmswebrtcdatasessionbin.c`,
`kmswebrtcdatachannelbin.c`, `kmswebrtcdatachannel.c`.
State: whether the SCTP association is up; the pending list (channels created
before it); `data_channels` and `channels` (stream id to element, stream id to
the handle the user gets); the next even/odd identifier; per channel its state
(CONNECTING, OPEN, CLOSING, CLOSED), `negotiated`, the OPEN/ACK messages said.
Operations: create and destroy a channel, push a buffer, association up and
down, a pad of `sctpdec` appears or goes away, OPEN and ACK messages arrive, a
stream is reset (by the peer, or by a pool thread on behalf of this side).
Interaction: the WebRTC session owns it and hears `data-channel-opened` and
`data-channel-closed`, emitted outside the session mutex by different threads.
Hard: each handler has several critical sections; the reset job holds no
reference on its channel; sctpdec removes a pad in the thread that asks for a
reset, after waiting for the pad's own streaming thread.
Correct when: a handle is never left without its element, no user message
comes before the receiver, a close is never forgotten, events are in order, and
nobody waits forever.

**Recorder**: `gst-plugins/recorderendpoint/`, `gst-plugins/kmsrecorderendpoint.*`,
`RecorderEndpointImpl.cpp`.
State: the state of the URI endpoint and the transition in progress, the sink
pads and the sources of the muxer, the muxing pipeline and its reports, base
time and paused time.
Operations: record, pause, stop, `stopAndWait`; link and unlink of a pad;
samples and end-of-stream from the sources; state and end-of-stream reports of
the pipeline; the pool task that follows an end-of-stream.
Hard: a stop first sends end-of-stream and ends later, in another thread; a
report is meaningful only for the operation that asked for it; two locks are
taken in both orders.
Correct when: a stopped recorder stays stopped, a stop completes, pauses are cut
from the time stamps exactly once, from when they are counted on.

**HTTP endpoint**: `HttpEndpointImpl.cpp`, `HttpServer/KmsHttpEPServer.cpp`,
`HttpServer/KmsHttpPost.cpp`, `gst-plugins/kmshttppostendpoint.c`.
State: the server (made, resolving its name, listening or not), the URL table, the cookie, the
message bound to the session, the session timer, the POST message the controller follows and where its parser is, the events told to
the application.
Operations: making the object, which starts the server if there is none and has the URL
registered; headers, chunks and end of a request; the timer; the release of the object by the
application while the loop is at work.
Hard: the session is attached to whatever request arrives last; a preflight
passes without the cookie; expiry and release meet; the parser of a multipart body is called
with chunks that end anywhere.
Correct when: a session does not expire under an upload, one client feeds it, it
ends when nobody uploads, nothing is left of it when it has ended, the calls that wait for the
loop return, and what is delivered does not depend on the chunks.

**WebRTC session**: `gst-plugins/webrtcendpoint/kmswebrtcsession.c`, with what
`kmswebrtcendpoint.c`, `WebRtcEndpointImpl.cpp` and the ICE agent
(`kmsicebaseagent.c`, `kmsiceniceagent.c`) forward to it and from it.
State: the local and the remote SDP, the remote candidates, whether gathering started and
which streams have ended, the connections; the data session and a table of data channels
limited to one (`MAX_DATA_CHANNELS`).
Operations: negotiate, gather, add a remote candidate; the agent finds a candidate or ends a
stream; create and destroy a data channel; the DTLS connection comes up; a data channel opens
or closes.
Hard: the calls come in any order and from several threads; `create` and `destroy` hold the
SDP lock and take the mutex of the data session, the reset worker holds that mutex and
`data_channel_closed_cb` takes the SDP lock.
Correct when: candidates given early are not lost, the end of the gathering is told once and
last, the table follows the channels, every call returns.

**Composite mixer, style composite mixer, alpha blending**:
`gst-plugins/kmscompositemixer.c`, `kmsstylecompositemixer.c` with `kmsepisodeoverlay.c`,
`kmsalphablending.c`, and their server objects.
State: the port table; per port `input`, `removing`, `eos_managed`, the probe that hears
end-of-stream, and its elements; what is drawn where (a grid; at most four views that belong
to users; pictures over a master).
Operations: add and remove a port; the first buffer links it to the mixer; an
end-of-stream arrives by itself or because of the removal; the loop removes the
elements; the application shows and hides views, or chooses a master and places pictures.
Hard: the removal of a port sends an event into the very pads whose streaming
thread may be in a callback; four flags decide who removes the elements; each handler draws
only some of the ports again; a view is changed by reading all of them and writing all back.
Correct when: elements are removed once and only for a removal, pictures never
overlap, removals return, and what is drawn is what was asked for.

**Dispatchers, selectable mixer**: `gst-plugins/kmsdispatcher.c`,
`kmsdispatcheronetomany.c`, `kmsselectablemixer.c`, and their server objects.
State: the hub's table of ports and the links between them, beside the table of the base hub.
Operations: add, remove and connect ports, set the main port, from several threads.
Correct when: a port gets the media of ports that exist, and those that were asked for.

**RTP endpoint**: `gst-plugins/rtpendpoint/` (`kmsrtpendpoint.c`, `kmssocketutils.c`,
`kmsrtpconnection.c`, `kmssrtpconnection.c` and what they call), `RtpEndpointImpl.cpp`.
State: the range of ports, the sockets of the connections, the SDES keys of offer and answer.
Operations: offer, answer and process an answer, per medium; the search for a free pair of
ports; a decryption asks for a key; a key reaches its soft limit.
Hard: other processes take and free ports during the search; keys are agreed on in callbacks
and set later, media may come before them.
Correct when: a search leaves no free pair out, and what a connection uses is what was
announced for its medium.

**Player**: `gst-plugins/kmsplayerendpoint.c`, `PlayerEndpointImpl.cpp`.
State: the state of the URI endpoint; the inner pipeline that reads the file; two
base times (one for prerolls, one for samples) and the flag that says they are to be
forgotten; per stream what was stamped last (`KmsPtsData`).
Operations: play, pause, stop, seek; a stream's preroll, its samples and its end; the idle
source that turns the end of the file into a stop.
Hard: the threads of the streams take, share and forget the base times in the middle
of the application's calls; the end of a playback is handled some time after it.
Correct when: streams that play together share a base time, that base is not older
than the last interruption, no buffer is refused for its new time stamp, and an end is
told, and is the end of what is playing.

### Not modelled

* **RTCP demultiplexer** (`kmsrtcpdemux.c`): sorts packets by payload type and remembers
  one SSRC; there is no second actor and no protocol.
* **Text overlay**, and the drawing of the episode overlay: pixels and one style string.
* **Certificates** (`CertificateManager`), STUN and TURN settings, the resolver, sockets:
  input and output. Stopping the HTTP server is left out because nothing in the code calls it.
* **Links of media pads** in the WebRTC transports and connections, RTCP feedback, bandwidth,
  statistics, caps, latency, the audio mixers of the hubs, `dispose` of the elements: no
  decision of theirs depends on an order that the properties below speak of.
* **Plugin registration, build, packaging, example application**: no behaviour of
  the running system.

### Known hazards without a property

Beyond the ones `PROJECT.json` lists with their properties, reading the code showed these. Each
is visible in one function, or is outside of what a bounded model tells apart:

* a channel that the peer never answered stays in CLOSING when it is destroyed, for there
  is no stream to reset (`kmswebrtcdatachannelbin.c:505`);
* identifiers grow without a test against 65535 (`kmswebrtcdatasessionbin.c:704`), and a pending
  channel that cannot be linked is dropped without a word (`:762`);
* `recv_sample` of the recorder unlocks a lock it does not hold when a sample has no buffer
  (`kmsrecorderendpoint.c:401`); a recorder that is started without media stays in
  STARTING, which refuses pause and stop (`:850`); a pad of the KSR profile that is requested
  while the recorder is paused is not connected when it resumes;
* a refused GET is bound to the session without a handler; its replacement reads an identifier
  that was never stored (`KmsHttpEPServer.cpp:625`; the `aborted` state of `HttpEndpoint`);
* a part without Content-Disposition makes the parser loop (`KmsHttpPost.cpp:408`, also a finding);
* an endpoint hands out its URL whether or not the server listens, with port 0 if it has none yet
  (`KmsHttpEPServer.cpp:838`; `server` in `HttpEndpoint`, where `CallsReturn` holds all the same);
* the system call for random bytes gives no key if its third try completes it, and the reader of the
  device has no exit from its loop for a read that fails (`kmsrandom.c:57` and `:95`).

## Modules

| module | models | checked by |
|---|---|---|
| `DataSession`, `DataSessionProofs` | data session, its channels, its thread pool | `MCDataSession` |
| `WebrtcSession`, `WebrtcProofs` | trickle ICE of a WebRTC session | `MCWebrtc` |
| `ChannelTable`, `ChannelTableProofs` | the data channels as the WebRTC session keeps them, and its two locks | `MCWebrtc` |
| `Recorder`, `RecorderProofs` | recorder element, muxer, server object | `MCRecorder` |
| `HttpEndpoint`, `HttpProofs` | endpoint object, server, controller, element | `MCHttp`, itself |
| `PostParser`, proved in `HttpProofs` | the multipart parser of the controller | `MCHttp` |
| `PostUpload` | what the controller promises; `PostParser` implements it | `MCHttp` |
| `CompositeMixer`, `CompositeMixerProofs` | ports and grid of the composite mixer | itself |
| `StyleComposite` | ports and views of the style composite mixer | `MCElements` |
| `AlphaBlending` | ports, master and pictures of the alpha blending hub | `MCElements` |
| `RoutingHubs` | dispatcher, dispatcher to all, selectable mixer | `MCElements` |
| `RtpEndpoint` | search for ports, SDES keys, connections | `MCElements` |
| `Player`, `PlayerProofs` | player element and server object | itself |

`ElementsProofs` holds the proofs about `StyleComposite`, `AlphaBlending`, `RoutingHubs` and
`RtpEndpoint`, as `MCElements` instantiates them; `HttpProofs` those about `HttpEndpoint`, `PostParser` and
their composition in `MCHttp`.

The `MC` modules instantiate a specification for TLC. Three of them hold more than one
specification, or one in more than one setting; a behaviour then explores one of them (`part`,
`element`, `active`) and the variables of the others rest. That saves runs and takes nothing
away: the parts share no step.

Two conventions hold in all modules.

*One action is one critical section.* Where a function gives up its lock in
the middle (or emits a signal, or pushes an event), it becomes several actions and
a program counter says where the thread is. Where a thread waits with a lock in
hand, the hand-over is a state of its own, so that a circular wait is a reachable
state and not an assumption.

*What is not in this repository is arbitrary within its contract.* Peers and
clients send anything at any time. GStreamer, libsoup, sctpdec, kms-core and libnice
do what the code relies on; each module's opening comment states that contract.

### DataSession

`pending`, `table` and `handles` are the pending list, `data_channels` and
`channels`. Elements are numbered in order of creation, so that a freed element
keeps a name and a late job on it can be seen. `pad[i]` is the source pad of
stream `i` and the element linked to it; `pc[i]` is where its streaming thread is
between two critical sections of `handle_open_request`/`handle_ack`. `jobs` are
the entries of the thread pool, `mutex` the stream whose reset holds the
session mutex. `opened` and `closed` count the events.

`CreateDataChannel` is the whole of `create_data_channel_action` up to the
request for opening: the choice of the identifier, the pending list before the association,
the table after it, and the refusal of a channel that cannot be linked (both
reliability limits, or identifier 65535, or an identifier in use). `RequestOpen` and
`PushOpen` are the two halves of `request_open`. `AssociationUp` links the pending
channels, newest first, and drops what cannot be linked.
`HandleOpenRequest`, `HandleAck`, `PushAck`, `AckPushed`, `NegotiatedCb` and
`EmitOpened` follow one message through the streaming thread.

`sctp` is where the SCTP thread is in a callback of sctpdec, with the stream and its
channel. A pad is there (`ExposePad`) before `pad_added` has the session mutex (`PadAdded`),
and the channel is linked after it gave the mutex back (`LinkPad`). A pad the peer
reset is gone (`RemoteReset`) before `pad_removed` has the mutex and forgets the channel
(`PadRemoved`), and `data-channel-closed` is emitted after that (`EmitClosed`). In each of these
windows a channel may be destroyed and its reset job may run; one that finds the pad gone does
nothing, and `pad_removed` finishes what it was for.
`ResetStreamAsync` and `ResetStream` are the job of this side: sctpdec removes the pad in the
worker, which holds the mutex, unless the SCTP thread was faster. sctpdec removes a pad once, and
takes the packets of the association one by one. A job whose element is gone reads an arbitrary
identifier: it is a use after free in the code, and a nondeterministic choice here. A pad removed while
`pad_added` links it gives no data, whatever it is linked to.

### WebrtcSession

`nego` is where the negotiation of the application is, `local_sdp` and `remote_sdp` whether
the SDPs are there; `remote_candidates` is the list of the source, `agent` what the agent was
given. `AddIceCandidate` is the whole of `kms_webrtc_session_add_ice_candidate`: store, give
to the agent, write in the remote SDP. `Answers` is what
`kms_webrtc_session_set_remote_ice_candidate` returns, in the order of its tests: a candidate
before the SDP or before the gathering is only stored (TRUE), one out of the SDP is refused, one
of an inactive medium is accepted and ignored, and the agent decides about the others. `AddStored` goes
through the stored ones up to the first that is refused, as the code does. `AddDescribed`,
`StartStored` and `StartLines` are `kms_webrtc_session_start_transport_send`, which lets the
SDP lock go in between.

`GatherBegin`, `GatherStream`, `GatherAgain`, `GatherFails` and `GatherEnd` are
`kms_webrtc_session_gather_candidates`, which keeps the lock while the agent reports to it what it
finds at once; `NewCandidate`, `StreamEnds` and `Tell` are the agent's loop, which emits after
it has let the lock go. `Finish` gives each medium its default address when the last stream
has ended, up to the first medium whose address is of the other IP version.

### ChannelTable

The data session bin of `DataSession` is reduced here to an element that is connecting, open or
closing; what is added is the session around it. `hook` and `key` are
`kms_webrtc_session_support_sctp_stream` and the DTLS connection, which meet in the
exchange of `data->connected` (`attaching`). `CallLocks`, `Create` and `Destroy` are the
actions of the session with the SDP lock; `OpenedCb`, `Reject`, `Insert` and `EmitOpened` are
`data_channel_opened_cb`, `ClosedCb` and `EmitClosed` are `data_channel_closed_cb`, each in its
critical sections. `sdp_mutex` and `mutex` name the holders of the two locks, so that a circular
wait is a state (`LocksCrossed`).

### Recorder

`uriState` and `transition` are the state of `KmsUriEndpoint` and the operation
that is still under way; the remaining flags have the names of the source. `pc`
says where each caller is in record, pause, stop or `stopAndWait`. `mux`, `eos` and
`eosPosted` are the muxing pipeline and its reports; `eosTask` is the task of
the pool. `ksr` and `upload` are chosen once: the KSR profile adds and removes
sources with the links, and a sink for an `http` URI prerolls without data; `acceptEos`, chosen
once too, is `accept-eos`. `CallerStep(c)` is every step of a caller in its call, `MediaStep` every step
of the pipeline, the pool and the pads. In `MCRecorder`, `active` are the callers that call: one,
with a clock (`Alone`), or all of them, without.
`recorded` and `early` are history: how many ticks were really recorded, and
whether the recorder was paused before its first buffer. `NewMuxer`, `AddSrc` and `RemoveSrcs`
are what the two muxers differ in.

### HttpEndpoint

All callbacks of the requests run in one loop, so one action is one callback; only making the
object (`Construct`, `Register`) and releasing it (`Release`, `ReleaseUrl`, `Unregister`) are
another thread, which waits for the loop without a limit. `server` is the one server of the
process: the first endpoint makes it (`CreateServer`), after its name was resolved in the main
thread if one is configured (`Start`, `Resolved`). The code does not wait for
it, and only the log hears that it could not be bound: the URL is registered and handed out all
the same, and requests come only if the server runs. `bound` is the message kept on the session,
`attached`/`listening` the message of the controller, `timer` what the code
remembers of its timer and `timers` the timers that are really in the loop.
`aborted` is an explicit state: where the code would dereference a message that
is gone the process crashes, and properties that need a process say so.

### PostUpload and PostParser

A body is a sequence of tokens: the boundary and a header line are one each, everything else is
as on the wire. `PostUpload` says without parsing what is delivered: of a multipart request the
content of the first part with a file, of another request its body. It may be delivered in any
pieces, never ahead of what has arrived (`Arrived`), and when the request ends all of it was
delivered, but for what may still be the beginning of a delimiter. `WellFormed` is what a client has to
keep to (RFC 2046): the boundary is not in a preamble nor in a part.

`PostParser` is the code: one action is one pass of the loop of
`kms_http_post_parse_multipart_data`, that is, one of its functions. `state` is
that of the parser, `rest` what is left of the chunk, and `held` the data that a function
could not decide about and keeps for the next chunk (`kms_http_post_concat_previous_buffer`).
`Undecided`, `IsDelimiter` and `Ending` are the tests of `kms_http_post_read_until_boundary`,
with the same lengths. `Uploads == Upload!Spec`, with the identity on `post` and `ended`, `got` for
what was received and `out` for what was delivered, is the refinement: `Next` of `PostUpload` is
checked of every step of `PostParser` with every request of `Posts` and every way to cut it.

### CompositeMixer

`app[p]` is where the application is with port `p`; `stream[p]` where its
streaming thread is (`eosing` before `cb_EOS_received`, `eosed` after it, `ended`
when the event is back and the pad is marked). `UnhandleEnded` and
`UnhandleBegin` are `port_data_destroy` for a pad that has ended and for one that
has not; the latter keeps the mutex (`lock`) while it waits for the pad's stream lock.
`Columns`, `Rows` and `CellAt` are the arithmetic of
`kms_composite_mixer_recalculate_sizes`, with integer division where the code
truncates.

### StyleComposite

Handlers are one step each, for the mixer's mutex is held through them; the threads of a port and
their locks are those of `CompositeMixer`, whose code this file repeats, and are not told apart
again. `Recalculate` is `kms_style_composite_mixer_recalculate_sizes`: `Mapped` are the ports whose
bitrate is the identifier of a view that is enabled and not yet taken, in the order of the last
drawing's bitrates (`viewId`, `Before`); the others (`Unmapped`, of which the code holds ten, `MaxUnmapped`) fill what is empty from the left, the last
of them first. The two arrays of the code are not kept: `Fills` says of a port and a view that the port is in
it, by the number of ports before it (`Earlier`, `Later`) and of views before the view (`Below`), and
`Column` is the place of a view among the filled ones. `ReadStyle` and
`WriteStyle` are the two halves of `showView` and `hideView` in `StyleCompositeImpl`.
`stale` is history: something changed that the code does not draw again for.

### AlphaBlending

`master_port` and `output_width` are the fields of the source, `wanted` what the application set
for a port, `drawn` what the capsfilter, the videobox and the pad of the mixer got from
`configure_port`. `LinkToVideomixer`, `CapsChange`, `SetMaster`, `SetPortProperties` and the
`Unhandle` actions each draw the ports that the code draws, and no others (`Reconfigure`). Pictures
have a width only: the code treats the height in the same way.

### RoutingHubs

`kind` is which of the three hubs it is. `HandlePort` and `Insert`, `Unhandle` and `Unhandled` are the two
sides of adding and removing a port: the base hub's table has a port earlier and loses it
later than the hub's own, and a thread of the application may connect it in between. `mutex` is
the thread that keeps the selectable mixer's mutex, which is locked twice where it should
be given back; the mutex is recursive, so this thread goes on and the others stop. `crashed` is the main
port that is used without being in the table.

### RtpEndpoint

`search` is `kms_rtp_connection_get_rtp_rtcp_sockets` with `inc_port`: the start, the current port, the
socket of the first port, and whether it has come round. `Ports` is the size of the word, in which the
addition wraps. `stage` and `at` are how far the SDP agent of kms-core is, and with which medium: it asks
for the keys (`OfferKeys`, `AnswerKeys`), then configures the medium (`ConfigureKeys`,
`NextMedium`). `keys` are the `SdesKeys` of the endpoint, `conn` what the SRTP elements
of a medium got, `stream` the key that a decryption began with (`RequestKey`). `FollowLimit` is the handler
of soft limits that `kms_rtp_endpoint_get_connection` gives to the connection of a medium. `RandomKey` may yield
no key, as the code that asks the system for random bytes may give up; a medium then has no
crypto line, and the next one tries again.

### Player

`app` is where the application is in a call: between the mark that asks for
new base times, the change of the inner pipeline, and the change of the endpoint's own
state. `loop` is the same for the idle source that handles the end of a playback, and `idles`
are those queued. `sink[s]` is where the appsink of stream `s` is: `waiting` for a
buffer to preroll with, `prerolling` (between `reset_base_time` and the push), `ready`, or
`ended`; `pos[s]` is the next buffer of the file. `pts[s]` is the `KmsPtsData` of
`process_sample`, which `PrerollReset`, `PrerollPush`, `FirstSample` and `NextSample`
follow through its branches; `Push` decides, as the code does, whether a buffer is pushed, was
pushed before, or comes too late.

What GStreamer does is a contract of the opening comment: a file's streams all have
their pads before one delivers, the pipeline plays when all have prerolled, sinks are
synchronized, buffers come in the order of their time stamps, and going to NULL or flushing
waits for a streaming thread that is in a callback. Media with reordered frames, and
sources whose streams appear one by one, are outside it.

`shared`, `since`, `lost` and `missed` are history. `shared[s]` is the base time that stream `s`
took since it last had to preroll; `since` is when the playback was last interrupted. `missed` names the
three ways in which a base time can be kept over an interruption: a stream prerolls
between the mark and the pause or flush the mark was set for, and uses the mark up; a
pause makes no stream preroll and the file cannot be sought in; or the last stream that waits to
preroll was paused at its end and ends instead (`LastToPreroll`). It is reset when the base times are next
forgotten, so that `FreshBase` speaks of everything after that. Without `~missed`, TLC violates
`FreshBase`.

## Runs

| run | instance | what it shows |
|---|---|---|
| `data_session` | server, an identifier of each side, 2 elements, 2 messages of the peer, 2 association changes | handles stay backed, receivers are in place, no close is forgotten, events are in order |
| `data_session_reset` | client, 2 identifiers, 1 association change, fair threads | a queued reset runs and gives the mutex back, unless the circular wait is reached |
| `data_session_conflict` | violation | two channels get one identifier |
| `data_session_wait` | violation | the circular wait is reachable |
| `webrtc` | trickle ICE: 4 media on 2 streams, 5 remote candidates, 2 local ones per stream, 2 gatherings; channels: an identifier of each side, 2 elements, 2 messages, 2 calls; fair threads | no candidate is lost, the end of the gathering is last, the table follows the channels, calls return outside of the crossed locks |
| `recorder` | 1 caller, clock of 4 ticks, fair threads; and 2 callers without a clock, end-of-stream accepted | nothing under way revives a stopped recorder, a pause is cut exactly once it is counted, a stop completes and leaves nothing, outside two named states |
| `http_session` | 2 clients, 4 requests of 5 kinds; and 40 bodies, cut into chunks in every way | no expiry under an upload, one feeder, quiet end, an end, and calls that return; the parser delivers what `PostUpload` says |
| `http_timeout` | violation | a session without a timer |
| `composite_ports` | 3 ports, 800x600, fair threads | cells apart, elements removed once, removals return, elements leave |
| `elements` | style: 2 ports, 2 views, 2 threads, 3 changes; alpha: 2 ports, 2 widths, 4 changes; routing: 3 ports, 2 threads; RTP: 2 media, 2 suites, a word of 16 ports | what is drawn, linked, or encrypted is what was asked for |
| `player_base` | audio and video of 3 buffers, 1 tick, 3 calls, fair threads | a shared and fresh base time, no buffer lost, an end is told |
| `player_end` | violation, no clock | the end of one playback stops the next one |

**Bounds and why they are enough.** `MaxBins = 2`: every property of
`DataSession` is about one stream, or about two channels that compete for one
identifier, or that have it one after the other. Two messages of the peer are an OPEN or ACK and
one more that arrives in the wrong state, of one channel or of the other; with three of them the safety properties were
checked once (4.65 million states); two changes of the association are up and down, with a pending list
before and after. The table of `ChannelTable` has one place, as in the code: two
elements are the one that has it and the one that finds it taken.

Trickle ICE has two media in a bundle, an inactive one, and one on a stream of its own. The remote
SDP describes a candidate for two of the media, of which one has no credentials and is refused, so
that its candidate only reaches the agent by the SDP of the other one if at all; the peer sends these
again, a candidate for the other stream, one that the agent refuses, and one just past the last
medium. The default address of the other stream is of the other IP version than the session's. Two
local candidates are one that is found at once and one that the loop reports; two gatherings are one
before and one after the connections exist.

`MaxTime = 4` lets a recorder record, be paused, record again and
be paused again; the setting with two callers has no clock because nothing it asks depends on
time. Four requests on an endpoint are an upload, a preflight of another
client during it, a refused method, and a reconnection. The bodies have no, one or another
preamble, one or two parts, with a file first, second or nowhere, and contents that look like the
delimiter as far as they can: a lone carriage return, a line break, a line break with two dashes, two
carriage returns before it, and the boundary itself without an end. As a chunk may be one token, each
test of the parser is cut at each of its positions.

Three ports of the composite mixer are the
smallest number with which the grid has a second row and an empty cell in
it; a fourth would change no branch. Ports are not reused, as the base hub never
gives an identifier twice. The style composite mixer is checked with as many views as ports, so that
views compete and one stays empty; three changes are two users and a view hidden, or two threads
that overwrite each other. In the alpha blending hub two ports are a master and one that is
not, or one that becomes it; the unit of 2 puts pictures in the middle of the output and at its end.
Three ports of a routing hub are a source, a sink, and one that leaves meanwhile.
Of 16 ports, the lowest 4 privileged, the ranges are an even and an odd
beginning, a range of one port, one with an odd beginning and no end, and the whole word; in the last two
`inc_port` wraps. Others take or free one port during a search, from any set of ports that is busy at its
beginning (of the ranges without an end: none or all).

Three calls on a player are a play, an interruption, and
a play, or an interruption in the middle of another; three buffers are the first, one that is
stamped after it, and one at which the file ends; one tick tells a base time from
before an interruption from one after it. A seek goes to any buffer but the last. The safety properties of
the player were also checked once with four calls and two ticks (7.4 million states up to
symmetry); they are proved for every number of calls.

**Deadlock** is not checked, since each system may really stop: the application
may do nothing more, and the bounds end every behaviour. Circular waits are
named states instead (`CircularWait`, `LockCycle`, `LocksCrossed`), and the
liveness properties say what happens outside them.

**Fairness.** Only for what a running thread or loop does by itself:

* `DataSession`: a handler or callback that has begun continues, that of the SCTP thread as well, and the pool runs its
  jobs (WF). A new pad is exposed but not taken in when the bound on the elements is reached.
  Nothing is assumed of application, peer or association.
* `WebrtcSession`, `ChannelTable`: `Progress`, the disjunction of the steps with which a
  thread goes on in a call, a handler or a job it has begun, and of the agent's loop (it gives up what it
  has not found after a while), is weakly fair. The bounds let only finitely many steps
  happen, so that fairness for the disjunction is fairness for each thread. Nobody
  has to call, no start of a gathering has to succeed, and the connection need not come up.
* `Recorder`: a call that has begun runs on; the pipeline reports PLAYING and
  end-of-stream; the pool runs its task (WF). Where a step waits for a lock
  that others take and release again and again, the fairness is strong (SF): GLib's
  mutexes wake their waiters. Nobody has to link, pause or stop, and sources
  need not send anything.
* `HttpEndpoint`: the loop fires a timer that is set (`Expire`), ends the
  termination it began (`Terminate`), and registers and unregisters when it is asked to
  (`Register`, `Unregister`); a release that began goes on (`ReleaseUrl`). No client has to act or
  even disconnect, the name need not be resolved, and nobody has to make or release an object.
* `CompositeMixer`: a removal or a callback that waits for a lock gets it when it
  stays free, and the loop runs its idle sources (WF). Nobody has to add or remove
  a port, nor start or end a stream.
* `Player`: a call that has begun goes on, a preroll that has begun is pushed, and
  the loop runs its idle sources (WF). The file need not deliver anything, and the
  application need not call.

**Exceptions in the properties are facts, not conveniences.** `StopsComplete`, `CallsReturn`,
`SessionEnds`, `RemovalReturns`, `ElementsLeave` and `ResetFinishes` each name
the states from which the code cannot go on; `CandidatesKept` names the candidate behind a refused
one, `ViewsAsAsked` the changes after which nothing is drawn, `MediaReachable` the range with an odd
beginning, of which the search may leave out one pair, and `Routed` the
hub that used a main port without data. Each of them is reachable.
Removing such a disjunct makes TLC show the run that reaches it.

Every property of a passing run has a mutant: a plausible error in one mapped
definition (a dropped guard, a probe that stays, an id taken from the wrong
place) with which TLC finds the property violated under the same bounds.

## Findings

With a run that shows it:

* **One identifier, two channels** (`data_session_conflict`). Channels created before
  the association get identifiers that are compared only with `data_channels`; two of
  them get the same one from two successful calls, and one is dropped when the
  association comes up. The `id` property says that in case of conflict the channel
  should fail.
* **The reset worker waits in a circle** (`data_session_wait`). `reset_stream_async`
  holds the session mutex over `reset-stream`; sctpdec waits there for the pad's
  streaming thread, which may wait for the same mutex in
  `data_channel_negotiated_cb`.
* **A session that waits without a limit** (`http_timeout`). A preflight, or a method
  the server refuses, removes the session timer, and nothing sets it again.
* **The end of one playback stops the next** (`player_end`). The end is queued in the loop
  without saying of which playback it is the end. If the file is stopped and played again
  before the loop gets there, the new playback is stopped, and `EndOfStream` is
  emitted for a file that was not streamed completely.

Read in the code while it was modelled, and built into the models as the code has them:

* **An index one past the media** (`kmswebrtcsession.c:306`) passes the test of a remote candidate
  (`Answers` lets it have any answer).
* **Gathering without an SDP** (`kmswebrtcsession.c:710`) starts nothing and reports nothing, not
  even its end; it has to be called again.
* **A cell for nobody** (`kmscompositemixer.c:365`, `kmsstylecompositemixer.c:543`). A port whose stream
  had ended is removed without taking its cell out of the picture.
* **The overlay is not disabled** (`kmsstylecompositemixer.c:241`): "background only" is a value
  whose branch is commented out.
* **Pictures right of the middle** (`kmsalphablending.c:208`) are cropped by the wrong side of the
  output (`Crop` crops as the code does).
* **A mutex locked twice** (`kmsselectablemixer.c:296` and `:214`): after a port is removed no other
  thread gets into the mixer (`UnhandleMixer`).
* **A search without an end** (`kmssocketutils.c:80`): with the highest port 65535 the
  addition wraps, and a full range is searched for ever.
* **A port below the range** (`kmssocketutils.c:145`): only the second port of a pair is tested for being in
  the range. When the search has wrapped to port 0, which stands for any free port, it may take the pair of
  an odd lowest port and the even port below it, and announce the latter. It came up when the proof of the
  type invariant failed (`Touched`).
* **Buffers of a resume keep the pause** (`kmsrecorderendpoint.c:852`). `started` gives the element lock
  away to start the pipeline and counts the pause after that; buffers are recorded in between
  (`:310`). They have the whole pause in their stamps, and those after them go back. `Uncounted` names what is
  missing, and `PausesAreCut` speaks of every buffer that is recorded with it.
* **Only the first key** (`kmsrtpendpoint.c:506`) of an offer is looked at, once per key.
* **A part without Content-Disposition** (`KmsHttpPost.cpp:408`) makes the parser loop on the spot.

Two more disagreements are named in the models: `stopAndWait` of the recorder
gives up after a timeout, logs, and returns normally, where the interface says that
it returns when all content is written (`Recorder`); and a player's mark may be used up by a
preroll that began before the pause (`missed` in `Player`).

Two more came up when a proof failed, outside the bounds of the runs:

* **A stream paused at its end** (`kmsplayerendpoint.c:398`). A pause makes the streams preroll again so
  that the first one forgets the old base times. A stream that is paused right after its last
  buffer has none to preroll with and ends; if it is the last one to wait, nobody forgets, and
  a stream that plays on takes the base time from before the pause. It takes five calls and a
  file of one buffer. `LastToPreroll` names it.
* **A stop that meets the end of the sources** (`kmsrecorderendpoint.c:775`). With `accept-eos` the sources may
  end by themselves. Between the beginning of a stop and its end-of-stream, with the element lock
  released, the pool may handle their end and take the pipeline down, which completes the stop; the
  rest of it then starts the pipeline again to send end-of-stream into it. `CleanStop` is therefore
  stated, and proved, without `accept-eos`.

## Theorems

`DataSessionProofs` proves, for every set of stream identifiers and every bound,
of the specification `Spec` of `DataSession`:

| theorem | property |
|---|---|
| `TypeInvariant` | `TypeOK` |
| `HandlesAreBacked` | `HandleBacked` |
| `ReceiversAreReady` | `ReceiverReady` |
| `RemoteClosesAreInFlight` | `RemoteCloseInFlight` |
| `EventsAreInOrder` | `EventsInOrder` |
| `InductiveInvariant` | `IInv`, on which the others rest |

The only assumption is `ConstantsAssumption`: stream identifiers are natural
numbers, the mode is a Boolean, the bounds are natural numbers. TLC evaluates it
in every run. The bounds are arbitrary, so the theorems hold for any number of
channels, messages and association changes.

**The argument.** None of the properties is inductive. A handle is backed
only because the streaming thread that makes it (`NegotiatedCb`) still has the element
it started with, and that is true only because a pad is not removed while its
thread is in a handler. `IInv` writes this down in parts:

* `Running`: a streaming thread in a handler has a pad that is linked to an element.
* `Exposing`: what the SCTP thread found or created in `pad_added` is the channel of its stream for as
  long as the pad is there, and the pad it has removed stays away until `pad_removed` is over.
* `Wiring` (`PendingIsLocal`, `TableIsMade`, `PadIsLinked`): an element is either pending or in
  the table under its own identifier; a linked pad and the table agree.
* `HandleBacked`, and `Handshake` (`NegotiatedIsMade`, `UnlinkedIsSilent`,
  `AckIsFirst`, `EmitHasHandle`): how far the negotiation of an element can be,
  given where its thread is. `AckIsFirst` is the heart of `ReceiverReady`: a channel
  is negotiated in the step that precedes the callback which sets the receiver.
* `Closing` (`StartedIsMade`, `OpeningIsLocal`, `RemoteWaits`, `WorkerHasPad`) and
  `RemoteCloseInFlight`: a channel of the peer is CLOSED until its pad is linked to it, and once it is not any more
  it keeps the pad until the SCTP thread is in `pad_removed`; the worker that holds the mutex has a pad to
  remove, unless the SCTP thread was faster. So a closing channel has a job, or the reset of its stream holds the mutex, or its pad is gone
  and `pad_removed` waits for the mutex.
* `ClosedIsGone`, `LeavingIsGone`: a channel whose close was reported, or is about to be
  reported by the SCTP thread, is in neither table, and no other thread can report it
  again. `EventsInOrder` follows from it.

There is one lemma per
action or group of actions, and in it one step for each action and each conjunct
that the action can disturb; the final theorems combine them with `PTL`.

`CompositeMixerProofs` proves, for every number of ports and every size of the
mixed video, of `Spec` of `CompositeMixer`:

| theorem | property |
|---|---|
| `TypeInvariant` | `TypeOK` |
| `ElementsRemovedOnce` | `RemovedOnce` |
| `SourcesDoNotOverlap` | `EachHasItsCell`, if the frame has at least as many pixels in each direction as there are ports |
| `InductiveInvariant` | `IInv`, on which the others rest |

`ConstantsAssumption` says that the number of ports is a natural number and that the frame
is not empty. The hypothesis of `SourcesDoNotOverlap` is a hypothesis and not
an assumption of the module because the code does not establish it: with more columns
than pixels `output_width / n_columns` is zero.

**The argument.** `RemovedOnce` needs to know who may still queue a removal, so `IInv`
ties the phase of a removal to the flags and to the streaming thread:

* `Phase`: a port is in the table exactly while it is handled, it is `removing` from
  then on, the removal that waits owns the mutex, and no removal is queued before it.
* `Quiet`: no thread is in a probe of a port that is gone. Therefore `cb_EOS_received`
  never sees a port that is being removed, except in the call that removes it.

`EachHasItsCell` needs a different kind of knowledge, as the cells of a state are those of
an earlier layout: the grid is not drawn again when a source that had ended
leaves, nor is its cell given back.

* `Counts`: there is a cell for each port that is linked and not gone
  (`Counted`), and there are no more cells than ports that were ever linked (`Linked`).
  It is why a removal always finds a cell to give back, and why the number of
  cells is bounded.
* `Drawn`: there are a set of ports and a number of cells, of the last layout, such that
  the set contains all sources, is not larger than the grid, and each port of it is
  drawn at its rank.

The rest is about the grid alone, in lemmas that do not mention the state: the
rounded square root exists (`ColumnsType`, from the least element of a set of
naturals), the rows hold all cells (`RowsType`), ports have different ranks
(`RanksDiffer`), and different cells do not meet (`Slots`, `CellsApart`).

`PlayerProofs` proves, for every number of streams, buffers, ticks and calls, of `Spec` of
`Player`:

| theorem | property |
|---|---|
| `TypeInvariant` | `TypeOK` |
| `NothingIsLost` | `NothingLost` |
| `BaseIsShared` | `SharedBase` |
| `InductiveInvariant` | `IInv`, on which the others rest |

`ConstantsAssumption` says that there are finitely many streams and at least one, and that
the other constants are natural numbers.

**The argument.** `process_sample` compares a buffer with two things it remembers, the last
time stamp it wrote and the last one it read, and each of them is reset at another
moment. `IInv` adds two parts:

* `Stamps`: a stream that prerolls has forgotten both its base and the last time it read; a
  stream that is ready and has no base has read exactly the buffer that comes next; one that
  has a base will stamp its next buffer after the last one. The last clause holds for
  `FirstSample` only because a base time is moved after the last stamp (`BaseAfter`),
  which is where the code could lose buffers after a seek back or a pause.
* `Bases`: a stream that is not ready has taken no base time; one that is ready and took one
  took the present `base_time`; and while any stream still has to preroll, nobody has
  taken one. Therefore `ForgetBaseTime`, which happens only when a stream
  prerolls, never changes the base time under a stream that uses it.

The last theorem of `PlayerProofs`, `BaseIsFresh` (`FreshBase`), has an invariant of its own, `Fresh`:
an old base time is only kept while somebody is going to forget it (`Forgotten`: the mark
stands and a stream has yet to preroll, or the pause is about to seek), a mark stands until what it was
made for is done (`MarkStands`), and streams of a file that does not play have taken none (`Silent`).

`HttpProofs` proves, for every set of clients and every number of requests, of `Spec` of
`HttpEndpoint`:

| theorem | property |
|---|---|
| `TypeInvariant` | `TypeOK` |
| `SessionIsKept` | `UploadKeepsSession` |
| `FedByOne` | `OneFeeder` |
| `EndIsQuiet` | `TerminatedIsQuiet` |
| `InductiveInvariant` | `IInv`, on which the others rest |

and, for every set of requests, of `Spec` of `PostParser` and of `MCHttp`:

| theorem | property | of |
|---|---|---|
| `ParserInvariant` | `ParserIInv` | `PostParser` |
| `ParserUploads` | `Uploads`: it implements `PostUpload` | `PostParser` |
| `EndpointTypes` | `Types` | `MCHttp` |
| `EndpointUploads` | `Uploads` | `MCHttp` |

**The argument, session.** The session is known in three places, and each forgets it in another callback.
`Clock`: what is remembered of the timer is what is in the loop, and there is no timer
while a request is bound. `Follows`: the message that the controller follows is the bound one,
a POST of the client that has the cookie; `OneFeeder` needs this, for a preflight is bound without a
cookie. `Over`: when a session is ending, or its end is on the way to the application, nothing of
it is left that could set a timer or bind a request again.

**The argument, parser.** `PostsAssumption` says what the requests are (`WellFormed`): any number of parts with any
number of header lines and any content, in which the boundary occurs only where RFC 2046 has it. It is an
assumption about the client; a boundary within a part ends the part, for the code as for the RFC. The set
of requests may be infinite.

The refinement needs to know where in the body the parser is. `Pos` is what has arrived less what is
still held or left of the chunk, and `ParserIInv` says (`Reads`) that what is held and left is what the body has
next at that position, and which positions a state may have: before the first boundary (`AtStart`), after a
delimiter and a number of whole header lines, whose headers are the ones remembered (`InHeaders`), at the
beginning of a content (`AtContent`), in a content or a preamble that is ignored (`Ignoring`), or in the content of the
first part with a file, of which exactly what precedes the position was delivered (`Reading`). How much
may be held in each state (at most six tokens) is part of it: that is what `End` of `PostUpload` may miss.

Under it are lemmas about bodies alone. A body is built by a recursive function over its parts, so its shape
is the one thing that is shown by induction, over the number of parts. The library's theorem of induction takes
an operator, which the provers cannot instantiate; what they can use is that a set of naturals has a least
element (`LeastNatural`), here the least number of parts at which the shape would fail. It says where each part, each header line and each
delimiter stands (`Mark`, `Begins`, `Ends`), and that within a content, with the line break after it, no
delimiter begins that is followed by a line break or by two dashes (`Delimits`). Then each function of the code is one
step: if it finds a delimiter, it is at the end of the part; if it does not, what it consumed is content, and what it
keeps back is shorter than a delimiter. `StepImplements` shows that what is consumed in state `content` is a
`Deliver`, a chunk a `Receive` or a `Pass`, the end an `End`, and every other function a stutter.

`ChannelTableProofs` and `WebrtcProofs` prove, for every set of stream identifiers, media, streams and
candidates, and every number of calls, messages and gatherings:

| theorem | property | of |
|---|---|---|
| `TypeInvariant` | `TypeOK` | `WebrtcSession` |
| `NoCandidateIsLost` | `CandidatesKept` | `WebrtcSession` |
| `EndIsToldLast` | `DoneIsLast` | `WebrtcSession` |
| `MCTypeInvariant` | `Types` | both, composed |
| `TableIsBacked` | `TableBacked` | both, composed |
| `ChannelsAreToldInOrder` | `ToldInOrder` | both, composed |
| `InductiveInvariant`, `MCInductiveInvariant` | `IInv`, `ChannelInv`, `MCInv` | each, and both |

The assumptions (`ConstantsAssumption`, and `ConstantsOK` of `ChannelTable`, which `MCWebrtc` assumes)
are types, that there are finitely many streams, that every medium has one, and that at least one local
candidate may be found. The string `"away"` must not be a stream, because `caller` holds it when no
caller gathers.

**The argument, trickle ICE.** `CandidatesKept` is nearly inductive; what it needs is that candidates are
given in order up to the first refused one (`StoredAreGiven`), that what is refused is given to no stream
(`RefusedGetsNothing`), and that only the end of a gathering or of a negotiation can make its
hypothesis true. `DoneIsLast` needs the states of the streams: a stream has ended exactly when the
session has it in `ice_gathering_done` (`Ends`), the lines that were found are told or in the loop
(`Lines`), and the end is told once, exactly when all connections have ended (`Once`, from `Complete`).

**The argument, channels.** `ToldInOrder` depends on four threads. `Owned` and `Handled`: the bin's table, the pad
and the thread in the pad's handler agree; `Entered`: an entry is the channel of the pad, or there is a
closed callback that will take it; `Held`: the worker with the mutex has a pad still, or is in that
callback; `Closing`: no thread is in two closed callbacks, nor two of them about one identifier.

`RecorderProofs` proves, for every set of callers and media, and a clock of any length:

| theorem | property | of |
|---|---|---|
| `TypeInvariant` | `TypeOK` | `Recorder` |
| `StopIsFinal` | `FinalStop` | `Recorder`, any number of callers |
| `PausesAreExact` | `PausesAreCut` | `Recorder`, one caller |
| `StopIsClean` | `CleanStop` | `MCRecorder` |
| `InductiveInvariant` | `IInv` | `Recorder`, any number of callers |

`ConstantsAssumption` says that the clock has a bound and that `None` is not a medium; `MCRecorder`
assumes that its one caller is one of the callers.

**The argument.** `FinalStop` rests on `Stopped`: a stopped recorder has no transition under way and does not play,
so that a report of the pipeline means nothing to it. The other two are about one caller (with two of
them the rest of one's record can end the stop of the other, and the code cannot promise as much).
`SInv` adds where that caller is (`Place`), that the pipeline plays exactly when the recorder takes it to
(`Pipe`), that a pause is being counted while the recorder is paused from playing (`Pausing`), and that
the time not paused since the first buffer is what was recorded (`Cut`), of which `PausesAreCut` is the
case in which a buffer is stamped: while a start is under way too, when a pause that is not counted
yet (`Uncounted`) is still in the stamp. `CleanStop` adds where the end-of-stream of the stop is.

`ElementsProofs` proves, for every number of ports, views and threads, every width and position, and every word
and range of UDP ports:

| theorem | property | of |
|---|---|---|
| `RoutesAreKept` | `TypeOK`, `RoutesAsAsked` | `RoutingHubs`, by itself |
| `RoutedAsAsked` | `Routed` | `MCElements` |
| `PicturesFit` | `OneSize` | `MCElements` |
| `ViewsAreAsAsked` | `ViewsAsAsked` | `MCElements` |
| `ElementTypes` | `Types` | `MCElements` |
| `MediaAreReachable` | `MediaReachable` | `MCElements` |
| `InductiveInvariant` | `IInv` | `MCElements` |

`ConstantsOK` of `StyleComposite`, `AlphaBlending` and `RtpEndpoint`, which `MCElements` assumes, are types, with
three of substance. The style mixer looks at no fewer ports without a view than there are views (10 and 4 in the
code): with fewer, a view could stay empty while a port is left out. Positions and sizes of a picture are not negative: the interface gives the range 0 to 1
(`elements.AlphaBlending.kmd.json:41`), the code does not test it, and a picture further left than its
width would be cropped by more than there is. Ports and ranges are of the word: they are 16-bit numbers.

**The argument.** *Routes* (`RoutingInv`): a port that a thread is adding or removing is that thread's and not in
the table (`Owned`), and nothing is linked to it (`Blank`); the main port, if the hub has looked at it, is
in the table (`MainKnown`). *Pictures* (`AlphaInv`): each input fits the output as it is drawn (`Fits`), and
two ports are never drawn as the master (`OneMaster`), which is why the handlers that draw one port only
may do so. *Views* (`StyleInv`): the property itself is inductive once it is known that `n_elems` counts the
ports that got a stream and were not taken out (`StyleCounts`), and so is only zero when there is nothing to draw.
The work is in one drawing (`Redrawn`), from any set of ports, any views and any values read before. The code
sorts and fills arrays; the model counts, and the lemmas are about counting: the elements of a finite
strict order have all the ranks from 0 up, each once (`Ranks`: ranks differ, and an injection into as many
numbers is onto), so each port is in one view at
most and each view has one port at most (`FillsOne`, `SlotsAre`), the first port of an enabled view has it (`OwnView`), if a
port is left out no view is empty (`NoneLeft`), and the filled views have the columns from 1 up (`Columns`). *Keys* (`KeysInv`): for each medium, how far its negotiation is says which of its keys are
there (`Begun`), what they are (`KeysOf`), and what the connection uses of them (`Uses`); two
connections have no port in common (`Sockets`). *Ports* (`Scanned`): the pairs that the search has
left behind were all seen busy. A search that has come round has seen everything from its start up; one that
has not is past its start, or went through the end of the word, and then had seen everything above as
well (`Scan`). The code gives no such reason for a range that begins with an odd port, and `MediaReachable`
says nothing of it. *Connections* (`RtpFits`): a pair is made of two ports of which the second was found in the
range, so one of them is (`Touched`); the port that is announced is the even one; a connection is followed once when
it is configured and once when it is started, so that a soft limit has two handlers at most.

**Only model-checked**: liveness under fairness (`ENABLED` as well) is out of the prover's reach: `ResetFinishes`,
`GatheringIsTold`, `SessionAdded`, `CallsReturn`, `StopsComplete`, `SessionEnds`, `RemovalReturns`,
`ElementsLeave`, `EndIsTold`. For them the runs with their bounds are all there is.

Every invariant, every action property and the refinement that a passing run checks are theorems. Two are
proved of less than the run's module allows: `CleanStop` without `accept-eos` (see [Findings](#findings)), and
`PausesAreCut` of one caller. With two callers and a clock TLC violates it: the
rest of one caller's record ends the stop that another had begun in between
(`kms_recorder_endpoint_started` sets the state again after it had let the lock go), and a pause of the
recorder that stop leaves behind is not counted. The run has a clock in the setting with one caller only.

## Plan

Of what was planned, the models are there, and every safety property of a passing run is proved. What
could follow, in this order:

1. `Recorder`: `CleanStop` with `accept-eos`, but for the stop that meets the end of the sources; it needs to be
   known which report of the end belongs to which stop.
2. The safety half of the calls that return: that outside of the named states whoever holds a lock is never
   waiting for another one. It would say of every number of threads what the liveness properties say of two.
3. A multipart body whose boundary occurs within a part, of which `PostUpload` would have to say that the part ends there.

**Assumptions about what is not in the repository**, which a reader should know: the SDP agent of
kms-core asks for the keys of a medium and then configures it, one medium after the other; sctpdec
waits for the handler of a pad before it removes the pad, and adds pads and sees the resets of
the peer in one thread; libnice ignores a second start of a stream that gathers; the base hub
never gives an identifier of a port twice; libsoup runs its callbacks in one loop.

**Left out for good**: see [Not modelled](#not-modelled).
