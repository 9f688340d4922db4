------------------------------- MODULE DataSession -------------------------------
(***************************************************************************)
(* The data channels of one WebRTC endpoint: KmsWebRtcDataSessionBin       *)
(* together with the KmsWebRtcDataChannelBin elements it owns              *)
(* (kmswebrtcdatasessionbin.c, kmswebrtcdatachannelbin.c).                 *)
(*                                                                         *)
(* Threads.  Application threads create, use and destroy channels; each    *)
(* stream the SCTP decoder exposes has a streaming thread that runs the    *)
(* channel's message handlers; thread-pool workers reset streams; the SCTP *)
(* thread, which takes the packets of the association one by one, exposes  *)
(* the streams and removes those the peer resets.  One action is one       *)
(* critical section of a lock or what a thread does between two of them,   *)
(* so that what others may do in between is explored.                      *)
(*                                                                         *)
(* The remote peer is arbitrary: it may send any message on any stream.    *)
(* sctpdec, sctpenc and the peer are outside the repository; they do what  *)
(* the callbacks in the source rely on and nothing more.                   *)
(***************************************************************************)
EXTENDS Integers, Sequences, Functions

CONSTANTS
    StreamIds,    \* SCTP stream identifiers, numbers
    ClientMode,   \* "dtls-client-mode": the client owns the even identifiers
    MaxBins,      \* bound: channel elements ever created
    MaxMessages,  \* bound: control messages the peer sends
    MaxFlips      \* bound: changes of the SCTP association

NoBin == 0
NoPad == -1
NoId == -1
Free == -1
Bins == 1 .. MaxBins

ASSUME ConstantsAssumption ==
    /\ StreamIds \subseteq Nat
    /\ ClientMode \in BOOLEAN
    /\ MaxBins \in Nat /\ MaxMessages \in Nat /\ MaxFlips \in Nat

VARIABLES
    established,  \* session_established
    pending,      \* the list of channels created before the association, newest first
    nextId,       \* even_id in client mode, odd_id in server mode
    table,        \* data_channels: stream id -> channel element
    handles,      \* channels: stream id -> element behind the KmsWebRtcDataChannel
    made,         \* number of channel elements created so far
    id,           \* the stream id each element was created with
    state,        \* each element's state
    negotiated,   \* the elements whose negotiated flag is set
    unlinkable,   \* the elements created with both reliability limits
    said,         \* the kinds of message each element has pushed to sctpenc
    opening,      \* where the application thread is in request_open
    pad,          \* sctpdec's source pads and the element each one is linked to
    pc,           \* where the streaming thread of a pad is in its handler
    sctp,         \* where the SCTP thread is in pad_added or pad_removed
    jobs,         \* thread-pool jobs per channel element
    mutex,        \* session mutex: the stream under reset, or Free
    opened,       \* each element's share of priv->opened
    closed,       \* each element's share of priv->closed
    msgs, flips   \* what the peer and the association did, for the bounds

vars == <<established, flips, nextId, made, id, unlinkable, pad, pc, sctp,
          opened, closed, pending, table, handles, state, negotiated, said,
          opening, jobs, mutex, msgs>>

\* Identifiers this side may pick; every other one but 65535 is the peer's.
Own(i) == (i % 2 = 0) <=> ClientMode
IsValidRemote(i) == ~Own(i) /\ i # 65535

Made == 1 .. made
Pending == Range(pending)
Removed(b) == b \in Made /\ b \notin Pending /\ \A i \in StreamIds : table[i] # b

\* The callback the SCTP thread is in, its stream and its channel.
Idle == [at |-> "idle", stream |-> NoId, channel |-> NoBin]
SctpAt(label, i) == sctp.at = label /\ sctp.stream = i
SctpGoes(label, i, b) == sctp' = [at |-> label, stream |-> i, channel |-> b]

Init ==
    /\ established = FALSE
    /\ pending = <<>>
    /\ nextId = IF ClientMode THEN 0 ELSE 1
    /\ table = [i \in StreamIds |-> NoBin]
    /\ handles = [i \in StreamIds |-> NoBin]
    /\ made = 0
    /\ id = [b \in Bins |-> NoId]
    /\ state = [b \in Bins |-> "CLOSED"]
    /\ negotiated = {}
    /\ unlinkable = {}
    /\ said = [b \in Bins |-> {}]
    /\ opening = [b \in Bins |-> "no"]
    /\ pad = [i \in StreamIds |-> NoPad]
    /\ pc = [i \in StreamIds |-> "idle"]
    /\ jobs = [b \in Bins |-> 0]
    /\ sctp = Idle
    /\ mutex = Free
    /\ opened = [b \in Bins |-> 0]
    /\ closed = [b \in Bins |-> 0]
    /\ msgs = 0
    /\ flips = 0

\* kms_webrtc_data_channel_bin_new: the next element, for stream i.
NewChannel(i) ==
    /\ made + 1 \in Bins
    /\ made' = made + 1
    /\ id' = [id EXCEPT ![made + 1] = i]

(***************************************************************************)
(* Application threads.                                                    *)
(***************************************************************************)

\* The first identifier of this side's parity, from the last one picked on,
\* that no channel of the table has.
IsPicked(i) ==
    /\ Own(i) /\ i >= nextId /\ table[i] = NoBin
    /\ \A j \in StreamIds : Own(j) /\ j >= nextId /\ j < i => table[j] # NoBin

\* Linking asks for the caps, NULL when both reliability limits are set, and for
\* sctpenc's sink_<id> pad: it refuses 65535 and a name in use, and the pad is in
\* use exactly while the table has the identifier.
CanLink(b) == b \notin unlinkable /\ id[b] # 65535 /\ table[id[b]] = NoBin

\* The channel goes to the pending list before the association, to the table after
\* it, and nowhere (the call returns -1) when it cannot be linked.
CreateDataChannel(i, both) ==
    LET b == made + 1 IN
    /\ mutex = Free
    /\ IsPicked(i)
    /\ NewChannel(i)
    /\ nextId' = i
    /\ unlinkable' = IF both THEN unlinkable \cup {b} ELSE unlinkable
    /\ \/ /\ ~established
          /\ pending' = <<b>> \o pending
          /\ UNCHANGED <<table, opening>>
       \/ /\ established /\ ~both /\ i # 65535
          /\ table' = [table EXCEPT ![i] = b]
          /\ opening' = [opening EXCEPT ![b] = "request"]
          /\ UNCHANGED pending
       \/ /\ established /\ (both \/ i = 65535)
          /\ UNCHANGED <<pending, table, opening>>
    /\ UNCHANGED <<established, flips, pad, pc, sctp, opened, closed, handles, state,
                   negotiated, said, jobs, mutex, msgs>>

\* request_open, first critical section.
RequestOpen(b) ==
    /\ opening[b] = "request"
    /\ \/ /\ b \in negotiated \/ state[b] # "CLOSED"
          /\ opening' = [opening EXCEPT ![b] = "no"]
          /\ UNCHANGED state
       \/ /\ b \notin negotiated /\ state[b] = "CLOSED"
          /\ opening' = [opening EXCEPT ![b] = "push"]
          /\ state' = [state EXCEPT ![b] = "CONNECTING"]
    /\ UNCHANGED <<established, flips, nextId, made, id, unlinkable, pad, pc, sctp,
                   opened, closed, pending, table, handles, negotiated, said,
                   jobs, mutex, msgs>>

\* request_open pushes the OPEN message; appsrc may refuse it, which is only logged.
PushOpen(b) ==
    /\ opening[b] = "push"
    /\ opening' = [opening EXCEPT ![b] = "no"]
    /\ said' \in {said, [said EXCEPT ![b] = @ \cup {"OPEN"}]}
    /\ UNCHANGED <<established, flips, nextId, made, id, unlinkable, pad, pc, sctp,
                   opened, closed, pending, table, handles, state, negotiated,
                   jobs, mutex, msgs>>

\* push_buffer, through the KmsWebRtcDataChannel of the stream.
PushBuffer(i) ==
    LET b == handles[i] IN
    /\ b # NoBin
    /\ state[b] \in {"CONNECTING", "OPEN"}
    /\ said' = [said EXCEPT ![b] = @ \cup {"DATA"}]
    /\ UNCHANGED <<established, flips, nextId, made, id, unlinkable, pad, pc, sctp,
                   opened, closed, pending, table, handles, state, negotiated,
                   opening, jobs, mutex, msgs>>

\* destroy_data_channel_action and the request_close it emits.
DestroyDataChannel(i) ==
    LET b == table[i] IN
    /\ mutex = Free
    /\ b # NoBin
    /\ state[b] \in {"CONNECTING", "OPEN"}
    /\ state' = [state EXCEPT ![b] = "CLOSING"]
    /\ jobs' = [jobs EXCEPT ![b] = @ + 1]
    /\ UNCHANGED <<established, flips, nextId, made, id, unlinkable, pad, pc, sctp,
                   opened, closed, pending, table, handles, negotiated, said,
                   opening, mutex, msgs>>

(***************************************************************************)
(* SCTP association.  When it comes up the pending channels are linked and *)
(* opened, newest first, under the session mutex; one that cannot be       *)
(* linked is dropped.                                                      *)
(***************************************************************************)

Activated ==
    {pending[k] : k \in {k \in DOMAIN pending :
        /\ CanLink(pending[k])
        /\ \A j \in 1 .. k - 1 : id[pending[j]] = id[pending[k]]
                                   => ~CanLink(pending[j])}}

AssociationUp ==
    /\ mutex = Free /\ ~established /\ flips < MaxFlips
    /\ flips' = flips + 1
    /\ established' = TRUE
    /\ table' \in [StreamIds -> Bins \cup {NoBin}]
    /\ \A i \in StreamIds :
         IF \E b \in Activated : id[b] = i
         THEN table'[i] \in Activated /\ id[table'[i]] = i
         ELSE table'[i] = table[i]
    /\ state' = [b \in Bins |-> IF b \in Activated THEN "CONNECTING" ELSE state[b]]
    /\ \E pushed \in SUBSET Activated :
         said' = [b \in Bins |-> IF b \in pushed THEN {"OPEN"} ELSE said[b]]
    /\ pending' = <<>>
    /\ UNCHANGED <<nextId, made, id, unlinkable, pad, pc, sctp, opened, closed,
                   handles, negotiated, opening, jobs, mutex, msgs>>

AssociationDown ==
    /\ mutex = Free /\ established /\ flips < MaxFlips
    /\ flips' = flips + 1
    /\ established' = FALSE
    /\ UNCHANGED <<nextId, made, id, unlinkable, pad, pc, sctp, opened, closed,
                   pending, table, handles, state, negotiated, said, opening,
                   jobs, mutex, msgs>>

(***************************************************************************)
(* The SCTP thread exposes a stream: the pad is there, and pad_added waits  *)
(* for the session mutex.  It finds the local channel with the identifier  *)
(* or creates the remote one, and links the two without the mutex; a pad   *)
(* whose identifier is neither known nor the peer's stays unlinked.        *)
(***************************************************************************)

ExposePad(i) ==
    /\ sctp = Idle /\ established
    /\ pad[i] = NoPad
    /\ msgs < MaxMessages
    /\ pad' = [pad EXCEPT ![i] = NoBin]
    /\ SctpGoes("adding", i, NoBin)
    /\ UNCHANGED <<established, flips, nextId, made, id, unlinkable, pc, opened,
                   closed, pending, table, handles, state, negotiated, said,
                   opening, jobs, mutex, msgs>>

PadAdded(i) ==
    /\ SctpAt("adding", i) /\ mutex = Free
    /\ \/ /\ table[i] # NoBin
          /\ SctpGoes("linking", i, table[i])
          /\ UNCHANGED <<table, made, id>>
       \/ /\ table[i] = NoBin /\ IsValidRemote(i)
          /\ NewChannel(i)
          /\ table' = [table EXCEPT ![i] = made']
          /\ SctpGoes("linking", i, made')
       \/ /\ table[i] = NoBin /\ ~IsValidRemote(i)
          /\ sctp' = Idle
          /\ UNCHANGED <<table, made, id>>
    /\ UNCHANGED <<established, flips, nextId, unlinkable, pad, pc, opened,
                   closed, pending, handles, state, negotiated, said, opening,
                   jobs, mutex, msgs>>

\* A pad that a worker removed in the meantime gives no data any more.
LinkPad(i) ==
    /\ SctpAt("linking", i)
    /\ pad' = [pad EXCEPT ![i] = IF @ = NoPad THEN NoPad ELSE sctp.channel]
    /\ sctp' = Idle
    /\ UNCHANGED <<established, flips, nextId, made, id, unlinkable, pc, opened,
                   closed, pending, table, handles, state, negotiated, said,
                   opening, jobs, mutex, msgs>>

(***************************************************************************)
(* Streaming thread of a pad: new_data_callback and the handlers it calls. *)
(***************************************************************************)

\* A control message reaches a linked pad that is not being deactivated.
Receive(i) ==
    /\ pad[i] \in Bins /\ pc[i] = "idle" /\ mutex # i
    /\ msgs < MaxMessages
    /\ msgs' = msgs + 1

\* What no handler touches.
OthersUnchanged ==
    UNCHANGED <<established, flips, nextId, made, id,
                unlinkable, closed, pad, sctp, pending, table, opening, mutex>>

\* KMS_WEBRTC_DATA_CHANNEL_RESET: state and thread-pool job, whatever the state was.
\* (The first form, without the reset callback, is a mutant.)
ResetWithoutJob(b) == state' = [state EXCEPT ![b] = "CLOSING"] /\ UNCHANGED jobs

Reset(b) ==
    /\ state' = [state EXCEPT ![b] = "CLOSING"]
    /\ jobs' = [jobs EXCEPT ![b] = @ + 1]

\* The channel becomes OPEN whatever its state is, and "negotiated" is emitted.
\* (The first form, without the signal, is a mutant.)
NegotiateSilently(i) ==
    /\ state' = [state EXCEPT ![pad[i]] = "OPEN"]
    /\ negotiated' = negotiated \cup {pad[i]}
    /\ UNCHANGED pc

Negotiate(i) ==
    /\ state' = [state EXCEPT ![pad[i]] = "OPEN"]
    /\ negotiated' = negotiated \cup {pad[i]}
    /\ pc' = [pc EXCEPT ![i] = "notify"]

\* A malformed or unknown control message, or an unsupported payload identifier.
HandleInvalid(i) ==
    /\ Receive(i)
    /\ Reset(pad[i])
    /\ UNCHANGED <<pc, negotiated, said, handles, opened>>
    /\ OthersUnchanged

\* A well-formed OPEN request: ignored unless the channel is CLOSED.
HandleOpenRequest(i) ==
    LET b == pad[i] IN
    /\ Receive(i)
    /\ \/ /\ state[b] # "CLOSED"
          /\ UNCHANGED <<state, negotiated, pc>>
       \/ /\ state[b] = "CLOSED"
          /\ state' = [state EXCEPT ![b] = "CONNECTING"]
          /\ negotiated' = negotiated \ {b}
          /\ pc' = [pc EXCEPT ![i] = "ack"]
    /\ UNCHANGED <<said, jobs, handles, opened>>
    /\ OthersUnchanged

\* send_data_channel_ack pushes the ACK without the channel's lock.
PushAck(i) ==
    LET b == pad[i] IN
    /\ pc[i] = "ack"
    /\ \/ /\ said' = [said EXCEPT ![b] = @ \cup {"ACK"}]
          /\ pc' = [pc EXCEPT ![i] = "acked"]
          /\ UNCHANGED <<state, jobs>>
       \/ /\ Reset(b)
          /\ pc' = [pc EXCEPT ![i] = "idle"]
          /\ UNCHANGED said
    /\ UNCHANGED <<negotiated, handles, opened, msgs>>
    /\ OthersUnchanged

\* ... and then sets the state, whatever it has become.
AckPushed(i) ==
    /\ pc[i] = "acked"
    /\ Negotiate(i)
    /\ UNCHANGED <<said, jobs, handles, opened, msgs>>
    /\ OthersUnchanged

\* handle_ack, in any state.
HandleAck(i) ==
    /\ Receive(i)
    /\ Negotiate(i)
    /\ UNCHANGED <<said, jobs, handles, opened>>
    /\ OthersUnchanged

\* data_channel_negotiated_cb, under the session mutex.
NegotiatedCb(i) ==
    /\ pc[i] = "notify" /\ mutex = Free
    /\ handles' = [handles EXCEPT ![i] = IF @ = NoBin THEN pad[i] ELSE @]
    /\ pc' = [pc EXCEPT ![i] = "emit"]
    /\ UNCHANGED <<state, negotiated, said, jobs, opened, msgs>>
    /\ OthersUnchanged

\* ... and, after the mutex is released, the counter and "data-channel-opened".
EmitOpened(i) ==
    /\ pc[i] = "emit"
    /\ opened' = [opened EXCEPT ![pad[i]] = @ + 1]
    /\ pc' = [pc EXCEPT ![i] = "idle"]
    /\ UNCHANGED <<state, negotiated, said, jobs, handles, msgs>>
    /\ OthersUnchanged

(***************************************************************************)
(* Reset of a stream.  sctpdec removes the pad once the pad's streaming    *)
(* thread is out of its handler, and then runs pad_removed in the thread   *)
(* that asked for it.  It removes a pad once.                              *)
(***************************************************************************)

RemovePad(i) ==
    /\ pad[i] # NoPad /\ pc[i] = "idle"
    /\ pad' = [pad EXCEPT ![i] = NoPad]

\* The stream leaves both tables.  (KeepHandle and KeepChannel are mutants.)
KeepHandle(i) == UNCHANGED handles
ForgetHandle(i) == handles' = [handles EXCEPT ![i] = NoBin]

KeepChannel(i) == UNCHANGED table
ForgetChannel(i) == table' = [table EXCEPT ![i] = NoBin]

Closed(b) == closed' = [closed EXCEPT ![b] = @ + 1]

\* The peer reset the stream: the SCTP thread removes the pad, without the mutex ...
RemoteReset(i) ==
    /\ sctp = Idle
    /\ RemovePad(i)
    /\ SctpGoes("removing", i, NoBin)
    /\ UNCHANGED <<established, flips, nextId, made, id, unlinkable, pc, opened,
                   closed, pending, table, handles, state, negotiated, said,
                   opening, jobs, mutex, msgs>>

\* ... waits for the mutex in pad_removed and forgets the channel ...
PadRemoved(i) ==
    /\ SctpAt("removing", i) /\ mutex = Free
    /\ ForgetChannel(i)
    /\ ForgetHandle(i)
    /\ IF table[i] = NoBin THEN sctp' = Idle ELSE SctpGoes("closing", i, table[i])
    /\ UNCHANGED <<established, flips, nextId, made, id, unlinkable, pad, pc,
                   opened, closed, pending, state, negotiated, said, opening,
                   jobs, mutex, msgs>>

\* ... and emits "data-channel-closed" after it released the mutex.
EmitClosed(i) ==
    /\ SctpAt("closing", i)
    /\ Closed(sctp.channel)
    /\ sctp' = Idle
    /\ UNCHANGED <<established, flips, nextId, made, id, unlinkable, pad, pc,
                   opened, pending, table, handles, state, negotiated, said,
                   opening, jobs, mutex, msgs>>

\* reset_stream_async takes the session mutex and asks sctpdec to reset the stream.
\* A job holds no reference: after its element is gone the identifier it reads is
\* whatever the freed memory holds.  (AnyJob, a worker without a job, is a mutant.)
AnyJob(b) == b \in Made
HasJob(b) == jobs[b] > 0

ResetStreamAsync(b) ==
    /\ HasJob(b) /\ mutex = Free
    /\ jobs' = [jobs EXCEPT ![b] = @ - 1]
    /\ \E i \in StreamIds :
         /\ Removed(b) \/ i = id[b]
         /\ mutex' = IF pad[i] = NoPad THEN Free ELSE i
    /\ UNCHANGED <<established, flips, nextId, made, id, unlinkable, pad, pc,
                   sctp, opened, closed, pending, table, handles, state, negotiated,
                   said, opening, msgs>>

\* sctpdec removes the pad inside "reset-stream", and pad_removed runs with the mutex
\* still held, unless the SCTP thread has removed the pad meanwhile; then the mutex is
\* released.  (KeepMutex is a mutant.)
KeepMutex == UNCHANGED mutex
ReleaseMutex == mutex' = Free

ResetStream(i) ==
    /\ mutex = i
    /\ ReleaseMutex
    /\ \/ /\ RemovePad(i)
          /\ ForgetChannel(i)
          /\ ForgetHandle(i)
          /\ IF table[i] = NoBin THEN UNCHANGED closed ELSE Closed(table[i])
       \/ /\ pad[i] = NoPad
          /\ UNCHANGED <<pad, table, handles, closed>>
    /\ UNCHANGED <<established, flips, nextId, made, id, unlinkable, pc, sctp,
                   opened, pending, state, negotiated, said, opening, jobs, msgs>>

(***************************************************************************)

Next ==
    \/ \E i \in StreamIds, both \in BOOLEAN : CreateDataChannel(i, both)
    \/ \E b \in Bins : RequestOpen(b) \/ PushOpen(b) \/ ResetStreamAsync(b)
    \/ AssociationUp \/ AssociationDown
    \/ \E i \in StreamIds :
         \/ PushBuffer(i) \/ DestroyDataChannel(i)
         \/ ExposePad(i) \/ PadAdded(i) \/ LinkPad(i)
         \/ HandleInvalid(i) \/ HandleOpenRequest(i) \/ HandleAck(i)
         \/ PushAck(i) \/ AckPushed(i) \/ NegotiatedCb(i) \/ EmitOpened(i)
         \/ RemoteReset(i) \/ PadRemoved(i) \/ EmitClosed(i) \/ ResetStream(i)

Spec == Init /\ [][Next]_vars

\* Every thread that has started something goes on with it; nothing is assumed of
\* the application, the peer or the association.
Fairness ==
    /\ \A b \in Bins : WF_vars(RequestOpen(b) \/ PushOpen(b))
                       /\ WF_vars(ResetStreamAsync(b))
    /\ \A i \in StreamIds :
         /\ WF_vars(PushAck(i) \/ AckPushed(i) \/ NegotiatedCb(i) \/ EmitOpened(i))
         /\ WF_vars(PadAdded(i) \/ LinkPad(i) \/ PadRemoved(i) \/ EmitClosed(i))
         /\ WF_vars(ResetStream(i))

FairSpec == Spec /\ Fairness

(***************************************************************************)
(* Properties.                                                             *)
(***************************************************************************)

TypeOK ==
    /\ established \in BOOLEAN
    /\ pending \in Seq(Bins)
    /\ nextId \in Int
    /\ table \in [StreamIds -> Bins \cup {NoBin}]
    /\ handles \in [StreamIds -> Bins \cup {NoBin}]
    /\ made \in 0 .. MaxBins
    /\ id \in [Bins -> StreamIds \cup {NoId}]
    /\ state \in [Bins -> {"CONNECTING", "OPEN", "CLOSING", "CLOSED"}]
    /\ negotiated \in SUBSET Bins
    /\ unlinkable \in SUBSET Bins
    /\ said \in [Bins -> SUBSET {"OPEN", "ACK", "DATA"}]
    /\ opening \in [Bins -> {"no", "request", "push"}]
    /\ pad \in [StreamIds -> Bins \cup {NoBin, NoPad}]
    /\ pc \in [StreamIds -> {"idle", "ack", "acked", "notify", "emit"}]
    /\ sctp \in [at: {"idle", "adding", "linking", "removing", "closing"},
                stream: StreamIds \cup {NoId}, channel: Bins \cup {NoBin}]
    /\ jobs \in [Bins -> Nat]
    /\ mutex \in StreamIds \cup {Free}
    /\ opened \in [Bins -> Nat]
    /\ closed \in [Bins -> Nat]
    /\ msgs \in Nat /\ flips \in Nat

(***************************************************************************)
(* A KmsWebRtcDataChannel keeps a raw pointer to its element               *)
(* (channel_bin): while the session hands one out, that element is still   *)
(* the stream's channel, whatever the application, the peer and the pool   *)
(* do between two critical sections.                                       *)
(***************************************************************************)
HandleBacked == \A i \in StreamIds : handles[i] # NoBin => table[i] = handles[i]

(***************************************************************************)
(* No user message is lost around the handshake: when the streaming thread *)
(* is ready for the next message of a negotiated channel, the receiver's   *)
(* callback (set by kms_webrtc_data_channel_new) is in place.              *)
(***************************************************************************)
ReceiverReady ==
    \A i \in StreamIds :
        pad[i] \in Bins /\ pc[i] = "idle" /\ pad[i] \in negotiated
          => handles[i] = pad[i]

(***************************************************************************)
(* Closing a channel the peer opened is never forgotten: as long as the    *)
(* channel is CLOSING a thread-pool job is queued for it or is resetting   *)
(* its stream, or the pad is already gone and the SCTP thread is about to  *)
(* forget the channel.  (A job that runs then finds no pad and does        *)
(* nothing.)                                                               *)
(***************************************************************************)
RemoteCloseInFlight ==
    \A i \in StreamIds :
        table[i] # NoBin /\ ~Own(i) /\ state[table[i]] = "CLOSING"
          => jobs[table[i]] > 0 \/ mutex = i \/ SctpAt("removing", i)

(***************************************************************************)
(* The application sees at most one "data-channel-closed" of a channel and *)
(* no "data-channel-opened" of it afterwards, although the two are emitted *)
(* by different threads outside the session mutex.                         *)
(***************************************************************************)
EventsInOrder ==
    [][\A b \in Bins :
          opened'[b] # opened[b] \/ closed'[b] # closed[b] => closed[b] = 0]_vars

\* The worker that resets stream i holds the session mutex and waits for the
\* streaming thread, which waits for the session mutex.
CircularWait(i) == mutex = i /\ pc[i] = "notify"

(***************************************************************************)
(* Resetting finishes: unless that circular wait is reached, a queued job  *)
(* runs and the mutex it takes is released.                                *)
(***************************************************************************)
ResetFinishes ==
    [](\A i \in StreamIds : ~CircularWait(i))
      => \A b \in Bins : jobs[b] > 0 ~> (jobs[b] = 0 /\ mutex = Free)

(***************************************************************************)
(* The id property of the channel element says that in case of conflict    *)
(* the channel should fail.  Two channels created before the association   *)
(* is up get the same identifier; both calls succeed.                      *)
(***************************************************************************)
ConflictFails ==
    \A b, c \in Pending : id[b] = id[c] => b = c

(***************************************************************************)
(* The reset of a stream is handed to a thread pool so that nobody waits   *)
(* for it in a handler; the worker takes the session mutex over it, and    *)
(* the two can wait for each other forever.                                *)
(***************************************************************************)
NoCircularWait == \A i \in StreamIds : ~CircularWait(i)

==================================================================================
