------------------------------- MODULE ChannelTable -------------------------------
(***************************************************************************)
(* The data channels as the WebRTC session keeps them                      *)
(* (kmswebrtcsession.c, data channel part): the data session is added when *)
(* its connection is up, a channel that opens gets pads and an entry in    *)
(* the session's own table, which takes MAX_DATA_CHANNELS, and a channel   *)
(* that closes loses them.                                                 *)
(*                                                                         *)
(* Two locks are crossed here.  The session takes the SDP lock first and   *)
(* the mutex of the data session bin under it; a reset of the bin holds    *)
(* its mutex while the session's closed callback takes the SDP lock.       *)
(* DataSession models the bin and its messages; here a channel element is  *)
(* connecting, open or closing.                                            *)
(*                                                                         *)
(* sctpdec is not in the repository: it waits for the handler of a pad     *)
(* before it removes the pad, and one thread of it adds pads and sees the  *)
(* resets of the peer.                                                     *)
(***************************************************************************)
EXTENDS Integers, FiniteSets

CONSTANTS
    Own,         \* stream identifiers of this side
    Peers,       \* stream identifiers of the peer
    MaxBins,     \* bound: channel elements ever created
    MaxMessages, \* bound: OPEN and ACK messages of the peer
    MaxCalls     \* bound: calls of the application

StreamIds == Own \union Peers

\* An assumption of the modules that give the constants their values.
ConstantsOK == StreamIds \subseteq Nat /\ MaxBins \in Nat /\ MaxCalls \in Nat

Bins == 1 .. MaxBins
NoBin == 0
MAX_DATA_CHANNELS == 1

VARIABLES
    key,          \* the DTLS connection: "no", "connected" (set), "signalled"
    hook,         \* support_sctp_stream: "no", "created", "handler", "attach", "waiting"
    attaching,    \* the threads that have won the exchange of data->connected
    sessions,     \* times the data session was added to the bin
    made, id, state,       \* channel elements
    data_channels, pad, pc,\* the bin's table, sctpdec's pads, the handler of a pad
    table,        \* the session's table: stream id -> element
    jobs,         \* thread-pool jobs of an element
    closing,      \* who is in the closed callback: [by, id, bin, stolen]
    sdp_mutex, mutex, \* the holders of the SDP lock and of the bin's mutex
    call,         \* what the application has called
    calls, msgs,
    opened, closed  \* elements told as opened, as closed

hookup == <<key, hook, attaching, sessions>>
element == <<made, id, state>>
bin == <<data_channels, pad>>
told == <<opened, closed>>
locks == <<sdp_mutex, mutex>>
app == <<call, calls>>
vars == <<hookup, element, bin, pc, table, jobs, closing, locks, app, msgs, told>>

Free == -1
App == -2
Idle == [op |-> "idle", id |-> 0]

Init ==
    /\ key = "no" /\ hook = "no" /\ attaching = FALSE /\ sessions = 0
    /\ made = 0 /\ id = [b \in Bins |-> 0] /\ state = [b \in Bins |-> "new"]
    /\ data_channels = [i \in StreamIds |-> NoBin]
    /\ pad = [i \in StreamIds |-> NoBin] /\ pc = [i \in StreamIds |-> "idle"]
    /\ table = [i \in StreamIds |-> NoBin]
    /\ jobs = [b \in Bins |-> 0] /\ closing = {}
    /\ sdp_mutex = Free /\ mutex = Free /\ call = Idle /\ calls = 0 /\ msgs = 0
    /\ opened = {} /\ closed = {}

-----------------------------------------------------------------------------
(* The connection and the data session. *)

\* support_sctp_stream: the session, then the handler, then the question.
CreateSession ==
    /\ hook = "no" /\ hook' = "created"
    /\ UNCHANGED <<key, attaching, sessions, element, bin, pc, table, jobs, closing,
                   locks, app, msgs, told>>

ConnectHandler ==
    /\ hook = "created" /\ hook' = "handler"
    /\ UNCHANGED <<key, attaching, sessions, element, bin, pc, table, jobs, closing,
                   locks, app, msgs, told>>

\* Asks "connected"; the exchange of data->connected lets one thread through.
\* (The first form, which leaves it to the signal, is a mutant.)
LeaveToSignal ==
    /\ hook = "handler" /\ hook' = "waiting"
    /\ UNCHANGED <<key, attaching, sessions, element, bin, pc, table, jobs, closing,
                   locks, app, msgs, told>>

AskConnected ==
    /\ hook = "handler"
    /\ attaching' = (attaching \/ key # "no")
    /\ hook' = IF key # "no" /\ ~attaching THEN "attach" ELSE "waiting"
    /\ UNCHANGED <<key, sessions, element, bin, pc, table, jobs, closing, locks, app,
                   msgs, told>>

\* on-key-set: the property, then the signal.
KeySet ==
    /\ key = "no" /\ key' = "connected"
    /\ UNCHANGED <<hook, attaching, sessions, element, bin, pc, table, jobs, closing,
                   locks, app, msgs, told>>

\* The signal: its handler adds the session if it wins the exchange.
\* (The first form, without the exchange, is a mutant.)
ConnectedAnyway ==
    /\ key = "connected"
    /\ key' = IF hook \in {"handler", "waiting", "attach"} THEN "attach" ELSE "signalled"
    /\ UNCHANGED <<hook, attaching, sessions, element, bin, pc, table, jobs, closing,
                   locks, app, msgs, told>>

Connected ==
    /\ key = "connected"
    /\ IF hook \in {"handler", "waiting", "attach"} /\ ~attaching
       THEN key' = "attach" /\ attaching' = TRUE
       ELSE key' = "signalled" /\ UNCHANGED attaching
    /\ UNCHANGED <<hook, sessions, element, bin, pc, table, jobs, closing, locks, app,
                   msgs, told>>

\* add_data_session, by the thread that won, with the SDP lock.
AddDataSession ==
    /\ sdp_mutex = Free
    /\ \/ hook = "attach" /\ hook' = "waiting" /\ UNCHANGED key
       \/ key = "attach" /\ key' = "signalled" /\ UNCHANGED hook
    /\ sessions' = sessions + 1
    /\ UNCHANGED <<attaching, element, bin, pc, table, jobs, closing, locks, app, msgs,
                   told>>

-----------------------------------------------------------------------------
(* The application: create and destroy, with the SDP lock. *)

Call(op, i) ==
    /\ call = Idle /\ calls < MaxCalls /\ hook # "no"
    /\ op = "create" => made < MaxBins /\ sessions > 0
    /\ call' = [op |-> op, id |-> i] /\ calls' = calls + 1
    /\ UNCHANGED <<hookup, element, bin, pc, table, jobs, closing, locks, msgs, told>>

CallLocks ==
    /\ call # Idle /\ sdp_mutex = Free
    /\ sdp_mutex' = App
    /\ UNCHANGED <<hookup, element, bin, pc, table, jobs, closing, mutex, app, msgs, told>>

NewElement(i, s) ==
    /\ made' = made + 1
    /\ id' = [id EXCEPT ![made + 1] = i]
    /\ state' = [state EXCEPT ![made + 1] = s]
    /\ data_channels' = [data_channels EXCEPT ![i] = made + 1]

Return == call' = Idle /\ sdp_mutex' = Free /\ UNCHANGED calls

\* The bin gives an identifier that its table does not have.
Create ==
    /\ call.op = "create" /\ sdp_mutex = App /\ mutex = Free
    /\ Return
    /\ IF \E i \in Own : data_channels[i] = NoBin
       THEN \E i \in Own : data_channels[i] = NoBin /\ NewElement(i, "connecting")
       ELSE UNCHANGED <<element, data_channels>>
    /\ UNCHANGED <<hookup, pad, pc, table, jobs, closing, mutex, msgs, told>>

\* destroy-data-channel: the element, if it is there, is reset by a worker.
Reset(b) ==
    IF b # NoBin /\ state[b] \in {"connecting", "open"}
    THEN state' = [state EXCEPT ![b] = "closing"] /\ jobs' = [jobs EXCEPT ![b] = @ + 1]
    ELSE UNCHANGED <<state, jobs>>

Destroy ==
    /\ call.op = "destroy" /\ sdp_mutex = App /\ mutex = Free
    /\ Return
    /\ Reset(data_channels[call.id])
    /\ UNCHANGED <<hookup, made, id, bin, pc, table, closing, mutex, msgs, told>>

-----------------------------------------------------------------------------
(* A stream of the association: its pad, its messages. *)

SctpThreadFree == \A c \in closing : c.by # "peer"

PadAdded(i) ==
    /\ sessions > 0 /\ SctpThreadFree /\ mutex = Free /\ pad[i] = NoBin
    /\ IF data_channels[i] # NoBin
       THEN /\ pad' = [pad EXCEPT ![i] = data_channels[i]]
            /\ UNCHANGED <<element, data_channels>>
       ELSE /\ i \in Peers /\ made < IF call.op = "create" THEN MaxBins - 1 ELSE MaxBins
            /\ NewElement(i, "new")
            /\ pad' = [pad EXCEPT ![i] = made']
    /\ UNCHANGED <<hookup, pc, table, jobs, closing, locks, app, msgs, told>>

\* A request to open makes a new channel open, an acknowledgement any channel.
Negotiate(i) ==
    /\ pad[i] # NoBin /\ pc[i] = "idle" /\ msgs < MaxMessages
    /\ msgs' = msgs + 1
    /\ state' = [state EXCEPT ![pad[i]] = "open"]
    /\ pc' = [pc EXCEPT ![i] = "negotiated"]
    /\ UNCHANGED <<hookup, made, id, bin, table, jobs, closing, locks, app, told>>

\* The bin keeps a handle of the channel and reports it.
NegotiatedCb(i) ==
    /\ pc[i] = "negotiated" /\ mutex = Free
    /\ pc' = [pc EXCEPT ![i] = "opened"]
    /\ UNCHANGED <<hookup, element, bin, table, jobs, closing, locks, app, msgs, told>>

Entries == {i \in StreamIds : table[i] # NoBin}

\* data_channel_opened_cb takes the SDP lock and counts.  (A full table that does
\* not release the lock is a mutant.)
FullKeepsLock(i) ==
    /\ pc[i] = "opened" /\ sdp_mutex = Free
    /\ pc' = [pc EXCEPT ![i] = IF Cardinality(Entries) >= MAX_DATA_CHANNELS
                              THEN "reject" ELSE "get"]
    /\ sdp_mutex' = i
    /\ UNCHANGED <<hookup, element, bin, table, jobs, closing, mutex, app, msgs, told>>

OpenedCb(i) ==
    /\ pc[i] = "opened" /\ sdp_mutex = Free
    /\ IF Cardinality(Entries) >= MAX_DATA_CHANNELS
       THEN pc' = [pc EXCEPT ![i] = "reject"] /\ UNCHANGED sdp_mutex
       ELSE pc' = [pc EXCEPT ![i] = "get"] /\ sdp_mutex' = i
    /\ UNCHANGED <<hookup, element, bin, table, jobs, closing, mutex, app, msgs, told>>

\* A channel too many is destroyed.  (RejectKeeps, which only returns, is a mutant.)
RejectKeeps(i) ==
    /\ pc[i] = "reject"
    /\ pc' = [pc EXCEPT ![i] = "idle"]
    /\ UNCHANGED <<hookup, element, bin, table, jobs, closing, locks, app, msgs, told>>

Reject(i) ==
    /\ pc[i] = "reject" /\ mutex = Free
    /\ Reset(data_channels[i])
    /\ pc' = [pc EXCEPT ![i] = "idle"]
    /\ UNCHANGED <<hookup, made, id, bin, table, closing, locks, app, msgs, told>>

\* get-data-channel under the SDP lock (the handle is there: it goes with the pad);
\* the entry and the pads; the lock is released.
Insert(i) ==
    /\ pc[i] = "get" /\ mutex = Free
    /\ table' = [table EXCEPT ![i] = data_channels[i]]
    /\ pc' = [pc EXCEPT ![i] = "emit"] /\ sdp_mutex' = Free
    /\ UNCHANGED <<hookup, element, bin, jobs, closing, mutex, app, msgs, told>>

EmitOpened(i) ==
    /\ pc[i] = "emit"
    /\ pc' = [pc EXCEPT ![i] = "idle"]
    /\ opened' = opened \union {table[i]}
    /\ UNCHANGED <<hookup, element, bin, table, jobs, closing, locks, app, msgs, closed>>

-----------------------------------------------------------------------------
(* The end of a channel. *)

\* A worker takes the mutex and asks for the reset; without a pad it does nothing.
\* The job holds no reference: the identifier of an element that is gone is any one.
ResetStream(b) ==
    /\ jobs[b] > 0 /\ mutex = Free
    /\ jobs' = [jobs EXCEPT ![b] = @ - 1]
    /\ \E i \in StreamIds :
         /\ data_channels[id[b]] # b \/ i = id[b]
         /\ mutex' = IF pad[i] = NoBin THEN Free ELSE i
    /\ UNCHANGED <<hookup, element, bin, pc, table, closing, sdp_mutex, app, msgs, told>>

\* pad_removed: the element leaves the bin, and the closed callback is called.
PadRemoved(i, by) ==
    /\ pad[i] # NoBin /\ pc[i] = "idle"
    /\ pad' = [pad EXCEPT ![i] = NoBin]
    /\ data_channels' = [data_channels EXCEPT ![i] = NoBin]
    /\ closing' = closing \union {[by |-> by, id |-> i, bin |-> pad[i], stolen |-> NoBin]}
    /\ UNCHANGED <<hookup, element, pc, table, jobs, locks, app, msgs, told>>

WorkerRemoves(i) == mutex = i /\ PadRemoved(i, "worker")

PeerResets(i) == mutex = Free /\ SctpThreadFree /\ PadRemoved(i, "peer")

\* data_channel_closed_cb: the entry is stolen with the SDP lock ...
\* (The first form, without the test of the entry, is a mutant.)
ClosedAnyway(c) ==
    /\ c \in closing /\ c.stolen = NoBin /\ sdp_mutex = Free
    /\ table' = [table EXCEPT ![c.id] = NoBin]
    /\ closing' = (closing \ {c}) \union {[c EXCEPT !.stolen = c.bin]}
    /\ UNCHANGED <<hookup, element, bin, pc, jobs, locks, app, msgs, told>>

ClosedCb(c) ==
    /\ c \in closing /\ c.stolen = NoBin /\ sdp_mutex = Free
    /\ table' = [table EXCEPT ![c.id] = NoBin]
    /\ closing' = IF table[c.id] = NoBin THEN closing \ {c}
                  ELSE (closing \ {c}) \union {[c EXCEPT !.stolen = table[c.id]]}
    /\ mutex' = IF table[c.id] = NoBin /\ c.by = "worker" THEN Free ELSE mutex
    /\ UNCHANGED <<hookup, element, bin, pc, jobs, sdp_mutex, app, msgs, told>>

\* ... and told without it.
EmitClosed(c) ==
    /\ c \in closing /\ c.stolen # NoBin
    /\ closing' = closing \ {c}
    /\ mutex' = IF c.by = "worker" THEN Free ELSE mutex
    /\ closed' = closed \union {c.stolen}
    /\ UNCHANGED <<hookup, element, bin, pc, table, jobs, sdp_mutex, app, msgs, opened>>

Hookup == CreateSession \/ ConnectHandler \/ AskConnected \/ KeySet \/ Connected
          \/ AddDataSession

Stream(i) == NegotiatedCb(i) \/ OpenedCb(i) \/ Reject(i) \/ Insert(i) \/ EmitOpened(i)

Next ==
    \/ Hookup
    \/ \E i \in StreamIds : Call("destroy", i)
    \/ Call("create", 0) \/ CallLocks \/ Create \/ Destroy
    \/ \E i \in StreamIds : PadAdded(i) \/ Negotiate(i) \/ Stream(i) \/ WorkerRemoves(i)
                            \/ PeerResets(i)
    \/ \E b \in Bins : ResetStream(b)
    \/ \E c \in closing : ClosedCb(c) \/ EmitClosed(c)

Spec == Init /\ [][Next]_vars

(* Every thread goes on with what it has begun.  The bounds end every        *)
(* behaviour, so that fairness for all these steps together is fairness for  *)
(* each thread.                                                              *)
Progress ==
    \/ ConnectHandler \/ AskConnected \/ Connected \/ AddDataSession
    \/ CallLocks \/ Create \/ Destroy
    \/ \E i \in StreamIds : Stream(i) \/ WorkerRemoves(i)
    \/ \E b \in Bins : ResetStream(b)
    \/ \E c \in closing : ClosedCb(c) \/ EmitClosed(c)

Fairness == WF_vars(Progress)

FairSpec == Spec /\ Fairness

-----------------------------------------------------------------------------
(* Properties. *)

TypeOK ==
    /\ key \in {"no", "connected", "attach", "signalled"}
    /\ hook \in {"no", "created", "handler", "attach", "waiting"}
    /\ attaching \in BOOLEAN /\ sessions \in 0 .. 1
    /\ made \in 0 .. MaxBins /\ id \in [Bins -> StreamIds \union {0}]
    /\ state \in [Bins -> {"new", "connecting", "open", "closing"}]
    /\ {data_channels, pad, table} \subseteq [StreamIds -> Bins \union {NoBin}]
    /\ pc \in [StreamIds -> {"idle", "negotiated", "opened", "reject", "get", "emit"}]
    /\ jobs \in [Bins -> Nat]
    /\ closing \subseteq [by : {"worker", "peer"}, id : StreamIds, bin : Bins,
                          stolen : Bins \union {NoBin}]
    /\ sdp_mutex \in StreamIds \union {Free, App} /\ mutex \in StreamIds \union {Free}
    /\ call = Idle \/ call.op = "create" \/ (call.op = "destroy" /\ call.id \in StreamIds)
    /\ opened \union closed \subseteq Bins /\ calls \in 0 .. MaxCalls

(* The session's table and the bin agree: an entry is the channel that the  *)
(* pad of its stream leads to, or one whose closed callback is on its way;  *)
(* and a channel that has opened is in the table as soon as its handler is  *)
(* over, or is being closed.  No entry outlives its channel, so a table of  *)
(* one place is never blocked by a channel that is gone.                    *)
TableBacked ==
    \A i \in StreamIds :
        /\ table[i] # NoBin =>
             \/ table[i] = pad[i] /\ table[i] = data_channels[i]
             \/ \E c \in closing : c.id = i /\ c.bin = table[i]
        /\ pad[i] # NoBin /\ pc[i] = "idle" /\ state[pad[i]] = "open" => table[i] = pad[i]

(* The application learns of a channel once and in order: it is told closed *)
(* only after it was told opened, also when an acknowledgement comes twice, *)
(* and a channel that was told opened is in the table until its closed      *)
(* callback has it.                                                         *)
ToldInOrder ==
    /\ closed \subseteq opened
    /\ \A b \in opened \ closed :
         \/ table[id[b]] = b
         \/ \E c \in closing : c.stolen = b

(* Every call of the application returns, unless the two locks are crossed: *)
(* a reset that holds the mutex and waits for the SDP lock of a thread that *)
(* waits for the mutex, or for the handler of a pad that waits for it.      *)
LocksCrossed ==
    \E i \in StreamIds :
        /\ mutex = i
        /\ \/ sdp_mutex # Free
           \/ pc[i] # "idle"

CallsReturn == (call # Idle) ~> (call = Idle \/ LocksCrossed)

(* Whether the connection comes up before, after or while the session asks  *)
(* for it, the data session is added, once.                                 *)
SessionAdded == (key = "signalled" /\ hook = "waiting") ~> sessions = 1

====================================================================================
