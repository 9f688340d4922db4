------------------------------ MODULE RoutingHubs ------------------------------
(***************************************************************************)
(* The hubs that pass media on without drawing it: the dispatcher          *)
(* (kmsdispatcher.c), the dispatcher of one source to all ports            *)
(* (kmsdispatcheronetomany.c) and the selectable mixer                     *)
(* (kmsselectablemixer.c), with the calls of their objects.                *)
(*                                                                         *)
(* Threads of the application add, remove and connect ports.  The base     *)
(* hub, which is not in the repository, has its own table: a port is in it *)
(* before it is in the hub's, and is taken out of it after.  Each handler  *)
(* works on the hub's table under the hub's mutex.  Taking the agnosticbin *)
(* of a source out of the bin cuts its links.                              *)
(***************************************************************************)
EXTENDS Integers

CONSTANTS
    MaxPorts,    \* bound: ports added in the life of the hub
    Threads      \* threads of the application

\* Identifiers: the base hub never gives one twice.
Ports == 1 .. MaxPorts
None == 0

VARIABLES
    kind,        \* which of the hubs it is
    added,       \* ports that the base hub has given
    table,       \* ports in the hub's table
    busy,        \* the port that a thread is adding or removing
    adding,      \* the thread is adding it
    mutex,       \* the thread that keeps the mutex after its call
    main_port,   \* of the dispatcher to all
    audio,       \* sources whose audio a port gets
    video,       \* source whose video a port gets
    mixed,       \* history: audio that the application connected to a port
    crashed      \* a main port without data was used

vars == <<kind, added, table, busy, adding, mutex, main_port, audio, video, mixed, crashed>>
calls == <<added, busy, adding>>

Init ==
    /\ kind \in {"dispatcher", "one_to_many", "mixer"}
    /\ added = {} /\ table = {}
    /\ busy = [t \in Threads |-> None] /\ adding = [t \in Threads |-> FALSE]
    /\ mutex = None /\ main_port = None
    /\ audio = [p \in Ports |-> {}] /\ video = [p \in Ports |-> {}]
    /\ mixed = [p \in Ports |-> {}]
    /\ crashed = FALSE

Idle(t) == busy[t] = None
Free(t) == mutex \in {None, t}
Main == {main_port} \ {None}

\* The links of a source that leaves the bin.
Cut(routes, p) == [q \in Ports |-> routes[q] \ {p}]

\* Those of the audio mixer of a port, and those from a source to it.
ReleaseSinkPads(routes, p) == [routes EXCEPT ![p] = {}]
DisconnectElements(routes, source, sink) == [routes EXCEPT ![sink] = @ \ {source}]

\* kms_dispatcher_one_to_many_link_port, for the ports of S: the data of the main port
\* is used without a test.
LinkPorts(S) ==
    IF main_port' # None /\ main_port' \notin table' /\ S # {}
    THEN crashed' = TRUE /\ UNCHANGED <<audio, video>>
    ELSE /\ audio' = [p \in Ports |-> IF p \in S THEN {main_port'} \ {None} ELSE audio[p]]
         /\ video' = [p \in Ports |-> IF p \in S THEN {main_port'} \ {None} ELSE video[p]]
         /\ UNCHANGED crashed

-----------------------------------------------------------------------------
(* Ports come and go. *)

\* handle_port: the base hub's, and port_data_create ...
HandlePort(t, p) ==
    /\ Idle(t) /\ p \notin added /\ \A q \in Ports : q < p => q \in added
    /\ added' = added \union {p}
    /\ busy' = [busy EXCEPT ![t] = p] /\ adding' = [adding EXCEPT ![t] = TRUE]
    /\ UNCHANGED <<kind, table, mutex, main_port, audio, video, mixed, crashed>>

\* ... and the table, under the mutex.
Insert(t) ==
    /\ ~Idle(t) /\ adding[t] /\ Free(t)
    /\ table' = table \union {busy[t]}
    /\ busy' = [busy EXCEPT ![t] = None] /\ adding' = [adding EXCEPT ![t] = FALSE]
    /\ UNCHANGED <<kind, added, mutex, main_port, mixed>>

InsertUnlinked(t) ==
    /\ kind # "one_to_many" /\ Insert(t)
    /\ UNCHANGED <<audio, video, crashed>>

\* The dispatcher to all links the new port to the main one at once.
InsertOneToMany(t) ==
    /\ kind = "one_to_many" /\ Insert(t)
    /\ LinkPorts({busy[t]})

\* unhandle_port.
Unhandle(t, p) ==
    /\ Idle(t) /\ Free(t) /\ p \in table
    /\ table' = table \ {p}
    /\ busy' = [busy EXCEPT ![t] = p]
    /\ UNCHANGED <<kind, added, adding>>

UnhandleDispatcher(t, p) ==
    /\ kind = "dispatcher" /\ Unhandle(t, p)
    /\ audio' = Cut(audio, p) /\ video' = Cut(video, p)
    /\ UNCHANGED <<mutex, main_port, mixed, crashed>>

\* Without its main port, the others get nothing.  (KeepMain, which forgets that, is a
\* mutant.)
KeepMain(t, p) ==
    /\ kind = "one_to_many" /\ Unhandle(t, p)
    /\ audio' = Cut(audio, p) /\ video' = Cut(video, p)
    /\ UNCHANGED <<mutex, main_port, mixed, crashed>>

UnhandleOneToMany(t, p) ==
    /\ kind = "one_to_many" /\ Unhandle(t, p)
    /\ IF main_port = p
       THEN main_port' = None /\ LinkPorts(table')
       ELSE /\ audio' = Cut(audio, p) /\ video' = Cut(video, p)
            /\ UNCHANGED <<main_port, crashed>>
    /\ UNCHANGED <<mutex, mixed>>

\* The selectable mixer locks its mutex again where it should unlock it: the thread
\* keeps it.
UnhandleMixer(t, p) ==
    /\ kind = "mixer" /\ Unhandle(t, p)
    /\ mutex' = t
    /\ audio' = ReleaseSinkPads(Cut(audio, p), p)
    /\ video' = Cut(video, p)
    /\ mixed' = ReleaseSinkPads(Cut(mixed, p), p)
    /\ UNCHANGED <<main_port, crashed>>

\* The base hub's unhandle_port.
Unhandled(t) ==
    /\ ~Idle(t) /\ ~adding[t]
    /\ audio' = [audio EXCEPT ![busy[t]] = {}] /\ video' = [video EXCEPT ![busy[t]] = {}]
    /\ busy' = [busy EXCEPT ![t] = None]
    /\ UNCHANGED <<kind, added, table, adding, mutex, main_port, mixed, crashed>>

-----------------------------------------------------------------------------
(* Connections; both ports must be in the table, or nothing changes. *)

Connect(t, source, sink, hub) ==
    /\ kind = hub /\ Idle(t) /\ Free(t)
    /\ {source, sink} \subseteq table
    /\ UNCHANGED <<kind, calls, table, mutex, main_port, crashed>>

\* kms_dispatcher_connect.
ConnectPorts(t, source, sink) ==
    /\ Connect(t, source, sink, "dispatcher")
    /\ audio' = [audio EXCEPT ![sink] = {source}]
    /\ video' = [video EXCEPT ![sink] = {source}]
    /\ UNCHANGED mixed

\* When its video cannot be linked, the audio is unlinked; the old video stays.
\* (KeepAudio, which keeps the audio, is a mutant.)
KeepAudio(t, source, sink) ==
    /\ Connect(t, source, sink, "dispatcher")
    /\ audio' = [audio EXCEPT ![sink] = {source}]
    /\ UNCHANGED <<video, mixed>>

VideoFails(t, source, sink) ==
    /\ Connect(t, source, sink, "dispatcher")
    /\ audio' = [audio EXCEPT ![sink] = {}]
    /\ UNCHANGED <<video, mixed>>

\* The "main" property: any identifier, a port of another hub too.
SetMain(t, p) ==
    /\ kind = "one_to_many" /\ Idle(t) /\ Free(t)
    /\ main_port' = p /\ table' = table
    /\ LinkPorts(table)
    /\ UNCHANGED <<kind, calls, mutex, mixed>>

ConnectVideo(t, source, sink) ==
    /\ Connect(t, source, sink, "mixer")
    /\ video' = [video EXCEPT ![sink] = {source}]
    /\ UNCHANGED <<audio, mixed>>

ConnectAudio(t, source, sink) ==
    /\ Connect(t, source, sink, "mixer")
    /\ audio' = [audio EXCEPT ![sink] = @ \union {source}]
    /\ mixed' = [mixed EXCEPT ![sink] = @ \union {source}]
    /\ UNCHANGED video

\* disconnect_elements takes all the links of the two.
DisconnectAudio(t, source, sink) ==
    /\ Connect(t, source, sink, "mixer")
    /\ audio' = DisconnectElements(audio, source, sink)
    /\ mixed' = DisconnectElements(mixed, source, sink)
    /\ UNCHANGED video

\* What MixerImpl asks for: video is never disconnected.
MixerCalls(t, source, sink) ==
    \/ ConnectVideo(t, source, sink)
    \/ ConnectAudio(t, source, sink) \/ DisconnectAudio(t, source, sink)

PortChanges(t) ==
    \/ InsertUnlinked(t) \/ InsertOneToMany(t) \/ Unhandled(t)
    \/ \E p \in Ports : \/ HandlePort(t, p) \/ UnhandleDispatcher(t, p)
                        \/ UnhandleOneToMany(t, p) \/ UnhandleMixer(t, p)

Routes(t, source, sink) ==
    \/ ConnectPorts(t, source, sink) \/ VideoFails(t, source, sink)
    \/ MixerCalls(t, source, sink)

Next ==
    /\ ~crashed
    /\ \/ \E t \in Threads : PortChanges(t)
       \/ \E t \in Threads, source, sink \in Ports : Routes(t, source, sink)
       \/ \E t \in Threads, p \in Ports \union {None} : SetMain(t, p)

Spec == Init /\ [][Next]_vars

-----------------------------------------------------------------------------
(* Properties. *)

TypeOK ==
    /\ table \subseteq added /\ added \subseteq Ports
    /\ busy \in [Threads -> Ports \union {None}] /\ adding \in [Threads -> BOOLEAN]
    /\ mutex \in Threads \union {None} /\ main_port \in Ports \union {None}
    /\ {audio, video, mixed} \subseteq [Ports -> SUBSET Ports] /\ crashed \in BOOLEAN

(* Whatever is added, removed and connected by several threads, nobody gets *)
(* the media of a port that is gone.  A sink of the dispatcher never hears  *)
(* one source while it sees another; every port of the dispatcher to all    *)
(* gets exactly its main port; a port of the selectable mixer hears the     *)
(* ports that were connected to it and not disconnected.                    *)
RoutesAsAsked ==
    ~crashed =>
        \A p \in table :
            /\ audio[p] \union video[p] \subseteq table
            /\ kind = "dispatcher" => audio[p] = {} \/ audio[p] = video[p]
            /\ kind = "one_to_many" => audio[p] = Main /\ video[p] = Main
            /\ kind = "mixer" => audio[p] = mixed[p]

===================================================================================
