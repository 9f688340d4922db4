------------------------------ MODULE CompositeMixer ------------------------------
(***************************************************************************)
(* The ports of the composite mixer (kmscompositemixer.c): a hub port is   *)
(* added, its video reaches the mixer when its stream starts, it may end   *)
(* by itself, and the port is removed, which ends its video and takes its  *)
(* elements out of the pipeline.                                           *)
(*                                                                         *)
(* Threads.  The application adds and removes ports; each port has a       *)
(* streaming thread; a loop of the mixer runs the removals.  All of them   *)
(* take the mixer's mutex (lock).  A streaming thread also holds the       *)
(* stream lock of its pads while it pushes an event, and the removal of a  *)
(* port, which holds the mutex to its end (unhandle_port took it first),   *)
(* waits for that stream lock.                                             *)
(*                                                                         *)
(* GStreamer and the base hub are not in the repository: an event and a    *)
(* state change of a pad take its stream lock; a pad is marked as ended    *)
(* when its peers have handled end-of-stream, and then refuses another     *)
(* one; a new stream takes the mark away.                                  *)
(***************************************************************************)
EXTENDS Integers, FiniteSets

CONSTANTS
    MaxPorts,      \* bound: ports added in the life of the mixer
    OutputWidth,   \* of the mixed video
    OutputHeight

ASSUME ConstantsAssumption ==
    /\ MaxPorts \in Nat
    /\ OutputWidth \in Nat \ {0} /\ OutputHeight \in Nat \ {0}

\* Identifiers of ports: the base hub never gives one twice.
Ports == 1 .. MaxPorts
None == 0

VARIABLES
    app,          \* where the application is with each port
    lock,         \* the port whose removal holds the mutex across steps
    ports,        \* the ports in the hash table
    n_elems,      \* cells of the grid
    input,        \* the port's video is linked to the mixer
    removing,     \* the port is being removed
    eos_managed,  \* its end-of-stream came by itself
    eosProbe,     \* cb_EOS_received is on its mixer pad
    elements,     \* capsfilter, tee and fakesink: "none", "in", "out"
    cell,         \* where the mixer draws its video
    stream,       \* where its streaming thread is
    padEos,       \* the capsfilter's sink pad is marked as ended
    idles,        \* removals queued in the loop
    refused       \* history: the pad refused the end-of-stream of the removal

port == <<input, removing, eos_managed, eosProbe>>
grid == <<n_elems, cell>>
vars == <<app, lock, ports, grid, port, elements, stream, padEos, idles, refused>>

NoCell == [left |-> 0, top |-> 0, width |-> 0, height |-> 0]

Init ==
    /\ app = [p \in Ports |-> "absent"]
    /\ lock = None
    /\ ports = {} /\ n_elems = 0
    /\ input = [p \in Ports |-> FALSE] /\ removing = [p \in Ports |-> FALSE]
    /\ eos_managed = [p \in Ports |-> FALSE] /\ eosProbe = [p \in Ports |-> FALSE]
    /\ elements = [p \in Ports |-> "none"]
    /\ cell = [p \in Ports |-> NoCell]
    /\ stream = [p \in Ports |-> "silent"] /\ padEos = [p \in Ports |-> FALSE]
    /\ idles = [p \in Ports |-> 0] /\ refused = {}

-----------------------------------------------------------------------------
(* The grid: kms_composite_mixer_recalculate_sizes. *)

Columns(n) == CHOOSE c \in 1 .. n : c * c >= n /\ (c - 1) * (c - 1) < n
Rows(n) == (n + Columns(n) - 1) \div Columns(n)

\* The cell of the k-th port, from 0, in a grid for n.
CellAt(k, n) ==
    LET width == OutputWidth \div Columns(n)
        height == OutputHeight \div Rows(n)
    IN [left |-> (k % Columns(n)) * width, top |-> (k \div Columns(n)) * height,
        width |-> width, height |-> height]

\* The cells when the ports of S have input: they are drawn in the order of their
\* identifiers.
Layout(S, n) ==
    [p \in Ports |-> IF p \in S /\ n > 0
                     THEN CellAt(Cardinality({q \in S : q < p}), n)
                     ELSE cell[p]]

Inputs == {p \in ports : input[p]}

\* One more source in the grid; one less.  (JoinLate, which draws the grid first, is a
\* mutant.)
JoinLate(p) ==
    /\ n_elems' = n_elems + 1
    /\ cell' = Layout(Inputs \union {p}, n_elems)

Join(p) ==
    /\ n_elems' = n_elems + 1
    /\ cell' = Layout((Inputs \union {p}) \intersect ports, n_elems')

Leave(p) ==
    IF n_elems > 0
    THEN /\ input' = [input EXCEPT ![p] = FALSE]
         /\ n_elems' = n_elems - 1
         /\ cell' = Layout(Inputs \ {p}, n_elems')
    ELSE UNCHANGED <<input, grid>>

\* kms_loop_idle_add_full of remove_elements_from_pipeline.
QueueRemoval(p) == idles' = [idles EXCEPT ![p] = @ + 1]

\* cb_EOS_received, the probe of the mixer pad: only the end of a port that is being
\* removed takes its elements away.  (RemoveAtEos is a mutant.)
RemoveAtEos(p) ==
    /\ eosProbe' = [eosProbe EXCEPT ![p] = FALSE]
    /\ QueueRemoval(p)
    /\ UNCHANGED eos_managed

ManageEos(p) ==
    IF removing[p]
    THEN /\ eosProbe' = [eosProbe EXCEPT ![p] = FALSE]
         /\ QueueRemoval(p)
         /\ UNCHANGED eos_managed
    ELSE /\ eos_managed' = [eos_managed EXCEPT ![p] = TRUE]
         /\ UNCHANGED <<eosProbe, idles>>

Free == lock = None

\* The streaming thread holds the stream lock of its pads.
Streaming(p) == stream[p] \in {"starting", "eosing", "eosed"}

-----------------------------------------------------------------------------
(* The application adds and removes ports. *)

\* kms_composite_mixer_handle_port and port_data_create.
HandlePort(p) ==
    /\ Free /\ app[p] = "absent"
    /\ app' = [app EXCEPT ![p] = "handled"]
    /\ ports' = ports \union {p}
    /\ elements' = [elements EXCEPT ![p] = "in"]
    /\ UNCHANGED <<lock, grid, port, stream, padEos, idles, refused>>

\* kms_composite_mixer_unhandle_port: port_data_destroy starts, the sinks of the port
\* are unlinked.
UnhandlePort(p) ==
    /\ Free /\ app[p] = "handled"
    /\ ports' = ports \ {p}
    /\ removing' = [removing EXCEPT ![p] = TRUE]

\* Its pad has ended: nobody else will remove the elements.  (UnhandleForgets is a
\* mutant.)
UnhandleForgets(p) ==
    /\ UnhandlePort(p) /\ input[p] /\ padEos[p]
    /\ app' = [app EXCEPT ![p] = "gone"]
    /\ UNCHANGED <<lock, grid, input, eos_managed, eosProbe, elements, stream, padEos,
                   idles, refused>>

UnhandleEnded(p) ==
    /\ UnhandlePort(p) /\ input[p] /\ padEos[p]
    /\ app' = [app EXCEPT ![p] = "gone"]
    /\ IF eos_managed[p] THEN QueueRemoval(p) ELSE UNCHANGED idles
    /\ UNCHANGED <<lock, grid, input, eos_managed, eosProbe, elements, stream, padEos,
                   refused>>

\* Its pad has not ended: it is sent end-of-stream.  It has no input: its elements are
\* set to NULL.  Both wait for the stream lock with the mutex held.
UnhandleBegin(p) ==
    /\ UnhandlePort(p) /\ ~(input[p] /\ padEos[p])
    /\ lock' = p
    /\ app' = [app EXCEPT ![p] = IF input[p] THEN "sending" ELSE "nulling"]
    /\ UNCHANGED <<grid, input, eos_managed, eosProbe, elements, stream, padEos, idles,
                   refused>>

\* The end-of-stream reaches cb_EOS_received in this very call.
SendEos(p) ==
    /\ app[p] = "sending" /\ ~Streaming(p) /\ ~padEos[p]
    /\ ManageEos(p)
    /\ padEos' = [padEos EXCEPT ![p] = TRUE]
    /\ Leave(p)
    /\ lock' = None /\ app' = [app EXCEPT ![p] = "gone"]
    /\ UNCHANGED <<ports, removing, elements, stream, refused>>

\* The pad ended while the removal waited for it.  (RefusedWaits, where the removal
\* goes on waiting, is a mutant.)
RefusedWaits(p) ==
    /\ app[p] = "sending" /\ ~Streaming(p) /\ padEos[p]
    /\ refused' = refused \union {p}
    /\ UNCHANGED <<app, lock, ports, grid, port, elements, stream, padEos, idles>>

EosRefused(p) ==
    /\ app[p] = "sending" /\ ~Streaming(p) /\ padEos[p]
    /\ refused' = refused \union {p}
    /\ Leave(p)
    /\ lock' = None /\ app' = [app EXCEPT ![p] = "gone"]
    /\ UNCHANGED <<ports, removing, eos_managed, eosProbe, elements, stream, padEos,
                   idles>>

NullElements(p) ==
    /\ app[p] = "nulling" /\ ~Streaming(p)
    /\ elements' = [elements EXCEPT ![p] = "out"]
    /\ lock' = None /\ app' = [app EXCEPT ![p] = "gone"]
    /\ UNCHANGED <<ports, grid, port, stream, padEos, idles, refused>>

-----------------------------------------------------------------------------
(* The streaming thread of a port, which runs while the hub links it. *)

StreamStart(p) ==
    /\ app[p] = "handled" /\ stream[p] = "silent"
    /\ stream' = [stream EXCEPT ![p] = "starting"]
    /\ UNCHANGED <<app, lock, ports, grid, port, elements, padEos, idles, refused>>

\* link_to_videomixer, in the probe.
LinkToVideomixer(p) ==
    /\ stream[p] = "starting" /\ Free
    /\ stream' = [stream EXCEPT ![p] = "flowing"]
    /\ input' = [input EXCEPT ![p] = TRUE]
    /\ eosProbe' = [eosProbe EXCEPT ![p] = TRUE]
    /\ Join(p)
    /\ UNCHANGED <<app, lock, ports, removing, eos_managed, elements, padEos, idles,
                   refused>>

StreamEos(p) ==
    /\ app[p] = "handled" /\ stream[p] = "flowing"
    /\ stream' = [stream EXCEPT ![p] = "eosing"]
    /\ UNCHANGED <<app, lock, ports, grid, port, elements, padEos, idles, refused>>

\* The same callback, in the streaming thread.
EosReceived(p) ==
    /\ stream[p] = "eosing" /\ Free
    /\ stream' = [stream EXCEPT ![p] = "eosed"]
    /\ ManageEos(p)
    /\ UNCHANGED <<app, lock, ports, grid, input, removing, elements, padEos, refused>>

\* The event is back: the pad is marked and its stream lock released.
StreamEnded(p) ==
    /\ stream[p] = "eosed"
    /\ stream' = [stream EXCEPT ![p] = "ended"]
    /\ padEos' = [padEos EXCEPT ![p] = TRUE]
    /\ UNCHANGED <<app, lock, ports, grid, port, elements, idles, refused>>

\* The source of the port is changed: another stream starts, and the link probe is gone.
\* (StreamProbed, where the probe stays, is a mutant.)
StreamProbed(p) ==
    /\ app[p] = "handled" /\ stream[p] = "ended"
    /\ stream' = [stream EXCEPT ![p] = "starting"]
    /\ padEos' = [padEos EXCEPT ![p] = FALSE]
    /\ UNCHANGED <<app, lock, ports, grid, port, elements, idles, refused>>

StreamAgain(p) ==
    /\ app[p] = "handled" /\ stream[p] = "ended"
    /\ stream' = [stream EXCEPT ![p] = "flowing"]
    /\ padEos' = [padEos EXCEPT ![p] = FALSE]
    /\ UNCHANGED <<app, lock, ports, grid, port, elements, idles, refused>>

-----------------------------------------------------------------------------

\* remove_elements_from_pipeline, in the loop.
RemoveElements(p) ==
    /\ Free /\ idles[p] > 0
    /\ idles' = [idles EXCEPT ![p] = @ - 1]
    /\ elements' = [elements EXCEPT ![p] = "out"]
    /\ UNCHANGED <<app, lock, ports, grid, port, stream, padEos, refused>>

Application(p) ==
    HandlePort(p) \/ UnhandleEnded(p) \/ UnhandleBegin(p)
        \/ SendEos(p) \/ EosRefused(p) \/ NullElements(p)

Stream(p) ==
    StreamStart(p) \/ LinkToVideomixer(p) \/ StreamEos(p) \/ EosReceived(p)
        \/ StreamEnded(p) \/ StreamAgain(p)

Next == \E p \in Ports : Application(p) \/ Stream(p) \/ RemoveElements(p)

Spec == Init /\ [][Next]_vars

\* A thread that waits for a lock gets it when it stays free, and the loop runs what is
\* queued.  Nobody has to add or remove a port, start a stream or end it.
Fairness ==
    \A p \in Ports :
        /\ WF_vars(SendEos(p) \/ EosRefused(p) \/ NullElements(p))
        /\ WF_vars(LinkToVideomixer(p) \/ EosReceived(p) \/ StreamEnded(p))
        /\ WF_vars(RemoveElements(p))

FairSpec == Spec /\ Fairness

-----------------------------------------------------------------------------
(* Properties. *)

TypeOK ==
    /\ app \in [Ports -> {"absent", "handled", "sending", "nulling", "gone"}]
    /\ lock \in Ports \union {None}
    /\ ports \subseteq Ports /\ n_elems \in 0 .. MaxPorts
    /\ input \in [Ports -> BOOLEAN] /\ removing \in [Ports -> BOOLEAN]
    /\ eos_managed \in [Ports -> BOOLEAN] /\ eosProbe \in [Ports -> BOOLEAN]
    /\ elements \in [Ports -> {"none", "in", "out"}]
    /\ cell \in [Ports -> [left : Nat, top : Nat, width : Nat, height : Nat]]
    /\ stream \in [Ports -> {"silent", "starting", "flowing", "eosing", "eosed", "ended"}]
    /\ padEos \in [Ports -> BOOLEAN] /\ idles \in [Ports -> Nat]
    /\ refused \subseteq Ports

Inside(c) ==
    /\ c.width > 0 /\ c.height > 0
    /\ c.left + c.width <= OutputWidth /\ c.top + c.height <= OutputHeight

Apart(c, d) ==
    \/ c.left + c.width <= d.left \/ d.left + d.width <= c.left
    \/ c.top + c.height <= d.top \/ d.top + d.height <= c.top

(***************************************************************************)
(* Every source of the table that has video is drawn inside the frame and  *)
(* over no other, although the grid is not drawn again for a source that   *)
(* had ended before its port was removed.                                  *)
(***************************************************************************)
EachHasItsCell ==
    \A p \in Inputs :
        /\ Inside(cell[p])
        /\ \A q \in Inputs \ {p} : Apart(cell[p], cell[q])

(***************************************************************************)
(* The elements of a port are removed once, and only for its removal:      *)
(* cb_EOS_received and port_data_destroy never both queue it, and the loop *)
(* never finds them removed by the other branch.                           *)
(***************************************************************************)
RemovedOnce ==
    \A p \in Ports :
        /\ idles[p] <= 1
        /\ idles[p] = 1 => elements[p] = "in"
        /\ (idles[p] = 1 \/ elements[p] = "out") => p \notin ports

\* A removal waits for the stream lock of a thread that waits for its mutex.
LocksCrossed == \E p \in Ports : lock = p /\ stream[p] \in {"starting", "eosing"}

(***************************************************************************)
(* The removal of a port returns, unless it began while the streaming      *)
(* thread of that port was about to take the mutex in one of its probes.   *)
(***************************************************************************)
RemovalReturns ==
    \A p \in Ports :
        app[p] \in {"sending", "nulling"} ~> app[p] = "gone" \/ LocksCrossed

(***************************************************************************)
(* The elements of a removed port leave the pipeline, unless its own       *)
(* end-of-stream overtook the one of the removal.                          *)
(***************************************************************************)
ElementsLeave ==
    \A p \in Ports :
        app[p] = "gone" ~> elements[p] = "out" \/ p \in refused \/ LocksCrossed

==================================================================================
