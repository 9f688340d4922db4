------------------------------ MODULE AlphaBlending ------------------------------
(***************************************************************************)
(* The alpha blending mixer (kmsalphablending.c, with the calls of         *)
(* AlphaBlendingImpl.cpp): the video of one port, the master, fills the    *)
(* output and sets its size; the others are drawn over or under it, scaled *)
(* and cropped to that size, where the application puts them.              *)
(*                                                                         *)
(* The mixer's mutex makes one step of each handler.  The threads of a     *)
(* port and their locks are those of CompositeMixer, whose code this one   *)
(* repeats: here the end of a stream and the removal of a port are one     *)
(* step.  Pictures have one dimension: their height is treated like their  *)
(* width.                                                                  *)
(***************************************************************************)
EXTENDS Integers

CONSTANTS
    MaxPorts,    \* bound: ports added in the life of the mixer
    Default,     \* width of the output before there is a master
    Widths,      \* widths of the video of a port
    Parts,       \* relative positions, in parts of Unit
    Unit,        \* the whole output, for a relative width or position
    MaxChanges   \* bound: calls of the application and changes of the video

\* The interface asks for relative values from 0 to 1, and the code does not look: a
\* position further left than the picture is wide would crop more than there is.
ConstantsOK ==
    /\ MaxPorts \in Nat \ {0} /\ MaxChanges \in Nat
    /\ Default \in Nat /\ Widths \subseteq Nat
    /\ Parts \subseteq Nat /\ Unit \in Nat \ {0}

Ports == 0 .. MaxPorts - 1

VARIABLES
    ports,        \* the ports in the hash table
    input, eos_managed, padEos, elements, idles,   \* of a port, as in CompositeMixer
    caps,         \* width of the video that a port receives
    n_elems,
    master_port,
    output_width,
    wanted,       \* the properties that the application set of a port
    drawn,        \* capsfilter, videobox and mixer pad of a port
    changes

portVars == <<ports, input, eos_managed, padEos, elements, idles>>
vars == <<portVars, caps, n_elems, master_port, output_width, wanted, drawn, changes>>

NotConfigured == [configured |-> FALSE, x |-> 0, width |-> 0]
NotDrawn == [as |-> "nothing", x |-> 0, width |-> 0, left |-> 0, right |-> 0]

Init ==
    /\ ports = {} /\ n_elems = 0
    /\ input = [p \in Ports |-> FALSE] /\ eos_managed = [p \in Ports |-> FALSE]
    /\ padEos = [p \in Ports |-> FALSE]
    /\ elements = [p \in Ports |-> "none"] /\ idles = [p \in Ports |-> 0]
    /\ caps = [p \in Ports |-> Default]
    /\ master_port = 0 /\ output_width = Default
    /\ wanted = [p \in Ports |-> NotConfigured]
    /\ drawn = [p \in Ports |-> NotDrawn]
    /\ changes = 0

Inputs == {p \in ports : input[p]}

Positive(a) == IF a > 0 THEN a ELSE 0

-----------------------------------------------------------------------------
(* configure_port.  The picture of a configured port is cropped by its videobox; *)
(* one that is not fills the output, its videobox as it was.                     *)

\* (CropAnyway, which forgets that a picture may fit, is a mutant.)
CropAnyway(x, width, output) ==
    IF x > 0
    THEN [left |-> 0, right |-> width - x]
    ELSE [left |-> -x, right |-> Positive(width + x - output)]

Crop(x, width, output) ==
    IF x > 0
    THEN [left |-> 0, right |-> Positive(width - x)]
    ELSE [left |-> -x, right |-> Positive(width + x - output)]

Placed(w, before, output) ==
    LET x == (w.x * output) \div Unit
        width == (w.width * output) \div Unit
    IN IF w.configured
       THEN [as |-> "configured", x |-> Positive(x), width |-> width,
             left |-> Crop(x, width, output).left, right |-> Crop(x, width, output).right]
       ELSE [before EXCEPT !.as = "plain", !.x = 0, !.width = output]

AsMaster(before, output) == [before EXCEPT !.as = "master", !.x = 0, !.width = output]

\* kms_alpha_blending_reconfigure_ports, of the ports of S with the output so wide.
Reconfigure(S, output) ==
    drawn' = [p \in Ports |->
                 IF p \notin S THEN drawn[p]
                 ELSE IF p = master_port' THEN AsMaster(drawn[p], output)
                 ELSE Placed(wanted[p], drawn[p], output)]

ConfigurePort(p, w, output) ==
    drawn' = [drawn EXCEPT ![p] = Placed(w, @, output)]

-----------------------------------------------------------------------------
(* The ports. *)

PortDataCreate(p) == elements' = [elements EXCEPT ![p] = "in"]

HandlePort(p) ==
    /\ elements[p] = "none" /\ \A q \in Ports : q < p => elements[q] # "none"
    /\ PortDataCreate(p)
    /\ ports' = ports \union {p}
    /\ UNCHANGED <<input, eos_managed, padEos, idles, caps, n_elems, master_port,
                   output_width, wanted, drawn, changes>>

\* link_to_videomixer, at the first caps: the master sets the size of all.
\* (LinkAlone, which configures only the new port, is a mutant.)
LinkAlone(p, width) ==
    /\ p \in ports /\ ~input[p]
    /\ input' = [input EXCEPT ![p] = TRUE]
    /\ n_elems' = n_elems + 1
    /\ caps' = [caps EXCEPT ![p] = width]
    /\ output_width' = IF p = master_port THEN width ELSE output_width
    /\ master_port' = master_port
    /\ Reconfigure({p}, output_width')
    /\ UNCHANGED <<ports, eos_managed, padEos, elements, idles, wanted, changes>>

LinkToVideomixer(p, width) ==
    /\ p \in ports /\ ~input[p]
    /\ input' = [input EXCEPT ![p] = TRUE]
    /\ n_elems' = n_elems + 1
    /\ caps' = [caps EXCEPT ![p] = width]
    /\ master_port' = master_port
    /\ IF p = master_port
       THEN output_width' = width /\ Reconfigure(Inputs \union {p}, width)
       ELSE output_width' = output_width /\ ConfigurePort(p, wanted[p], output_width)
    /\ UNCHANGED <<ports, eos_managed, padEos, elements, idles, wanted, changes>>

\* The video changes its size: nobody looks, the link probe is gone.
CapsChange(p, width) ==
    /\ p \in Inputs /\ ~padEos[p] /\ width # caps[p] /\ changes < MaxChanges
    /\ caps' = [caps EXCEPT ![p] = width]
    /\ changes' = changes + 1
    /\ UNCHANGED <<portVars, n_elems, master_port, output_width, wanted, drawn>>

\* cb_EOS_received, when the stream ends by itself.
EosReceived(p) ==
    /\ p \in Inputs /\ ~padEos[p]
    /\ eos_managed' = [eos_managed EXCEPT ![p] = TRUE]
    /\ padEos' = [padEos EXCEPT ![p] = TRUE]
    /\ UNCHANGED <<ports, input, elements, idles, caps, n_elems, master_port, output_width,
                   wanted, drawn, changes>>

StreamAgain(p) ==
    /\ p \in Inputs /\ padEos[p]
    /\ padEos' = [padEos EXCEPT ![p] = FALSE]
    /\ UNCHANGED <<ports, input, eos_managed, elements, idles, caps, n_elems, master_port,
                   output_width, wanted, drawn, changes>>

\* port_data_destroy: of a port whose stream has not ended, which is sent end-of-stream ...
UnhandleFlowing(p) ==
    /\ p \in Inputs /\ ~padEos[p]
    /\ ports' = ports \ {p}
    /\ idles' = [idles EXCEPT ![p] = @ + 1]
    /\ padEos' = [padEos EXCEPT ![p] = TRUE]
    /\ IF n_elems > 0
       THEN /\ input' = [input EXCEPT ![p] = FALSE]
            /\ n_elems' = n_elems - 1
       ELSE UNCHANGED <<input, n_elems>>
    /\ UNCHANGED <<eos_managed, elements, caps, master_port, output_width, wanted, drawn,
                   changes>>

\* ... of one that has ended, which n_elems keeps counting ...
UnhandleEnded(p) ==
    /\ p \in Inputs /\ padEos[p]
    /\ ports' = ports \ {p}
    /\ idles' = [idles EXCEPT ![p] = IF eos_managed[p] THEN @ + 1 ELSE @]
    /\ UNCHANGED <<input, eos_managed, padEos, elements, caps, n_elems, master_port,
                   output_width, wanted, drawn, changes>>

\* ... and of one without video.
UnhandleSilent(p) ==
    /\ p \in ports /\ ~input[p]
    /\ ports' = ports \ {p}
    /\ elements' = [elements EXCEPT ![p] = "out"]
    /\ UNCHANGED <<input, eos_managed, padEos, idles, caps, n_elems, master_port,
                   output_width, wanted, drawn, changes>>

\* remove_elements_from_pipeline, in the loop.
RemoveElements(p) ==
    /\ idles[p] > 0
    /\ idles' = [idles EXCEPT ![p] = @ - 1]
    /\ elements' = [elements EXCEPT ![p] = "out"]
    /\ drawn' = [drawn EXCEPT ![p] = NotDrawn]
    /\ UNCHANGED <<ports, input, eos_managed, padEos, caps, n_elems, master_port,
                   output_width, wanted, changes>>

-----------------------------------------------------------------------------
(* The application. *)

\* setMaster: when the port has video, its size is the output's.
SetMaster(p) ==
    /\ elements[p] # "none" /\ changes < MaxChanges
    /\ master_port' = p
    /\ IF p \in Inputs
       THEN output_width' = caps[p] /\ Reconfigure(Inputs, caps[p])
       ELSE UNCHANGED <<output_width, drawn>>
    /\ changes' = changes + 1
    /\ UNCHANGED <<portVars, caps, n_elems, wanted>>

\* setPortProperties, of the master too.
SetPortProperties(p, x, width) ==
    /\ p \in ports /\ changes < MaxChanges
    /\ wanted' = [wanted EXCEPT ![p] = [configured |-> TRUE, x |-> x, width |-> width]]
    /\ IF input[p] THEN ConfigurePort(p, wanted'[p], output_width) ELSE UNCHANGED drawn
    /\ changes' = changes + 1
    /\ UNCHANGED <<portVars, caps, n_elems, master_port, output_width>>

Port(p) ==
    \/ HandlePort(p) \/ EosReceived(p) \/ StreamAgain(p)
    \/ \E width \in Widths : LinkToVideomixer(p, width) \/ CapsChange(p, width)
    \/ UnhandleFlowing(p) \/ UnhandleEnded(p) \/ UnhandleSilent(p) \/ RemoveElements(p)

Next ==
    \/ \E p \in Ports : Port(p) \/ SetMaster(p)
    \/ \E p \in Ports, x, width \in Parts : SetPortProperties(p, x, width)

Spec == Init /\ [][Next]_vars

-----------------------------------------------------------------------------
(* Properties. *)

TypeOK ==
    /\ ports \subseteq Ports /\ n_elems \in 0 .. MaxPorts /\ master_port \in Ports
    /\ {input, eos_managed, padEos} \subseteq [Ports -> BOOLEAN]
    /\ elements \in [Ports -> {"none", "in", "out"}] /\ idles \in [Ports -> 0 .. 1]
    /\ caps \in [Ports -> Widths \union {Default}] /\ output_width \in Widths \union {Default}
    /\ wanted \in [Ports -> [configured : BOOLEAN, x : Int, width : Int]]
    /\ drawn \in [Ports -> [as : {"nothing", "plain", "configured", "master"},
                            x : Nat, width : Nat, left : Nat, right : Nat]]
    /\ changes \in 0 .. MaxChanges

(* Whoever became master, came with which size and in what order, the      *)
(* pictures fit together: every port with video is scaled to the one width *)
(* of the output (a configured one to its part of it, and no crop reaches  *)
(* past its picture), and at most one of them fills the output as master.  *)
OneSize ==
    /\ \A p \in Inputs :
         /\ drawn[p].as # "nothing"
         /\ IF drawn[p].as = "configured"
            THEN /\ drawn[p].width = (wanted[p].width * output_width) \div Unit
                 /\ drawn[p].left + drawn[p].right <= drawn[p].width
            ELSE drawn[p].width = output_width
    /\ \A p, q \in Inputs : drawn[p].as = "master" /\ drawn[q].as = "master" => p = q

===================================================================================
