------------------------------ MODULE StyleComposite ------------------------------
(***************************************************************************)
(* The style composite mixer (kmsstylecompositemixer.c, with the calls of  *)
(* StyleCompositeImpl.cpp and the state of kmsepisodeoverlay.c): the ports *)
(* with video are shown side by side, at most one per view; a view belongs *)
(* to the port whose maximal bitrate is its identifier, and the            *)
(* application shows and hides views.                                      *)
(*                                                                         *)
(* What the mixer draws changes only where the code draws it again, and    *)
(* the drawing reads the bitrate of a port then.  The mixer's mutex makes  *)
(* one step of each handler; showView and hideView are two, for they read  *)
(* the style and write it back.  The port's threads and their locks are    *)
(* those of CompositeMixer, whose code this one repeats: here the end of a *)
(* stream and the removal of a port are one step.                          *)
(***************************************************************************)
EXTENDS Integers, FiniteSets

CONSTANTS
    MaxPorts,    \* bound: ports added in the life of the mixer
    ViewCount,   \* MAX_VIEW_COUNT, 4 in the code
    MaxUnmapped, \* ports without a view that are looked at, 10 in the code
    Ids,         \* identifiers of views, positive numbers
    Threads,     \* threads of the application that show and hide views
    MaxChanges   \* bound: changes of bitrates and styles

ConstantsOK ==
    /\ MaxPorts \in Nat /\ MaxChanges \in Nat /\ Ids \subseteq Nat
    /\ ViewCount \in Nat \ {0} /\ MaxUnmapped \in Nat /\ ViewCount <= MaxUnmapped

Ports == 1 .. MaxPorts
Views == 1 .. ViewCount
None == 0
NoId == -1

VARIABLES
    ports,        \* the ports in the hash table
    input, eos_managed, padEos, elements, idles,   \* of a port, as in CompositeMixer
    bitrate,      \* max-output-bitrate of the port's end point
    viewId,       \* the bitrate that the last drawing read
    n_elems,
    views,        \* identifier and enable of each view
    place,        \* where a port's video is: column and number of columns
    overlay,      \* enable of the overlay, and the bars it draws: column and port
    call,         \* showView or hideView under way: what it has read
    changes,
    stale         \* history: something changed that does not draw again

portVars == <<ports, input, eos_managed, padEos, elements, idles>>
drawn == <<viewId, place, overlay>>
vars == <<portVars, bitrate, n_elems, views, drawn, call, changes, stale>>

Transparent == [column |-> 0, columns |-> 0]
NoCall == [id |-> None, enable |-> FALSE, read |-> <<>>]

Init ==
    /\ ports = {} /\ n_elems = 0
    /\ input = [p \in Ports |-> FALSE] /\ eos_managed = [p \in Ports |-> FALSE]
    /\ padEos = [p \in Ports |-> FALSE]
    /\ elements = [p \in Ports |-> "none"] /\ idles = [p \in Ports |-> 0]
    /\ bitrate = [p \in Ports |-> 0] /\ viewId = [p \in Ports |-> 0]
    /\ views = [v \in Views |-> [id |-> NoId, enable |-> TRUE]]
    /\ place = [p \in Ports |-> Transparent]
    /\ overlay = [enable |-> 0, bars |-> {}]
    /\ call = [t \in Threads |-> NoCall]
    /\ changes = 0 /\ stale = FALSE

-----------------------------------------------------------------------------
(* kms_style_composite_mixer_recalculate_sizes.  S: the ports with input, vs *)
(* the views, read: the bitrates of the last drawing, which order the ports. *)

Before(p, q, read) ==
    \/ read[p] < read[q]
    \/ read[p] = read[q] /\ p < q

Earlier(p, T, read) == Cardinality({q \in T : Before(q, p, read)})
Later(p, T, read) == Cardinality({q \in T : Before(p, q, read)})

\* The first view with the bitrate of the port.
ViewOf(p, vs) ==
    LET found == {v \in Views : vs[v].id = bitrate[p]}
    IN IF found = {} THEN None ELSE CHOOSE v \in found : \A w \in found : v <= w

\* It gets its view if that is enabled and no port before it has it.
Taken(p, S, vs, read) ==
    \E q \in S : Before(q, p, read) /\ ViewOf(q, vs) = ViewOf(p, vs)

Mapped(S, vs, read) ==
    {p \in S : /\ ViewOf(p, vs) # None /\ vs[ViewOf(p, vs)].enable
               /\ ~Taken(p, S, vs, read)}

\* When every view has its port, the rest is not looked at.
Reached(S, vs, read) ==
    {p \in S : Earlier(p, Mapped(S, vs, read), read) < ViewCount}

\* The ports without a view of their own, as many as viewUnMapping holds; those of a
\* disabled view are left out.
Unmapped(S, vs, read) ==
    LET hidden == {p \in S : ViewOf(p, vs) # None /\ ~vs[ViewOf(p, vs)].enable}
        rest == Reached(S, vs, read) \ (Mapped(S, vs, read) \union hidden)
    IN {p \in rest : Earlier(p, rest, read) < MaxUnmapped}

\* They fill the empty views in their order, the last port first.
Empty(S, vs, read) == {v \in Views : \A p \in Mapped(S, vs, read) : ViewOf(p, vs) # v}
Below(v, V) == Cardinality({w \in V : w < v})

Fills(p, v, S, vs, read) ==
    \/ p \in Mapped(S, vs, read) /\ ViewOf(p, vs) = v
    \/ /\ p \in Unmapped(S, vs, read) /\ v \in Empty(S, vs, read)
       /\ Later(p, Unmapped(S, vs, read), read) = Below(v, Empty(S, vs, read))

Slots(S, vs, read) ==
    [v \in Views |->
        IF \E p \in S : Fills(p, v, S, vs, read)
        THEN CHOOSE p \in S : Fills(p, v, S, vs, read)
        ELSE None]

\* The views that are drawn, and the columns they are drawn in.
Filled(slots) == {v \in Views : slots[v] # None}
Column(v, slots) == Below(v, Filled(slots)) + 1

\* The video of the ports with input is made transparent, then the slots are placed.
PlaceOf(S, slots) ==
    [p \in Ports |->
        IF p \notin S THEN place[p]
        ELSE IF \E v \in Views : slots[v] = p
        THEN [column |-> Column(CHOOSE v \in Views : slots[v] = p, slots),
              columns |-> Cardinality(Filled(slots))]
        ELSE Transparent]

\* kms_episode_overlay_parse_style: bars for the slots, switched off for one; without
\* slots the style says only 'enable':2, and the bars stay.
OverlayOf(slots) ==
    IF Filled(slots) = {} THEN [overlay EXCEPT !.enable = 2]
    ELSE [enable |-> IF Cardinality(Filled(slots)) = 1 THEN 0 ELSE 1,
          bars |-> {<<Column(v, slots), slots[v]>> : v \in Filled(slots)}]

Recalculate(S, vs, n) ==
    IF n = 0
    THEN /\ overlay' = [overlay EXCEPT !.enable = 2] /\ stale' = FALSE
         /\ UNCHANGED <<viewId, place>>
    ELSE LET slots == Slots(S, vs, viewId) IN
         /\ viewId' = [p \in Ports |->
                          IF p \in Reached(S, vs, viewId) THEN bitrate[p] ELSE viewId[p]]
         /\ place' = PlaceOf(S, slots)
         /\ overlay' = OverlayOf(slots)
         /\ stale' = FALSE

Inputs == {p \in ports : input[p]}

-----------------------------------------------------------------------------
(* The ports. *)

PortDataCreate(p) == elements' = [elements EXCEPT ![p] = "in"]

HandlePort(p) ==
    /\ elements[p] = "none" /\ \A q \in Ports : q < p => elements[q] # "none"
    /\ PortDataCreate(p)
    /\ ports' = ports \union {p}
    /\ UNCHANGED <<input, eos_managed, padEos, idles, bitrate, n_elems, views, drawn, call,
                   changes, stale>>

\* link_to_videomixer, at the first stream-start.
LinkToVideomixer(p) ==
    /\ p \in ports /\ ~input[p]
    /\ input' = [input EXCEPT ![p] = TRUE]
    /\ n_elems' = n_elems + 1
    /\ Recalculate(Inputs \union {p}, views, n_elems')
    /\ UNCHANGED <<ports, eos_managed, padEos, elements, idles, bitrate, views, call,
                   changes>>

\* cb_EOS_received, when the stream ends by itself.
EosReceived(p) ==
    /\ p \in Inputs /\ ~padEos[p]
    /\ eos_managed' = [eos_managed EXCEPT ![p] = TRUE]
    /\ padEos' = [padEos EXCEPT ![p] = TRUE]
    /\ UNCHANGED <<ports, input, elements, idles, bitrate, n_elems, views, drawn, call,
                   changes, stale>>

StreamAgain(p) ==
    /\ p \in Inputs /\ padEos[p]
    /\ padEos' = [padEos EXCEPT ![p] = FALSE]
    /\ UNCHANGED <<ports, input, eos_managed, elements, idles, bitrate, n_elems, views,
                   drawn, call, changes, stale>>

QueueRemoval(p) == idles' = [idles EXCEPT ![p] = @ + 1]

\* port_data_destroy of a port that has not ended: its end-of-stream is sent, and the
\* others are drawn again.  (UnhandleKeeps, without the drawing, is a mutant.)
UnhandleKeeps(p) ==
    /\ p \in Inputs /\ ~padEos[p]
    /\ ports' = ports \ {p} /\ QueueRemoval(p)
    /\ input' = [input EXCEPT ![p] = FALSE]
    /\ n_elems' = n_elems - 1
    /\ UNCHANGED <<eos_managed, padEos, elements, bitrate, views, drawn, call, changes, stale>>

UnhandleFlowing(p) ==
    /\ p \in Inputs /\ ~padEos[p]
    /\ ports' = ports \ {p} /\ QueueRemoval(p)
    /\ padEos' = [padEos EXCEPT ![p] = TRUE]
    /\ IF n_elems > 0
       THEN /\ input' = [input EXCEPT ![p] = FALSE]
            /\ n_elems' = n_elems - 1
            /\ Recalculate(Inputs \ {p}, views, n_elems')
       ELSE UNCHANGED <<input, n_elems, drawn, stale>>
    /\ UNCHANGED <<eos_managed, elements, bitrate, views, call, changes>>

\* Of one that has: n_elems and the drawing keep it.
UnhandleEnded(p) ==
    /\ p \in Inputs /\ padEos[p]
    /\ ports' = ports \ {p}
    /\ IF eos_managed[p] THEN QueueRemoval(p) ELSE UNCHANGED idles
    /\ stale' = TRUE
    /\ UNCHANGED <<input, eos_managed, padEos, elements, bitrate, n_elems, views, drawn,
                   call, changes>>

\* Of one without video.
UnhandleSilent(p) ==
    /\ p \in ports /\ ~input[p]
    /\ ports' = ports \ {p}
    /\ elements' = [elements EXCEPT ![p] = "out"]
    /\ UNCHANGED <<input, eos_managed, padEos, idles, bitrate, n_elems, views, drawn, call,
                   changes, stale>>

\* remove_elements_from_pipeline, in the loop.
RemoveElements(p) ==
    /\ idles[p] > 0
    /\ idles' = [idles EXCEPT ![p] = @ - 1]
    /\ elements' = [elements EXCEPT ![p] = "out"]
    /\ UNCHANGED <<ports, input, eos_managed, padEos, bitrate, n_elems, views, drawn, call,
                   changes, stale>>

-----------------------------------------------------------------------------
(* The application. *)

\* setMaxOutputBitrate of the hub port: nobody is told.
SetBitrate(p, id) ==
    /\ p \in ports /\ bitrate[p] # id /\ changes < MaxChanges
    /\ bitrate' = [bitrate EXCEPT ![p] = id]
    /\ stale' = TRUE /\ changes' = changes + 1
    /\ UNCHANGED <<portVars, n_elems, views, drawn, call>>

\* kms_style_composite_mixer_parse_style: it draws again when a view is shown or hidden.
ParseStyle(new) ==
    /\ views' = new
    /\ IF \E v \in Views : new[v].enable # views[v].enable
       THEN Recalculate(Inputs, new, n_elems)
       ELSE /\ stale' = (stale \/ new # views)
            /\ UNCHANGED drawn

\* setStyle, with what it says of one view.
SetStyle(v, id) ==
    /\ changes < MaxChanges /\ views[v].id # id
    /\ ParseStyle([views EXCEPT ![v].id = id])
    /\ changes' = changes + 1
    /\ UNCHANGED <<portVars, bitrate, n_elems, call>>

\* setViewEnableStatus: getStyle, and the first view with the identifier ...
ReadStyle(t, id, enable) ==
    /\ call[t] = NoCall /\ changes < MaxChanges
    /\ \E v \in Views : views[v].id = id
    /\ call' = [call EXCEPT ![t] = [id |-> id, enable |-> enable, read |-> views]]
    /\ changes' = changes + 1
    /\ UNCHANGED <<portVars, bitrate, n_elems, views, drawn, stale>>

\* ... and setStyle with all the views as they were read but this one.
WriteStyle(t) ==
    /\ call[t] # NoCall
    /\ LET read == call[t].read
           v == CHOOSE w \in Views : /\ read[w].id = call[t].id
                                     /\ \A u \in Views : read[u].id = call[t].id => w <= u
       IN ParseStyle([read EXCEPT ![v].enable = call[t].enable])
    /\ call' = [call EXCEPT ![t] = NoCall]
    /\ UNCHANGED <<portVars, bitrate, n_elems, changes>>

Port(p) ==
    \/ HandlePort(p) \/ LinkToVideomixer(p) \/ EosReceived(p) \/ StreamAgain(p)
    \/ UnhandleFlowing(p) \/ UnhandleEnded(p) \/ UnhandleSilent(p) \/ RemoveElements(p)
    \/ \E id \in Ids : SetBitrate(p, id)

Next ==
    \/ \E p \in Ports : Port(p)
    \/ \E v \in Views, id \in Ids : SetStyle(v, id)
    \/ \E t \in Threads, id \in Ids, enable \in BOOLEAN : ReadStyle(t, id, enable)
    \/ \E t \in Threads : WriteStyle(t)

Spec == Init /\ [][Next]_vars

-----------------------------------------------------------------------------
(* Properties. *)

TypeOK ==
    /\ ports \subseteq Ports /\ n_elems \in 0 .. MaxPorts
    /\ {input, eos_managed, padEos} \subseteq [Ports -> BOOLEAN]
    /\ elements \in [Ports -> {"none", "in", "out"}] /\ idles \in [Ports -> 0 .. 1]
    /\ {bitrate, viewId} \subseteq [Ports -> Ids \union {0}]
    /\ views \in [Views -> [id : Ids \union {NoId}, enable : BOOLEAN]]
    /\ place \in [Ports -> [column : 0 .. ViewCount, columns : 0 .. ViewCount]]
    /\ overlay.enable \in 0 .. 2 /\ overlay.bars \subseteq (1 .. ViewCount) \X Ports
    /\ changes \in 0 .. MaxChanges /\ stale \in BOOLEAN

Shown == {p \in Inputs : place[p] # Transparent}

(* No two ports are drawn in one column, whatever came and went; and unless *)
(* something changed since that does not draw (a bitrate, an identifier of  *)
(* a view, the removal of a port that had ended), the video is the one that *)
(* the ports and the views ask for: each column has a port, an enabled view *)
(* the first port of its own, a hidden view none, and no port is left out   *)
(* while a view is empty.                                                   *)
ViewsAsAsked ==
    /\ \A p, q \in Shown :
         /\ place[p].columns = place[q].columns
         /\ p # q => place[p].column # place[q].column
    /\ ~stale =>
         /\ \A p \in Shown : place[p].columns = Cardinality(Shown)
         /\ \A p \in Inputs :
              LET v == ViewOf(p, views) IN
              /\ v # None /\ ~views[v].enable => p \notin Shown
              /\ v # None /\ views[v].enable =>
                   \E q \in Shown : ViewOf(q, views) = v
              /\ p \notin Shown /\ Cardinality(Shown) < ViewCount =>
                   v # None /\ ~views[v].enable

===================================================================================
