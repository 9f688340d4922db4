------------------------------ MODULE ElementsProofs ------------------------------
(***************************************************************************)
(* Theorems about the elements of MCElements, for every number of ports,   *)
(* views and threads, every width and position, every word and range of    *)
(* ports and whatever a peer offers.  Of the hubs that route: a port gets  *)
(* the media that were asked for, of ports that exist.  Of the alpha       *)
(* blending hub: all pictures fit the one output.  Of the style composite  *)
(* mixer, whose drawing sorts its ports and gives them places by counting: *)
(* one port per column, and the views that were asked for.  Of the RTP     *)
(* endpoint: the search leaves no free pair of ports out, and the keys in  *)
(* use are the announced ones.                                             *)
(***************************************************************************)
EXTENDS MCElements, FiniteSetTheorems, SequenceTheorems, TLAPS

-----------------------------------------------------------------------------
(* The hubs that route (RoutingHubs). *)

(* A port that a thread is adding or removing is that thread's alone, and   *)
(* not in the table.                                                        *)
Owned ==
    /\ \A t \in Threads : busy[t] # None => busy[t] \in added \ table
    /\ \A t \in Threads : Idle(t) => ~adding[t]
    /\ \A t, u \in Threads : busy[t] # None /\ busy[t] = busy[u] => t = u

(* A port that is not in the table yet gets nothing.                        *)
Unlinked(p) == audio[p] = {} /\ video[p] = {} /\ mixed[p] = {}
Blank ==
    /\ \A p \in Ports \ added : Unlinked(p)
    /\ \A t \in Threads : adding[t] => Unlinked(busy[t])

(* The main port is one of the table, which a hub without ports has not     *)
(* looked at.                                                               *)
MainKnown ==
    ~crashed /\ kind = "one_to_many" /\ table # {} => main_port \in table \union {None}

RoutingInv ==
    /\ TypeOK /\ Owned /\ Blank /\ MainKnown /\ RoutesAsAsked
    /\ kind \in {"dispatcher", "one_to_many", "mixer"}

(* The routes of a port of the table, as the kind of the hub makes them.    *)
Routed1(p) ==
    /\ audio[p] \union video[p] \subseteq table
    /\ kind = "dispatcher" => audio[p] = {} \/ audio[p] = video[p]
    /\ kind = "one_to_many" => audio[p] = Main /\ video[p] = Main
    /\ kind = "mixer" => audio[p] = mixed[p]

LEMMA RoutingInit == Init => RoutingInv
  BY DEF Init, RoutingInv, TypeOK, Owned, Blank, Unlinked, MainKnown, RoutesAsAsked, Idle

LEMMA RoutesByPort == RoutesAsAsked <=> (~crashed => \A p \in table : Routed1(p))
  BY DEF RoutesAsAsked, Routed1

(* Linking to the main port, or the crash that a main port without data is. *)
LEMMA Linked ==
    ASSUME TypeOK, NEW S \in SUBSET Ports, LinkPorts(S), main_port' \in Ports \union {None}
    PROVE  /\ audio' \in [Ports -> SUBSET Ports]
           /\ video' \in [Ports -> SUBSET Ports]
           /\ crashed' \in BOOLEAN
           /\ \A q \in Ports \ S : audio'[q] = audio[q] /\ video'[q] = video[q]
<1>1. audio \in [Ports -> SUBSET Ports] /\ video \in [Ports -> SUBSET Ports]
           /\ crashed \in BOOLEAN
    BY DEF TypeOK
<1>2. CASE main_port' # None /\ main_port' \notin table' /\ S # {}
  <2>1. crashed' = TRUE /\ audio' = audio /\ video' = video
    BY <1>2 DEF LinkPorts
  <2> QED  BY <1>1, <2>1
<1>3. CASE ~(main_port' # None /\ main_port' \notin table' /\ S # {})
  <2> DEFINE now == {main_port'} \ {None}
  <2>1. /\ audio' = [p \in Ports |-> IF p \in S THEN now ELSE audio[p]]
        /\ video' = [p \in Ports |-> IF p \in S THEN now ELSE video[p]]
        /\ crashed' = crashed
    BY <1>3 DEF LinkPorts
  <2>2. now \in SUBSET Ports
    OBVIOUS
  <2> HIDE DEF now
  <2>3. audio' \in [Ports -> SUBSET Ports] /\ video' \in [Ports -> SUBSET Ports]
    BY <1>1, <2>1, <2>2
  <2>4. crashed' \in BOOLEAN
    BY <1>1, <2>1
  <2>5. \A q \in Ports \ S : audio'[q] = audio[q] /\ video'[q] = video[q]
    BY <2>1
  <2> QED  BY <2>3, <2>4, <2>5
<1> QED  BY <1>2, <1>3

LEMMA RoutingHandle ==
    ASSUME RoutingInv, NEW t \in Threads, NEW p \in Ports, HandlePort(t, p)
    PROVE  RoutingInv'
<1>1. TypeOK' /\ kind' = kind
    BY DEF RoutingInv, TypeOK, HandlePort
<1>2. Owned'
    BY DEF RoutingInv, TypeOK, Owned, HandlePort, Idle, Ports, None
<1>3. Blank'
    BY DEF RoutingInv, TypeOK, Owned, Blank, Unlinked, HandlePort, Idle
<1>4. MainKnown' /\ RoutesAsAsked'
    BY DEF RoutingInv, MainKnown, RoutesAsAsked, HandlePort, Main
<1> QED  BY <1>1, <1>2, <1>3, <1>4 DEF RoutingInv

LEMMA RoutingInsert ==
    ASSUME RoutingInv, NEW t \in Threads, InsertUnlinked(t) \/ InsertOneToMany(t), ~crashed
    PROVE  RoutingInv'
<1> DEFINE p == busy[t]
<1>1. /\ p \in Ports /\ p \in added \ table /\ Unlinked(p) /\ Insert(t)
      /\ table' = table \union {p} /\ UNCHANGED <<kind, added, mutex, main_port, mixed>>
    BY DEF InsertUnlinked, InsertOneToMany, Insert, RoutingInv, TypeOK, Owned, Blank, Idle
<1>2. \/ kind # "one_to_many" /\ UNCHANGED <<audio, video, crashed>>
      \/ kind = "one_to_many" /\ LinkPorts({p})
    BY DEF InsertUnlinked, InsertOneToMany
<1>3. TypeOK'
  <2>1. audio' \in [Ports -> SUBSET Ports] /\ video' \in [Ports -> SUBSET Ports]
             /\ crashed' \in BOOLEAN
    <3>1. main_port' \in Ports \union {None}
        BY <1>1 DEF RoutingInv, TypeOK
    <3>2. CASE UNCHANGED <<audio, video, crashed>>
        BY <3>2 DEF RoutingInv, TypeOK
    <3>3. CASE LinkPorts({p})
        BY <1>1, <3>1, <3>3, Linked DEF RoutingInv
    <3> QED  BY <1>2, <3>2, <3>3
  <2> QED  BY <1>1, <2>1 DEF RoutingInv, TypeOK, Insert
<1>4. Owned'
    BY <1>1 DEF RoutingInv, TypeOK, Owned, Insert, Idle, Ports, None
<1>5. Blank'
  <2>1. \A q \in Ports \ {p} : audio'[q] = audio[q] /\ video'[q] = video[q]
    BY <1>1, <1>2 DEF LinkPorts
  <2>2. \A u \in Threads : adding'[u] => u # t /\ adding[u] /\ busy'[u] = busy[u]
             /\ busy[u] \in Ports \ {p}
    BY <1>1 DEF RoutingInv, TypeOK, Owned, Insert, Idle
  <2> QED  BY <1>1, <2>1, <2>2 DEF RoutingInv, Blank, Unlinked, TypeOK
<1>6. MainKnown'
    BY <1>1, <1>2 DEF RoutingInv, MainKnown, LinkPorts
<1>7. ASSUME ~crashed', NEW q \in table' PROVE Routed1(q)'
  <2>1. CASE kind # "one_to_many"
    BY <1>1, <1>2, <2>1 DEF RoutingInv, RoutesAsAsked, Routed1, Unlinked, TypeOK
  <2>2. CASE kind = "one_to_many"
    <3>1. main_port \in table' \union {None}
        BY <1>1, <1>2, <1>7, <2>2 DEF LinkPorts
    <3>2. /\ audio' = [r \in Ports |-> IF r \in {p} THEN Main ELSE audio[r]]
          /\ video' = [r \in Ports |-> IF r \in {p} THEN Main ELSE video[r]]
        BY <1>1, <1>2, <1>7, <2>2 DEF LinkPorts, Main
    <3>3. q \in Ports
        BY <1>1 DEF RoutingInv, TypeOK
    <3>4. audio'[q] = Main /\ video'[q] = Main
        BY <1>1, <2>2, <3>2, <3>3 DEF RoutingInv, RoutesAsAsked
    <3> QED  BY <1>1, <2>2, <3>1, <3>4 DEF Routed1, Main
  <2> QED  BY <2>1, <2>2
<1> QED  BY <1>1, <1>3, <1>4, <1>5, <1>6, <1>7 DEF RoutingInv, RoutesAsAsked, Routed1

(* What all of unhandle_port have in common.                                *)
LEMMA RoutingUnhandle ==
    ASSUME RoutingInv, NEW t \in Threads, NEW p \in Ports, ~crashed,
           \/ UnhandleDispatcher(t, p) \/ UnhandleOneToMany(t, p) \/ UnhandleMixer(t, p)
    PROVE  RoutingInv'
<1>1. /\ Unhandle(t, p) /\ p \in table /\ table' = table \ {p} /\ adding' = adding
      /\ busy' = [busy EXCEPT ![t] = p] /\ Idle(t) /\ UNCHANGED <<kind, added>>
    BY DEF UnhandleDispatcher, UnhandleOneToMany, UnhandleMixer, Unhandle
<1>2. Owned'
    BY <1>1 DEF RoutingInv, TypeOK, Owned, Idle, Ports, None
<1>3. ASSUME UnhandleDispatcher(t, p) \/ UnhandleMixer(t, p) PROVE RoutingInv'
  <2>1. /\ kind # "one_to_many" /\ main_port' = main_port /\ crashed' = crashed
        /\ mutex' \in Threads \union {None}
    BY <1>3 DEF RoutingInv, TypeOK, UnhandleDispatcher, UnhandleMixer
  <2>2. /\ audio' \in [Ports -> SUBSET Ports] /\ video' = Cut(video, p)
        /\ mixed' \in [Ports -> SUBSET Ports]
        /\ \A q \in Ports \ {p} : audio'[q] = audio[q] \ {p}
        /\ \A q \in Ports : audio'[q] \subseteq audio[q] /\ mixed'[q] \subseteq mixed[q]
        /\ kind = "mixer" => \A q \in Ports \ {p} : mixed'[q] = mixed[q] \ {p}
    <3>1. CASE UnhandleDispatcher(t, p)
        BY <3>1 DEF RoutingInv, TypeOK, UnhandleDispatcher, Cut
    <3>2. CASE UnhandleMixer(t, p)
      <4>1. audio' = ReleaseSinkPads(Cut(audio, p), p)
                 /\ mixed' = ReleaseSinkPads(Cut(mixed, p), p)
            /\ video' = Cut(video, p)
        BY <3>2 DEF UnhandleMixer
      <4> QED  BY <4>1 DEF RoutingInv, TypeOK, Cut, ReleaseSinkPads
    <3> QED  BY <1>3, <3>1, <3>2
  <2>3. /\ video' \in [Ports -> SUBSET Ports]
        /\ \A q \in Ports : video'[q] = video[q] \ {p}
    BY <2>2 DEF Cut, RoutingInv, TypeOK
  <2>4. TypeOK'
    BY <1>1, <2>1, <2>2, <2>3 DEF RoutingInv, TypeOK
  <2>5. \A q \in Ports : Unlinked(q) => Unlinked(q)'
    BY <2>2, <2>3 DEF Unlinked
  <2>6. Blank'
    BY <1>1, <2>5 DEF RoutingInv, TypeOK, Owned, Blank, Idle
  <2>7. MainKnown'
    BY <1>1, <2>1 DEF MainKnown
  <2>8. ASSUME ~crashed', NEW q \in table' PROVE Routed1(q)'
    <3>1. q \in table /\ q # p /\ q \in Ports
        BY <1>1, <2>8 DEF RoutingInv, TypeOK
    <3>2. Routed1(q)
        BY <2>1, <2>8, <3>1, RoutesByPort DEF RoutingInv
    <3>3. audio'[q] = audio[q] \ {p} /\ video'[q] = video[q] \ {p}
        BY <2>2, <2>3, <3>1
    <3>4. kind = "mixer" => mixed'[q] = mixed[q] \ {p}
        BY <2>2, <3>1
    <3> QED  BY <1>1, <2>1, <3>2, <3>3, <3>4 DEF Routed1
  <2>9. RoutesAsAsked'
    BY <2>8 DEF RoutesAsAsked, Routed1
  <2> QED  BY <1>1, <1>2, <2>4, <2>6, <2>7, <2>9 DEF RoutingInv
<1>4. CASE UnhandleOneToMany(t, p)
  <2>1. /\ kind = "one_to_many" /\ UNCHANGED <<mutex, mixed>>
        /\ \/ main_port = p /\ main_port' = None /\ LinkPorts(table')
           \/ /\ main_port # p /\ main_port' = main_port /\ crashed' = crashed
              /\ audio' = Cut(audio, p) /\ video' = Cut(video, p)
    BY <1>4 DEF UnhandleOneToMany
  <2>2. /\ crashed' = crashed
        /\ audio' \in [Ports -> SUBSET Ports] /\ video' \in [Ports -> SUBSET Ports]
        /\ \A q \in Ports : audio'[q] \subseteq audio[q] /\ video'[q] \subseteq video[q]
    BY <2>1 DEF RoutingInv, TypeOK, LinkPorts, Cut
  <2>3. TypeOK'
    BY <1>1, <2>1, <2>2 DEF RoutingInv, TypeOK
  <2>4. Blank'
    BY <1>1, <2>1, <2>2 DEF RoutingInv, TypeOK, Owned, Blank, Unlinked, Idle
  <2>5. MainKnown'
    BY <1>1, <2>1, <2>2 DEF RoutingInv, MainKnown
  <2>6. RoutesAsAsked'
    BY <1>1, <2>1, <2>2 DEF RoutingInv, TypeOK, RoutesAsAsked, MainKnown, LinkPorts, Cut, Main,
         None, Ports
  <2> QED  BY <1>1, <1>2, <2>3, <2>4, <2>5, <2>6 DEF RoutingInv
<1> QED  BY <1>3, <1>4

LEMMA RoutingUnhandled ==
    ASSUME RoutingInv, NEW t \in Threads, Unhandled(t)
    PROVE  RoutingInv'
<1>1. TypeOK' /\ kind' = kind
    BY DEF RoutingInv, TypeOK, Unhandled, Idle
<1>2. Owned'
    BY DEF RoutingInv, TypeOK, Owned, Unhandled, Idle
<1>3. busy[t] \in Ports \ table
    BY DEF RoutingInv, TypeOK, Owned, Unhandled, Idle
<1>4. Blank'
    BY DEF RoutingInv, TypeOK, Owned, Blank, Unlinked, Unhandled, Idle
<1>5. MainKnown' /\ RoutesAsAsked'
    BY <1>3 DEF RoutingInv, TypeOK, MainKnown, RoutesAsAsked, Unhandled, Main
<1> QED  BY <1>1, <1>2, <1>4, <1>5 DEF RoutingInv

LEMMA RoutingConnect ==
    ASSUME RoutingInv, NEW t \in Threads, NEW source \in Ports, NEW sink \in Ports,
           Routes(t, source, sink)
    PROVE  RoutingInv'
<1> USE DEF Routes, MixerCalls, ConnectPorts, VideoFails, ConnectVideo, ConnectAudio,
            DisconnectAudio, DisconnectElements, Connect, calls
<1>1. TypeOK' /\ kind' = kind
    BY DEF RoutingInv, TypeOK
<1>2. Owned'
    BY DEF RoutingInv, Owned, Idle
<1>3. Blank'
    BY DEF RoutingInv, TypeOK, Owned, Blank, Unlinked, Idle
<1>4. MainKnown'
    BY DEF RoutingInv, MainKnown
<1>5. /\ UNCHANGED <<kind, table, main_port, crashed>> /\ {source, sink} \subseteq table
      /\ kind # "one_to_many"
    OBVIOUS
<1>6. ASSUME ~crashed', NEW q \in table' PROVE Routed1(q)'
  <2>1. q \in table /\ q \in Ports /\ Routed1(q)
    BY <1>5, <1>6, RoutesByPort DEF RoutingInv, TypeOK
  <2>2. q # sink => audio'[q] = audio[q] /\ video'[q] = video[q] /\ mixed'[q] = mixed[q]
    BY <2>1 DEF RoutingInv, TypeOK
  <2>3. CASE q # sink
    BY <1>5, <2>1, <2>2, <2>3 DEF Routed1
  <2>4. CASE q = sink
    <3> USE DEF RoutingInv, TypeOK
    <3>1. CASE ConnectPorts(t, source, sink)
        BY <1>5, <2>1, <2>4, <3>1 DEF Routed1
    <3>2. CASE VideoFails(t, source, sink)
        BY <1>5, <2>1, <2>4, <3>2 DEF Routed1
    <3>3. CASE ConnectVideo(t, source, sink)
        BY <1>5, <2>1, <2>4, <3>3 DEF Routed1
    <3>4. CASE ConnectAudio(t, source, sink)
        BY <1>5, <2>1, <2>4, <3>4 DEF Routed1
    <3>5. CASE DisconnectAudio(t, source, sink)
        BY <1>5, <2>1, <2>4, <3>5 DEF Routed1
    <3> QED  BY <3>1, <3>2, <3>3, <3>4, <3>5
  <2> QED  BY <2>3, <2>4
<1>7. RoutesAsAsked'
    BY <1>6 DEF RoutesAsAsked, Routed1
<1> QED  BY <1>1, <1>2, <1>3, <1>4, <1>7 DEF RoutingInv

LEMMA RoutingSetMain ==
    ASSUME RoutingInv, NEW t \in Threads, NEW p \in Ports \union {None}, ~crashed, SetMain(t, p)
    PROVE  RoutingInv'
<1>1. /\ kind = "one_to_many" /\ main_port' = p /\ table' = table /\ LinkPorts(table)
      /\ UNCHANGED <<kind, added, busy, adding, mutex, mixed>>
    BY DEF SetMain, calls
<1>2. TypeOK'
  <2>1. audio' \in [Ports -> SUBSET Ports] /\ video' \in [Ports -> SUBSET Ports]
             /\ crashed' \in BOOLEAN
    BY <1>1, Linked DEF RoutingInv, TypeOK
  <2> QED  BY <1>1, <2>1 DEF RoutingInv, TypeOK
<1>3. Owned'
    BY <1>1 DEF RoutingInv, Owned, Idle
<1>4. \A q \in Ports \ table : audio'[q] = audio[q] /\ video'[q] = video[q]
    BY <1>1 DEF LinkPorts
<1>5. Blank'
    BY <1>1, <1>4 DEF RoutingInv, TypeOK, Owned, Blank, Unlinked, Idle
<1>6. MainKnown' /\ RoutesAsAsked'
    BY <1>1 DEF RoutingInv, TypeOK, MainKnown, RoutesAsAsked, LinkPorts, Main
<1> QED  BY <1>1, <1>2, <1>3, <1>5, <1>6 DEF RoutingInv

LEMMA RoutingStep == RoutingInv /\ [Next]_vars => RoutingInv'
<1> SUFFICES ASSUME RoutingInv, [Next]_vars PROVE RoutingInv'
    OBVIOUS
<1>1. CASE Next
    BY <1>1, RoutingHandle, RoutingInsert, RoutingUnhandle, RoutingUnhandled,
       RoutingConnect, RoutingSetMain DEF Next, PortChanges
<1>2. CASE UNCHANGED vars
    BY <1>2 DEF vars, RoutingInv, TypeOK, Owned, Blank, Unlinked, MainKnown,
                RoutesAsAsked, Idle, Main
<1> QED  BY <1>1, <1>2

-----------------------------------------------------------------------------
(* The alpha blending hub (AlphaBlending). *)

Kinds == {"nothing", "plain", "configured", "master"}
Pictures == [as : Kinds, x : Nat, width : Nat, left : Nat, right : Nat]
Wishes == [configured : BOOLEAN, x : Nat, width : Nat]

(* Types, with what the application may ask for, and without the count.     *)
Typed ==
    /\ ports \subseteq Alpha!Ports /\ master_port \in Alpha!Ports
    /\ input \in [Alpha!Ports -> BOOLEAN] /\ eos_managed \in [Alpha!Ports -> BOOLEAN]
    /\ padEos \in [Alpha!Ports -> BOOLEAN]
    /\ elements \in [Alpha!Ports -> {"none", "in", "out"}] /\ idles \in [Alpha!Ports -> 0 .. 1]
    /\ caps \in [Alpha!Ports -> Widths \union {Default}]
         /\ output_width \in Widths \union {Default}
    /\ wanted \in [Alpha!Ports -> Wishes]
    /\ drawn \in [Alpha!Ports -> Pictures]
    /\ changes \in 0 .. AlphaChanges

(* The elements of a port go only when it is gone.                          *)
Life ==
    /\ \A p \in ports : elements[p] = "in" /\ idles[p] = 0
    /\ \A p \in Alpha!Ports : elements[p] = "none" => ~input[p] /\ idles[p] = 0

(* n_elems counts the inputs, of ports that are gone too.                   *)
Counted == n_elems = Cardinality({p \in Alpha!Ports : input[p]})

(* The picture of a port with video.                                        *)
Fits(p) ==
    /\ drawn[p].as # "nothing"
    /\ IF drawn[p].as = "configured"
       THEN /\ drawn[p].width = (wanted[p].width * output_width) \div Unit
            /\ drawn[p].left + drawn[p].right <= drawn[p].width
       ELSE drawn[p].width = output_width

OneMaster == \A p, q \in Alpha!Inputs : drawn[p].as = "master" /\ drawn[q].as = "master" => p = q

AlphaInv == Typed /\ Life /\ Counted /\ (\A p \in Alpha!Inputs : Fits(p)) /\ OneMaster

-----------------------------------------------------------------------------
LEMMA Scaled ==
    ASSUME Alpha!ConstantsOK, NEW a \in Nat, NEW b \in Nat
    PROVE  (a * b) \div Unit \in Nat
<1> DEFINE c == a * b
<1>1. c \in Nat
    OBVIOUS
<1> HIDE DEF c
<1>2. c \div Unit \in Nat
    BY <1>1 DEF Alpha!ConstantsOK
<1> QED  BY <1>2 DEF c

LEMMA CropFits ==
    ASSUME NEW x \in Nat, NEW width \in Nat, NEW output \in Nat
    PROVE  /\ Alpha!Crop(x, width, output).left \in Nat
                /\ Alpha!Crop(x, width, output).right \in Nat
           /\ Alpha!Crop(x, width, output).left + Alpha!Crop(x, width, output).right <= width
<1>1. CASE x > 0
    BY <1>1 DEF Alpha!Crop, Alpha!Positive
<1>2. CASE x = 0
    BY <1>2 DEF Alpha!Crop, Alpha!Positive
<1> QED  BY <1>1, <1>2

LEMMA PlacedFits ==
    ASSUME Alpha!ConstantsOK, NEW w \in Wishes, NEW before \in Pictures, NEW output \in Nat
    PROVE  /\ Alpha!Placed(w, before, output) \in Pictures
           /\ Alpha!Placed(w, before, output).as \in {"configured", "plain"}
           /\ IF Alpha!Placed(w, before, output).as = "configured"
              THEN /\ Alpha!Placed(w, before, output).width = (w.width * output) \div Unit
                   /\ Alpha!Placed(w, before, output).left + Alpha!Placed(w, before, output).right
                        <= Alpha!Placed(w, before, output).width
              ELSE Alpha!Placed(w, before, output).width = output
<1> DEFINE x == (w.x * output) \div Unit
           width == (w.width * output) \div Unit
<1>1. x \in Nat /\ width \in Nat
    BY Scaled DEF Wishes
<1>2. CASE w.configured
  <2>1. Alpha!Placed(w, before, output) =
          [as |-> "configured", x |-> Alpha!Positive(x), width |-> width,
           left |-> Alpha!Crop(x, width, output).left,
                right |-> Alpha!Crop(x, width, output).right]
    BY <1>2 DEF Alpha!Placed
  <2>2. Alpha!Positive(x) \in Nat
    BY <1>1 DEF Alpha!Positive
  <2> HIDE DEF x, width
  <2>3. /\ Alpha!Crop(x, width, output).left \in Nat /\ Alpha!Crop(x, width, output).right \in Nat
        /\ Alpha!Crop(x, width, output).left + Alpha!Crop(x, width, output).right <= width
    BY <1>1, CropFits
  <2>4. Alpha!Placed(w, before, output) \in Pictures
    BY <1>1, <2>1, <2>2, <2>3 DEF Pictures, Kinds
  <2> QED  BY <2>1, <2>3, <2>4 DEF width
<1>3. CASE ~w.configured
  <2>1. Alpha!Placed(w, before, output) = [before EXCEPT !.as = "plain", !.x = 0,
             !.width = output]
    BY <1>3 DEF Alpha!Placed
  <2> HIDE DEF x, width
  <2>2. Alpha!Placed(w, before, output).as = "plain"
             /\ Alpha!Placed(w, before, output).width = output
    BY <2>1 DEF Pictures
  <2>3. [before EXCEPT !.as = "plain", !.x = 0, !.width = output] \in Pictures
    BY DEF Pictures, Kinds
  <2>4. Alpha!Placed(w, before, output) \in Pictures
    BY <2>1, <2>3
  <2> QED  BY <2>2, <2>4
<1> QED  BY <1>2, <1>3

(* All pictures of S are drawn for one output, the master's too.            *)
LEMMA ReconfigureFits ==
    ASSUME Alpha!ConstantsOK, Typed, NEW S \in SUBSET Alpha!Ports, NEW output \in Nat,
           Alpha!Reconfigure(S, output)
    PROVE  /\ drawn' \in [Alpha!Ports -> Pictures]
           /\ \A p \in S :
                /\ drawn'[p].as # "nothing"
                /\ drawn'[p].as = "master" => p = master_port'
                /\ IF drawn'[p].as = "configured"
                   THEN /\ drawn'[p].width = (wanted[p].width * output) \div Unit
                        /\ drawn'[p].left + drawn'[p].right <= drawn'[p].width
                   ELSE drawn'[p].width = output
<1> DEFINE new(p) == IF p \notin S THEN drawn[p]
                     ELSE IF p = master_port' THEN Alpha!AsMaster(drawn[p], output)
                     ELSE Alpha!Placed(wanted[p], drawn[p], output)
<1>1. drawn' = [p \in Alpha!Ports |-> new(p)]
    BY DEF Alpha!Reconfigure
<1>2. \A p \in Alpha!Ports : drawn[p] \in Pictures /\ wanted[p] \in Wishes
    BY DEF Typed
<1>3. \A p \in Alpha!Ports : /\ Alpha!AsMaster(drawn[p], output) \in Pictures
                             /\ Alpha!AsMaster(drawn[p], output).as = "master"
                             /\ Alpha!AsMaster(drawn[p], output).width = output
    BY <1>2 DEF Alpha!AsMaster, Pictures, Kinds
<1>4. \A p \in Alpha!Ports : new(p) \in Pictures
    BY <1>2, <1>3, PlacedFits
<1>5. drawn' \in [Alpha!Ports -> Pictures]
  <2> HIDE DEF new
  <2> QED  BY <1>1, <1>4
<1>6. ASSUME NEW p \in S
      PROVE  /\ drawn'[p].as # "nothing"
             /\ drawn'[p].as = "master" => p = master_port'
             /\ IF drawn'[p].as = "configured"
                THEN /\ drawn'[p].width = (wanted[p].width * output) \div Unit
                     /\ drawn'[p].left + drawn'[p].right <= drawn'[p].width
                ELSE drawn'[p].width = output
  <2>1. p \in Alpha!Ports /\ drawn'[p] = new(p)
    BY <1>1
  <2>2. CASE p = master_port'
    BY <1>3, <2>1, <2>2
  <2>3. CASE p # master_port'
    <3>1. drawn'[p] = Alpha!Placed(wanted[p], drawn[p], output)
        BY <2>1, <2>3
    <3>2. wanted[p] \in Wishes /\ drawn[p] \in Pictures
        BY <1>2, <2>1
    <3> HIDE DEF new
    <3>3. /\ drawn'[p].as \in {"configured", "plain"}
          /\ IF drawn'[p].as = "configured"
             THEN /\ drawn'[p].width = (wanted[p].width * output) \div Unit
                  /\ drawn'[p].left + drawn'[p].right <= drawn'[p].width
             ELSE drawn'[p].width = output
        BY ONLY Alpha!ConstantsOK, output \in Nat, <3>1, <3>2, PlacedFits
    <3> QED  BY <3>3
  <2> QED  BY <2>2, <2>3
<1> QED  BY <1>5, <1>6

LEMMA Widthy == ASSUME Alpha!ConstantsOK PROVE Widths \union {Default} \subseteq Nat
  BY DEF Alpha!ConstantsOK

LEMMA AlphaInit == Alpha!ConstantsOK /\ Alpha!Init => AlphaInv
<1> SUFFICES ASSUME Alpha!ConstantsOK, Alpha!Init PROVE AlphaInv
    OBVIOUS
<1>1. 0 \in Alpha!Ports /\ 0 \in 0 .. AlphaChanges
    BY DEF Alpha!ConstantsOK, Alpha!Ports
<1>2. Alpha!NotConfigured \in Wishes /\ Alpha!NotDrawn \in Pictures
    BY DEF Alpha!NotConfigured, Alpha!NotDrawn, Wishes, Pictures, Kinds
<1>3. Typed
    BY <1>1, <1>2 DEF Alpha!Init, Typed
<1>4. Life /\ Alpha!Inputs = {} /\ {p \in Alpha!Ports : input[p]} = {}
    BY DEF Alpha!Init, Life, Alpha!Inputs
<1>5. Counted
    BY <1>4, FS_EmptySet DEF Counted, Alpha!Init
<1> QED  BY <1>3, <1>4, <1>5 DEF AlphaInv, OneMaster

(* The count when an input comes or goes, or the inputs stay. *)
LEMMA CountOne ==
    ASSUME Alpha!ConstantsOK, Typed, Counted, NEW p \in Alpha!Ports, NEW b \in BOOLEAN,
           input' = [input EXCEPT ![p] = b], b # input[p],
           n_elems' = IF b THEN n_elems + 1 ELSE n_elems - 1
    PROVE  Counted' /\ (~b => n_elems > 0)
<1> DEFINE S == {q \in Alpha!Ports : input[q]}
           T == {q \in Alpha!Ports : input'[q]}
<1>1. IsFiniteSet(Alpha!Ports)
    BY FS_Interval DEF Alpha!Ports, Alpha!ConstantsOK
<1>2. IsFiniteSet(S) /\ IsFiniteSet(T)
    BY <1>1, FS_Subset
<1>3. Cardinality(S) \in Nat
    BY <1>2, FS_CardinalityType
<1>4. CASE b
  <2>1. T = S \union {p} /\ p \notin S
    BY <1>4 DEF Typed
  <2>2. Cardinality(T) = Cardinality(S) + 1
    BY <1>2, <2>1, FS_AddElement
  <2> QED  BY <1>4, <2>2 DEF Counted
<1>5. CASE ~b
  <2>1. T = S \ {p} /\ p \in S
    BY <1>5 DEF Typed
  <2>2. Cardinality(T) = Cardinality(S) - 1
    BY <1>2, <2>1, FS_RemoveElement
  <2>3. S # {}
    BY <2>1
  <2>4. Cardinality(S) > 0
    BY <1>2, <1>3, <2>3, FS_EmptySet
  <2> QED  BY <1>5, <2>2, <2>4 DEF Counted
<1> QED  BY <1>4, <1>5

LEMMA AlphaHandle ==
    ASSUME Alpha!ConstantsOK, AlphaInv, NEW p \in Alpha!Ports, Alpha!HandlePort(p)
    PROVE  AlphaInv'
<1>1. Typed' /\ Life' /\ Counted'
    BY DEF AlphaInv, Typed, Life, Counted, Alpha!HandlePort, Alpha!PortDataCreate
<1>2. Alpha!Inputs' = Alpha!Inputs
    BY DEF AlphaInv, Life, Alpha!Inputs, Alpha!HandlePort
<1> QED  BY <1>1, <1>2 DEF AlphaInv, Fits, OneMaster, Alpha!HandlePort

LEMMA AlphaLink ==
    ASSUME Alpha!ConstantsOK, AlphaInv, NEW p \in Alpha!Ports, NEW width \in Widths,
           Alpha!LinkToVideomixer(p, width)
    PROVE  AlphaInv'
<1> USE DEF AlphaInv
<1>1. /\ p \in ports /\ ~input[p] /\ input' = [input EXCEPT ![p] = TRUE]
      /\ n_elems' = n_elems + 1 /\ caps' = [caps EXCEPT ![p] = width]
      /\ UNCHANGED <<ports, eos_managed, padEos, elements, idles, wanted, changes, master_port>>
    BY DEF Alpha!LinkToVideomixer
<1>2. Counted'
    BY <1>1, CountOne
<1>3. Life'
    BY <1>1 DEF Life, Typed
<1>4. Alpha!Inputs' = Alpha!Inputs \union {p} /\ Alpha!Inputs' \in SUBSET Alpha!Ports
           /\ p \notin Alpha!Inputs
    BY <1>1 DEF Alpha!Inputs, Typed
<1>5. CASE p = master_port
  <2>1. output_width' = width /\ Alpha!Reconfigure(Alpha!Inputs', width)
    BY <1>4, <1>5 DEF Alpha!LinkToVideomixer
  <2>2. width \in Nat
    BY DEF Alpha!ConstantsOK
  <2>3. /\ drawn' \in [Alpha!Ports -> Pictures]
        /\ \A q \in Alpha!Inputs' :
             /\ drawn'[q].as # "nothing"
             /\ drawn'[q].as = "master" => q = master_port'
             /\ IF drawn'[q].as = "configured"
                THEN /\ drawn'[q].width = (wanted[q].width * width) \div Unit
                     /\ drawn'[q].left + drawn'[q].right <= drawn'[q].width
                ELSE drawn'[q].width = width
    BY <1>4, <2>1, <2>2, ReconfigureFits
  <2>4. Typed'
    BY <1>1, <2>1, <2>3 DEF Typed
  <2>5. \A q \in Alpha!Inputs' : Fits(q)'
    BY <1>1, <2>1, <2>3 DEF Fits
  <2>6. OneMaster'
    BY <2>3 DEF OneMaster
  <2> QED  BY <1>2, <1>3, <2>4, <2>5, <2>6
<1>6. CASE p # master_port
  <2>1. output_width' = output_width
             /\ drawn' = [drawn EXCEPT ![p] = Alpha!Placed(wanted[p], @, output_width)]
    BY <1>6 DEF Alpha!LinkToVideomixer, Alpha!ConfigurePort
  <2>2. output_width \in Nat /\ drawn[p] \in Pictures /\ wanted[p] \in Wishes
    BY Widthy DEF Typed
  <2>3. /\ drawn'[p] \in Pictures
        /\ drawn'[p].as \in {"configured", "plain"}
        /\ IF drawn'[p].as = "configured"
           THEN /\ drawn'[p].width = (wanted[p].width * output_width) \div Unit
                /\ drawn'[p].left + drawn'[p].right <= drawn'[p].width
           ELSE drawn'[p].width = output_width
    <3>1. drawn'[p] = Alpha!Placed(wanted[p], drawn[p], output_width)
        BY <2>1 DEF Typed
    <3> QED  BY ONLY Alpha!ConstantsOK, <2>2, <3>1, PlacedFits
  <2>4. drawn' \in [Alpha!Ports -> Pictures] /\ \A q \in Alpha!Ports \ {p} : drawn'[q] = drawn[q]
    BY <2>1, <2>3 DEF Typed
  <2>5. Typed'
    BY <1>1, <2>1, <2>4 DEF Typed
  <2>6. Fits(p)'
    BY <1>1, <2>1, <2>3 DEF Fits
  <2>7. \A q \in Alpha!Inputs : Fits(q)'
    BY <1>1, <1>4, <2>1, <2>4 DEF Fits
  <2>8. OneMaster'
    BY <1>4, <2>3, <2>4 DEF OneMaster
  <2> QED  BY <1>2, <1>3, <1>4, <2>5, <2>6, <2>7, <2>8
<1> QED  BY <1>5, <1>6

(* The steps that draw nothing, of ports that stay or go. *)
LEMMA AlphaSame ==
    ASSUME AlphaInv, Alpha!Inputs' \subseteq Alpha!Inputs, UNCHANGED <<drawn, output_width,
           wanted>>
    PROVE  (\A p \in Alpha!Inputs' : Fits(p)') /\ OneMaster'
  BY DEF AlphaInv, Fits, OneMaster

LEMMA AlphaStream ==
    ASSUME Alpha!ConstantsOK, AlphaInv, NEW p \in Alpha!Ports,
           \/ Alpha!EosReceived(p) \/ Alpha!StreamAgain(p)
                \/ \E width \in Widths : Alpha!CapsChange(p, width)
    PROVE  AlphaInv'
<1>1. Typed'
  <2>1. CASE Alpha!EosReceived(p) \/ Alpha!StreamAgain(p)
    BY <2>1 DEF AlphaInv, Typed, Alpha!EosReceived, Alpha!StreamAgain
  <2>2. ASSUME NEW width \in Widths, Alpha!CapsChange(p, width) PROVE Typed'
    <3>1. caps' \in [Alpha!Ports -> Widths \union {Default}] /\ changes' \in 0 .. AlphaChanges
        BY <2>2 DEF Alpha!ConstantsOK, AlphaInv, Typed, Alpha!CapsChange
    <3> QED  BY <2>2, <3>1 DEF AlphaInv, Typed, Alpha!CapsChange, Alpha!portVars
  <2> QED  BY <2>1, <2>2
<1>2. Life' /\ Counted'
    BY DEF AlphaInv, Life, Counted, Alpha!EosReceived, Alpha!StreamAgain, Alpha!CapsChange,
           Alpha!portVars
<1>3. Alpha!Inputs' \subseteq Alpha!Inputs /\ UNCHANGED <<drawn, output_width, wanted>>
    BY DEF Alpha!Inputs, Alpha!EosReceived, Alpha!StreamAgain, Alpha!CapsChange, Alpha!portVars
<1> QED  BY <1>1, <1>2, <1>3, AlphaSame DEF AlphaInv

LEMMA AlphaUnhandle ==
    ASSUME Alpha!ConstantsOK, AlphaInv, NEW p \in Alpha!Ports,
           Alpha!UnhandleFlowing(p) \/ Alpha!UnhandleEnded(p) \/ Alpha!UnhandleSilent(p)
    PROVE  AlphaInv'
<1> USE DEF AlphaInv
<1>1. /\ p \in ports /\ ports' = ports \ {p} /\ idles[p] = 0
      /\ UNCHANGED <<caps, master_port, output_width, wanted, drawn, changes, eos_managed>>
    BY DEF Life, Alpha!UnhandleFlowing, Alpha!UnhandleEnded, Alpha!UnhandleSilent, Alpha!Inputs
<1>2. /\ idles' \in [Alpha!Ports -> 0 .. 1]
      /\ \A q \in Alpha!Ports \ {p} : idles'[q] = idles[q]
  <2>1. idles' = idles \/ idles' = [idles EXCEPT ![p] = @ + 1] \/ idles' = [idles EXCEPT ![p] = @]
    BY DEF Alpha!UnhandleFlowing, Alpha!UnhandleEnded, Alpha!UnhandleSilent
  <2> QED  BY <1>1, <2>1 DEF Typed
<1>3. /\ elements' \in [Alpha!Ports -> {"none", "in", "out"}]
      /\ \A q \in Alpha!Ports \ {p} : elements'[q] = elements[q]
      /\ elements'[p] # "none"
    BY <1>1 DEF Typed, Life, Alpha!UnhandleFlowing, Alpha!UnhandleEnded, Alpha!UnhandleSilent
<1>4. padEos' \in [Alpha!Ports -> BOOLEAN]
    BY DEF Typed, Alpha!UnhandleFlowing, Alpha!UnhandleEnded, Alpha!UnhandleSilent
<1>5. /\ input' \in [Alpha!Ports -> BOOLEAN] /\ Counted'
      /\ \A q \in Alpha!Ports : input'[q] => input[q]
  <2>1. CASE UNCHANGED <<input, n_elems>>
    BY <2>1 DEF Typed, Counted
  <2>2. CASE Alpha!UnhandleFlowing(p) /\ n_elems > 0
    <3>1. input[p] /\ input' = [input EXCEPT ![p] = FALSE] /\ n_elems' = n_elems - 1
        BY <2>2 DEF Alpha!UnhandleFlowing, Alpha!Inputs
    <3>2. Counted'
        BY <1>1, <3>1, CountOne DEF Typed
    <3> QED  BY <3>1, <3>2 DEF Typed
  <2> QED  BY <2>1, <2>2 DEF Alpha!UnhandleFlowing, Alpha!UnhandleEnded, Alpha!UnhandleSilent
<1>6. Typed'
    BY <1>1, <1>2, <1>3, <1>4, <1>5 DEF Typed
<1>7. Life'
    BY <1>1, <1>2, <1>3, <1>5 DEF Life, Typed
<1>8. Alpha!Inputs' \subseteq Alpha!Inputs
    BY <1>1, <1>5 DEF Alpha!Inputs, Typed
<1> QED  BY <1>1, <1>5, <1>6, <1>7, <1>8, AlphaSame

LEMMA AlphaRemove ==
    ASSUME Alpha!ConstantsOK, AlphaInv, NEW p \in Alpha!Ports, Alpha!RemoveElements(p)
    PROVE  AlphaInv'
<1> USE DEF AlphaInv
<1>1. p \notin ports
    BY DEF Life, Alpha!RemoveElements
<1>2. Typed'
  <2>1. Alpha!NotDrawn \in Pictures
    BY DEF Alpha!NotDrawn, Pictures, Kinds
  <2>2. idles' \in [Alpha!Ports -> 0 .. 1] /\ elements' \in [Alpha!Ports -> {"none", "in", "out"}]
    BY DEF Alpha!RemoveElements, Typed
  <2> QED  BY <2>1, <2>2 DEF Typed, Alpha!RemoveElements
<1>3. Life' /\ Counted'
    BY <1>1 DEF Life, Typed, Counted, Alpha!RemoveElements
<1>4. Alpha!Inputs' = Alpha!Inputs /\ \A q \in Alpha!Inputs : q \in Alpha!Ports \ {p}
           /\ drawn'[q] = drawn[q]
    BY <1>1 DEF Alpha!Inputs, Typed, Alpha!RemoveElements
<1>5. \A q \in Alpha!Inputs : Fits(q)'
    BY <1>4 DEF Fits, Alpha!RemoveElements
<1>6. OneMaster'
    BY <1>4 DEF OneMaster
<1> QED  BY <1>2, <1>3, <1>4, <1>5, <1>6

LEMMA AlphaMaster ==
    ASSUME Alpha!ConstantsOK, AlphaInv, NEW p \in Alpha!Ports, Alpha!SetMaster(p)
    PROVE  AlphaInv'
<1> USE DEF AlphaInv
<1>1. /\ master_port' = p /\ changes' \in 0 .. AlphaChanges
      /\ UNCHANGED <<Alpha!portVars, caps, n_elems, wanted>>
    BY DEF Alpha!SetMaster, Typed, Alpha!ConstantsOK
<1>2. Life' /\ Counted' /\ Alpha!Inputs' = Alpha!Inputs
    BY <1>1 DEF Life, Counted, Alpha!Inputs, Alpha!portVars
<1>3. CASE p \in Alpha!Inputs
  <2>1. output_width' = caps[p] /\ Alpha!Reconfigure(Alpha!Inputs, caps[p])
    BY <1>3 DEF Alpha!SetMaster
  <2>2. caps[p] \in Nat /\ caps[p] \in Widths \union {Default}
             /\ Alpha!Inputs \in SUBSET Alpha!Ports
    BY Widthy DEF Typed, Alpha!Inputs
  <2>3. /\ drawn' \in [Alpha!Ports -> Pictures]
        /\ \A q \in Alpha!Inputs :
             /\ drawn'[q].as # "nothing"
             /\ drawn'[q].as = "master" => q = master_port'
             /\ IF drawn'[q].as = "configured"
                THEN /\ drawn'[q].width = (wanted[q].width * caps[p]) \div Unit
                     /\ drawn'[q].left + drawn'[q].right <= drawn'[q].width
                ELSE drawn'[q].width = caps[p]
    BY <2>1, <2>2, ReconfigureFits
  <2>4. Typed'
    BY <1>1, <2>1, <2>2, <2>3 DEF Typed, Alpha!portVars
  <2>5. \A q \in Alpha!Inputs : Fits(q)'
    BY <1>1, <2>1, <2>3 DEF Fits
  <2>6. OneMaster'
    BY <1>2, <2>3 DEF OneMaster
  <2> QED  BY <1>2, <2>4, <2>5, <2>6
<1>4. CASE p \notin Alpha!Inputs
  <2>1. UNCHANGED <<output_width, drawn>>
    BY <1>4 DEF Alpha!SetMaster
  <2>2. Typed'
    BY <1>1, <2>1 DEF Typed, Alpha!portVars
  <2> QED  BY <1>1, <1>2, <2>1, <2>2, AlphaSame
<1> QED  BY <1>3, <1>4

LEMMA AlphaProperties ==
    ASSUME Alpha!ConstantsOK, AlphaInv, NEW p \in Alpha!Ports, NEW x \in Parts,
           NEW width \in Parts,
           Alpha!SetPortProperties(p, x, width)
    PROVE  AlphaInv'
<1> USE DEF AlphaInv
<1> DEFINE w == [configured |-> TRUE, x |-> x, width |-> width]
<1>1. /\ p \in ports /\ wanted' = [wanted EXCEPT ![p] = w] /\ changes' \in 0 .. AlphaChanges
      /\ UNCHANGED <<Alpha!portVars, caps, n_elems, master_port, output_width>>
    BY DEF Alpha!SetPortProperties, Typed, Alpha!ConstantsOK
<1>2. w \in Wishes /\ wanted' \in [Alpha!Ports -> Wishes] /\ wanted'[p] = w
      /\ \A q \in Alpha!Ports \ {p} : wanted'[q] = wanted[q]
  <2>1. w \in Wishes
    BY DEF Alpha!ConstantsOK, Wishes
  <2> HIDE DEF w
  <2> QED  BY <1>1, <2>1 DEF Typed
<1> HIDE DEF w
<1>3. Life' /\ Counted' /\ Alpha!Inputs' = Alpha!Inputs /\ Alpha!Inputs \subseteq Alpha!Ports
    BY <1>1 DEF Life, Counted, Alpha!Inputs, Alpha!portVars, Typed
<1>4. CASE input[p]
  <2>1. drawn' = [drawn EXCEPT ![p] = Alpha!Placed(wanted'[p], @, output_width)]
    BY <1>4 DEF Alpha!SetPortProperties, Alpha!ConfigurePort
  <2>2. output_width \in Nat /\ drawn[p] \in Pictures
    BY Widthy DEF Typed
  <2>3. /\ drawn'[p] \in Pictures
        /\ drawn'[p].as \in {"configured", "plain"}
        /\ IF drawn'[p].as = "configured"
           THEN /\ drawn'[p].width = (wanted'[p].width * output_width) \div Unit
                /\ drawn'[p].left + drawn'[p].right <= drawn'[p].width
           ELSE drawn'[p].width = output_width
    <3>1. drawn'[p] = Alpha!Placed(wanted'[p], drawn[p], output_width)
        BY <2>1 DEF Typed
    <3>2. wanted'[p] \in Wishes
        BY <1>2
    <3> QED  BY ONLY Alpha!ConstantsOK, <2>2, <3>1, <3>2, PlacedFits
  <2>4. drawn' \in [Alpha!Ports -> Pictures] /\ \A q \in Alpha!Ports \ {p} : drawn'[q] = drawn[q]
    BY <2>1, <2>3 DEF Typed
  <2>5. Typed'
    BY <1>1, <1>2, <2>4 DEF Typed, Alpha!portVars
  <2>6. Fits(p)'
    BY <1>1, <2>3 DEF Fits
  <2>7. \A q \in Alpha!Inputs \ {p} : Fits(q)'
    BY <1>1, <1>2, <1>3, <2>4 DEF Fits
  <2>8. OneMaster'
    BY <1>3, <2>3, <2>4 DEF OneMaster
  <2> QED  BY <1>3, <2>5, <2>6, <2>7, <2>8
<1>5. CASE ~input[p]
  <2>1. drawn' = drawn /\ p \notin Alpha!Inputs
    BY <1>5 DEF Alpha!SetPortProperties, Alpha!Inputs
  <2>2. Typed'
    BY <1>1, <1>2, <2>1 DEF Typed, Alpha!portVars
  <2>3. \A q \in Alpha!Inputs : Fits(q)'
    BY <1>1, <1>2, <1>3, <2>1 DEF Fits
  <2>4. OneMaster'
    BY <1>3, <2>1 DEF OneMaster
  <2> QED  BY <1>3, <2>2, <2>3, <2>4
<1> QED  BY <1>4, <1>5

LEMMA AlphaStep == Alpha!ConstantsOK /\ AlphaInv /\ [Alpha!Next]_(Alpha!vars) => AlphaInv'
<1> SUFFICES ASSUME Alpha!ConstantsOK, AlphaInv, [Alpha!Next]_(Alpha!vars) PROVE AlphaInv'
    OBVIOUS
<1>1. CASE Alpha!Next
    BY <1>1, AlphaHandle, AlphaLink, AlphaStream, AlphaUnhandle, AlphaRemove, AlphaMaster,
       AlphaProperties DEF Alpha!Next, Alpha!Port
<1>2. CASE UNCHANGED Alpha!vars
  <2> USE <1>2 DEF Alpha!vars, Alpha!portVars
  <2>1. Typed' /\ Life' /\ Counted'
    BY DEF AlphaInv, Typed, Life, Counted
  <2>2. Alpha!Inputs' \subseteq Alpha!Inputs
    BY DEF Alpha!Inputs
  <2> QED  BY <2>1, <2>2, AlphaSame DEF AlphaInv
<1> QED  BY <1>1, <1>2

LEMMA AlphaShows == Alpha!ConstantsOK /\ AlphaInv => Alpha!TypeOK /\ Alpha!OneSize
<1> SUFFICES ASSUME Alpha!ConstantsOK, AlphaInv PROVE Alpha!TypeOK /\ Alpha!OneSize
    OBVIOUS
<1> DEFINE S == {p \in Alpha!Ports : input[p]}
<1>1. IsFiniteSet(Alpha!Ports) /\ Cardinality(Alpha!Ports) = MixerPorts
    BY FS_Interval DEF Alpha!Ports, Alpha!ConstantsOK
<1>2. Cardinality(S) \in Nat /\ Cardinality(S) <= MixerPorts
    BY <1>1, FS_Subset, FS_CardinalityType
<1>3. n_elems \in 0 .. MixerPorts
    BY <1>2 DEF AlphaInv, Counted, Alpha!ConstantsOK
<1>4. wanted \in [Alpha!Ports -> [configured : BOOLEAN, x : Int, width : Int]]
    BY DEF AlphaInv, Typed, Wishes
<1>5. Alpha!TypeOK
    BY <1>3, <1>4 DEF AlphaInv, Typed, Alpha!TypeOK, Pictures, Kinds
<1>6. Alpha!OneSize
    BY DEF AlphaInv, OneMaster, Alpha!OneSize, Fits
<1> QED  BY <1>5, <1>6

-----------------------------------------------------------------------------
(* The RTP endpoint (RtpEndpoint). *)

(* Types. *)
Names ==
    {<<>>} \union ({"user", "random"} \X Nat) \union ({"peer"} \X Nat \X Nat)
SdpKeys == [key : Names, tag : Nat, suite : Nat]
Used == [key : Names, suite : Nat]
Connections == [ports : SUBSET Nat, enc : Used, dec : Used, updated : BOOLEAN,
                handlers : Nat, remote : BOOLEAN]
Searches == [start : Nat, current : Nat, first : SUBSET Nat, wrapped : BOOLEAN,
             seen : SUBSET Nat]
Search == {"ports", "first", "second", "found", "failed"}
Stages == Search \union {"idle", "keys", "offered", "select", "transport", "connected"}

TypedConfig ==
    /\ crypto \in Nat /\ master \in Names /\ range \in Ranges
    /\ taken \subseteq Nat
    /\ role \in {"none", "offerer", "answerer"} /\ at \in Rtp!Index /\ stage \in Stages
TypedMedia ==
    /\ keys \in [Rtp!Index -> [local : SdpKeys, remote : SdpKeys]]
    /\ announced \in [Rtp!Index -> SdpKeys]
    /\ port \in [Rtp!Index -> Nat]
    /\ peerKeys \in [Rtp!Index -> Seq(SdpKeys)]
    /\ conn \in [Rtp!Index -> Connections]
    /\ stream \in [Rtp!Index -> Used]
TypedSearch == search \in Searches

(* How far a medium is: not begun; without a connection; with one that is   *)
(* not configured; configured before the answer of the peer.                *)
Todo(i) == stage = "idle" \/ (stage \in Search \union {"keys"} /\ i > at)
     \/ (stage = "keys" /\ i = at)
Bare(i) == Todo(i) \/ (stage \in Search \ {"found"} /\ i = at)
Fresh(i) == Bare(i) \/ (stage = "found" /\ i = at)
Pending(i) ==
    \/ role = "offerer" /\ stage \in Search \union {"keys", "offered"}
    \/ stage = "select" /\ i >= at

Phase ==
    /\ stage \in {"offered", "select"} => role = "offerer"
    /\ stage = "select" => crypto # Rtp!NoSuite
    /\ stage \in {"idle", "offered", "transport", "connected"} => at = 1

Begun(i) ==
    /\ Todo(i) => keys[i] = Rtp!NoKeys
    /\ Bare(i) => conn[i] = Rtp!NoConn
    /\ Fresh(i) => conn[i].enc = Rtp!NotUsed /\ conn[i].dec = Rtp!NotUsed
         /\ stream[i] = Rtp!NotUsed /\ port[i] = 0
    /\ Pending(i) => keys[i].remote = Rtp!NoKey /\ conn[i].dec = Rtp!NotUsed
         /\ stream[i] = Rtp!NotUsed

(* The keys of the endpoint and of the peer. *)
KeysOf(i) ==
    /\ announced[i] = keys[i].local
    /\ keys[i].local # Rtp!NoKey => keys[i].local.key # <<>>
    /\ crypto = Rtp!NoSuite => keys[i] = Rtp!NoKeys
    /\ keys[i].remote # Rtp!NoKey => peerKeys[i] # <<>> /\ keys[i].remote = peerKeys[i][1]
    /\ stage = "select" => (peerKeys[i] # <<>> => port[i] # 0)

Uses(i) ==
    /\ conn[i].enc # Rtp!NotUsed => conn[i].enc = Rtp!Use(keys[i].local)
         /\ keys[i].local # Rtp!NoKey
    /\ port[i] # 0 /\ keys[i].local # Rtp!NoKey => conn[i].enc = Rtp!Use(keys[i].local)
    /\ conn[i].dec # Rtp!NotUsed =>
          /\ conn[i].enc # Rtp!NotUsed /\ conn[i].dec.suite = conn[i].enc.suite
          /\ \E n \in DOMAIN peerKeys[i] : /\ conn[i].dec = Rtp!Use(peerKeys[i][n])
                                           /\ peerKeys[i][n].tag = announced[i].tag
    /\ stream[i] \in {Rtp!NotUsed, conn[i].dec}

(* The ports of a connection are a pair, which no other has.                *)
Sockets ==
    /\ \A i \in Rtp!Index :
         /\ conn[i].ports # {} => \E e \in Nat \ {0} : e % 2 = 0 /\ conn[i].ports = {e, e + 1}
         /\ port[i] # 0 => port[i] \in conn[i].ports
         /\ i = at /\ stage = "found" => conn[i].ports # {}
         /\ \A j \in Rtp!Index \ {i} : conn[i].ports \intersect conn[j].ports = {}
    /\ stage # "second" => search.first = {}
    /\ stage = "second" =>
         /\ search.first = {search.current} /\ search.current > Privileged
         /\ Rtp!InRange(Rtp!Neighbour(search.current))
         /\ \A i \in Rtp!Index : search.current \notin conn[i].ports

(* The search stays in the word.                                            *)
Word ==
    Rtp!Searching => search.current \in 0 .. UdpPorts - 1
         /\ search.start \in Rtp!Lowest .. Rtp!Highest

KeysInv ==
    /\ TypedConfig /\ TypedMedia /\ TypedSearch /\ Phase
    /\ \A i \in Rtp!Index : Begun(i) /\ KeysOf(i) /\ Uses(i)
    /\ Sockets /\ Word

-----------------------------------------------------------------------------
LEMMA Two == Rtp!Index = {1, 2} /\ Len(Rtp!Media) = 2
  BY DEF Rtp!Index, Rtp!Media

LEMMA Nones ==
    /\ Rtp!NoKey \in SdpKeys /\ Rtp!NotUsed \in Used /\ Rtp!NoConn \in Connections
         /\ Rtp!NoSearch \in Searches
    /\ Rtp!NoKeys \in [local : SdpKeys, remote : SdpKeys] /\ Rtp!NoKeys.local = Rtp!NoKey
         /\ Rtp!NoKeys.remote = Rtp!NoKey
    /\ Rtp!NoConn.enc = Rtp!NotUsed /\ Rtp!NoConn.dec = Rtp!NotUsed /\ Rtp!NoConn.ports = {}
    /\ Rtp!NoSearch.first = {} /\ ~Rtp!NoSearch.wrapped /\ Rtp!NotUsed.key = <<>>
<1>1. <<>> \in Names
    BY DEF Names
<1> USE DEF Rtp!NoKey, Rtp!NotUsed, Rtp!NoKeys, Rtp!NoConn, Rtp!NoSearch, Rtp!NoSuite
<1>2. Rtp!NoKey \in SdpKeys
    BY <1>1 DEF SdpKeys
<1>3. Rtp!NotUsed \in Used
    BY <1>1 DEF Used
<1>4. Rtp!NoConn \in Connections
    BY <1>3 DEF Connections
<1>5. Rtp!NoSearch \in Searches
    BY DEF Searches
<1>6. Rtp!NoKeys \in [local : SdpKeys, remote : SdpKeys]
    BY <1>2
<1> QED  BY <1>2, <1>3, <1>4, <1>5, <1>6

LEMMA UseType == ASSUME NEW k \in SdpKeys
                 PROVE Rtp!Use(k) \in Used /\ Rtp!Use(k).suite = k.suite /\ Rtp!Use(k).key = k.key
  BY DEF SdpKeys, Used, Rtp!Use

LEMMA RangeOK ==
    ASSUME Rtp!ConstantsOK, range \in Ranges
    PROVE  Rtp!Lowest \in Nat \ {0} /\ Rtp!Highest \in Nat /\ Rtp!Highest < UdpPorts
         /\ Rtp!Lowest > Privileged
  BY DEF Rtp!ConstantsOK, Rtp!Lowest, Rtp!Highest

LEMMA KeysInit == Rtp!ConstantsOK /\ Rtp!Init => KeysInv
<1> SUFFICES ASSUME Rtp!ConstantsOK, Rtp!Init PROVE KeysInv
    OBVIOUS
<1> USE Nones, Two
<1>1. TypedConfig
  <2>1. master \in Names
    BY DEF Rtp!Init, Rtp!ConstantsOK, Names, Rtp!NoMaster, Rtp!NoSuite
  <2>2. taken \subseteq Nat
    BY RangeOK DEF Rtp!Init
  <2>3. crypto \in Nat /\ range \in Ranges /\ role = "none" /\ at \in Rtp!Index /\ stage = "idle"
    BY DEF Rtp!Init, Rtp!ConstantsOK, Rtp!NoSuite
  <2> QED  BY <2>1, <2>2, <2>3 DEF TypedConfig, Stages
<1>2. TypedMedia /\ TypedSearch
    BY DEF Rtp!Init, TypedMedia, TypedSearch
<1>3. Phase
    BY DEF Rtp!Init, Phase
<1>4. ASSUME NEW i \in Rtp!Index PROVE Begun(i) /\ KeysOf(i) /\ Uses(i)
  <2>1. /\ keys[i] = Rtp!NoKeys /\ announced[i] = Rtp!NoKey /\ port[i] = 0 /\ peerKeys[i] = <<>>
        /\ conn[i] = Rtp!NoConn /\ stream[i] = Rtp!NotUsed /\ role = "none" /\ stage = "idle"
    BY DEF Rtp!Init
  <2> QED  BY <2>1 DEF Begun, KeysOf, Uses, Pending, Search
<1>5. Sockets
    BY DEF Rtp!Init, Sockets
<1>6. Word
    BY DEF Rtp!Init, Word, Rtp!Searching
<1> QED  BY <1>1, <1>2, <1>3, <1>4, <1>5, <1>6 DEF KeysInv
-----------------------------------------------------------------------------
(* The search. *)

(* The media do not change while their ports are searched.                  *)
LEMMA MediaStay ==
    ASSUME KeysInv, stage \in Search \ {"found"}, stage' \in Search \ {"found"},
           UNCHANGED <<Rtp!config, master, role, at, keys, Rtp!sdp, conn, Rtp!events>>
    PROVE  Phase' /\ TypedMedia' /\ \A i \in Rtp!Index : Begun(i)' /\ KeysOf(i)' /\ Uses(i)'
<1> USE DEF Rtp!config, Rtp!sdp, Rtp!events
<1>1. Phase' /\ TypedMedia'
    BY DEF KeysInv, Phase, TypedMedia, Search
<1>2. ASSUME NEW i \in Rtp!Index PROVE Begun(i)' /\ KeysOf(i)' /\ Uses(i)'
  <2>0. Begun(i) /\ KeysOf(i) /\ Uses(i)
    BY DEF KeysInv
  <2>1. Todo(i)' = Todo(i) /\ Bare(i)' = Bare(i) /\ Fresh(i)' = Fresh(i)
             /\ Pending(i)' = Pending(i)
    BY DEF Todo, Bare, Fresh, Pending, Search
  <2>2. Begun(i)'
    BY <2>0, <2>1 DEF Begun
  <2>3. KeysOf(i)' /\ Uses(i)'
    BY <2>0 DEF KeysOf, Uses, Search
  <2> QED  BY <2>2, <2>3
<1> QED  BY <1>1, <1>2

LEMMA Next2 ==
    ASSUME Rtp!ConstantsOK, NEW p \in 0 .. UdpPorts - 1
    PROVE  (p + 2) % UdpPorts = IF p + 2 < UdpPorts THEN p + 2 ELSE p + 2 - UdpPorts
<1>1. CASE p + 2 < UdpPorts
    BY <1>1 DEF Rtp!ConstantsOK
<1>2. CASE p + 2 >= UdpPorts
  <2>1. p + 2 - UdpPorts \in 0 .. UdpPorts - 1
    BY <1>2 DEF Rtp!ConstantsOK
  <2> QED  BY <1>2, <2>1 DEF Rtp!ConstantsOK
<1> QED  BY <1>1, <1>2 DEF Rtp!ConstantsOK

(* inc_port goes to a port of the word, and says when the search is over.   *)
LEMMA Incremented ==
    ASSUME Rtp!ConstantsOK, TypedSearch, range \in Ranges, NEW p \in 0 .. UdpPorts - 1,
           Rtp!IncPort(p)
    PROVE  LET next == (p + 2) % UdpPorts
               wrapped == search.wrapped \/ next > Rtp!Highest
               current == IF next > Rtp!Highest THEN Rtp!Lowest ELSE next
           IN  /\ search' \in Searches /\ next \in 0 .. UdpPorts - 1
               /\ search'.start = search.start /\ search'.seen = search.seen
               /\ search'.first = {} /\ search'.wrapped = wrapped /\ search'.current = current
               /\ stage' \in {"failed", "first"}
               /\ stage' = "failed" <=> (wrapped /\ current + 1 >= search.start)
<1> DEFINE next == (p + 2) % UdpPorts
           wrapped == search.wrapped \/ next > Rtp!Highest
           current == IF next > Rtp!Highest THEN Rtp!Lowest ELSE next
<1>1. next \in 0 .. UdpPorts - 1
    BY DEF Rtp!ConstantsOK
<1>2. /\ search' = [search EXCEPT !.current = current, !.wrapped = wrapped, !.first = {}]
      /\ stage' = IF wrapped /\ current + 1 >= search.start THEN "failed" ELSE "first"
    BY DEF Rtp!IncPort
<1>3. Rtp!Lowest \in Nat /\ Rtp!Highest \in Nat
    BY RangeOK
<1> HIDE DEF next
<1>4. current \in Nat
    BY <1>1, <1>3
<1>5. wrapped \in BOOLEAN
    OBVIOUS
<1> HIDE DEF wrapped, current
<1>6. /\ search' \in Searches
      /\ search'.start = search.start /\ search'.seen = search.seen
      /\ search'.first = {} /\ search'.wrapped = wrapped /\ search'.current = current
    BY <1>2, <1>4, <1>5 DEF TypedSearch, Searches
<1>7. stage' \in {"failed", "first"}
           /\ (stage' = "failed" <=> (wrapped /\ current + 1 >= search.start))
    BY <1>2
<1> QED  BY <1>1, <1>6, <1>7 DEF next, wrapped, current
(* Sockets stay what they are while no connection is made.                  *)
LEMMA SocketsStay ==
    ASSUME KeysInv, UNCHANGED <<at, conn, port>>, stage' # "found", stage' # "second",
           search'.first = {}
    PROVE  Sockets'
  BY DEF KeysInv, Sockets

LEMMA SearchBegins ==
    ASSUME Rtp!ConstantsOK, KeysInv, Rtp!SearchBegin \/ Rtp!SearchRefused
    PROVE  KeysInv'
<1> USE DEF KeysInv
<1>1. /\ stage = "ports" /\ stage' \in {"first", "failed"}
      /\ UNCHANGED <<Rtp!config, master, Rtp!world, role, at, keys, Rtp!sdp, conn, Rtp!events>>
    BY DEF Rtp!SearchBegin, Rtp!SearchRefused
<1>2. TypedConfig'
    BY <1>1 DEF TypedConfig, Stages, Search, Rtp!config, Rtp!world
<1>3. TypedMedia' /\ Phase' /\ \A i \in Rtp!Index : Begun(i)' /\ KeysOf(i)' /\ Uses(i)'
    BY <1>1, MediaStay DEF Search
<1>4. \A S : Rtp!BusyPairs(S) \in SUBSET Nat
    BY RangeOK DEF Rtp!BusyPairs, Rtp!Pairs, TypedConfig
<1>5. /\ search' \in Searches /\ search'.first = {}
      /\ stage' = "first" => search'.current = search'.start
           /\ search'.start \in Rtp!Lowest .. Rtp!Highest
  <2>1. CASE Rtp!SearchBegin
    <3>1. PICK p \in Rtp!Lowest .. Rtp!Highest :
            search' = [Rtp!NoSearch EXCEPT !.start = p, !.current = p,
                 !.seen = Rtp!BusyPairs(Rtp!Held)]
        BY <2>1 DEF Rtp!SearchBegin
    <3>2. p \in Nat
        BY RangeOK DEF TypedConfig
    <3>3. Rtp!BusyPairs(Rtp!Held) \in SUBSET Nat
        BY <1>4
    <3> DEFINE seen == Rtp!BusyPairs(Rtp!Held)
    <3> HIDE DEF seen
    <3>4. search' = [Rtp!NoSearch EXCEPT !.start = p, !.current = p, !.seen = seen]
               /\ seen \in SUBSET Nat
        BY <3>1, <3>3 DEF seen
    <3> QED  BY <3>2, <3>4, Nones DEF Rtp!NoSearch, Searches
  <2>2. CASE Rtp!SearchRefused
    <3>1. stage' = "failed" /\ search' = [Rtp!NoSearch EXCEPT !.seen = Rtp!BusyPairs(Rtp!Held)]
        BY <2>2 DEF Rtp!SearchRefused
    <3>2. Rtp!BusyPairs(Rtp!Held) \in SUBSET Nat
        BY <1>4
    <3> DEFINE seen == Rtp!BusyPairs(Rtp!Held)
    <3> HIDE DEF seen
    <3>3. search' = [Rtp!NoSearch EXCEPT !.seen = seen] /\ seen \in SUBSET Nat
        BY <3>1, <3>2 DEF seen
    <3> QED  BY <3>1, <3>3, Nones DEF Rtp!NoSearch, Searches
  <2> QED  BY <2>1, <2>2
<1>6. Sockets'
  <2>1. UNCHANGED <<at, conn, port>> /\ stage' # "found" /\ stage' # "second"
    BY <1>1 DEF Rtp!sdp
  <2> QED  BY <1>5, <2>1, SocketsStay
<1>7. Word'
  <2>1. Rtp!Lowest' = Rtp!Lowest /\ Rtp!Highest' = Rtp!Highest
    BY <1>1 DEF Rtp!config, Rtp!Lowest, Rtp!Highest
  <2>2. Rtp!Lowest \in Nat /\ Rtp!Highest \in Nat /\ Rtp!Highest < UdpPorts /\ UdpPorts \in Nat
    BY RangeOK DEF TypedConfig, Rtp!ConstantsOK
  <2>3. Rtp!Searching' => stage' = "first"
    BY <1>1 DEF Rtp!Searching
  <2> QED  BY <1>5, <2>1, <2>2, <2>3 DEF Word
<1> QED  BY <1>2, <1>3, <1>5, <1>6, <1>7 DEF TypedSearch

(* The search goes on, or is over. *)
LEMMA SearchGoesOn ==
    ASSUME Rtp!ConstantsOK, KeysInv, stage \in {"first", "second"}, NEW p \in 0 .. UdpPorts - 1,
           Rtp!IncPort(p),
           UNCHANGED <<Rtp!config, master, Rtp!world, role, at, keys, Rtp!sdp, conn, Rtp!events>>
    PROVE  KeysInv'
<1> USE DEF KeysInv
<1>1. range \in Ranges /\ search.start \in Rtp!Lowest .. Rtp!Highest
    BY DEF Word, Rtp!Searching, TypedConfig
<1>2. Rtp!Lowest \in Nat /\ Rtp!Highest \in Nat /\ Rtp!Highest < UdpPorts /\ UdpPorts \in Nat
    BY RangeOK DEF TypedConfig, Rtp!ConstantsOK
<1>3. /\ search' \in Searches /\ search'.first = {} /\ stage' \in {"failed", "first"}
      /\ search'.start = search.start
      /\ search'.current \in {Rtp!Lowest} \union (0 .. UdpPorts - 1)
    BY <1>1, Incremented
<1>4. TypedConfig'
    BY <1>3 DEF TypedConfig, Stages, Search, Rtp!config, Rtp!world
<1>5. TypedMedia' /\ Phase' /\ \A i \in Rtp!Index : Begun(i)' /\ KeysOf(i)' /\ Uses(i)'
    BY <1>3, MediaStay DEF Search
<1>6. Sockets'
  <2>1. UNCHANGED <<at, conn, port>> /\ stage' # "found" /\ stage' # "second"
    BY <1>3 DEF Rtp!sdp
  <2> QED  BY <1>3, <2>1, SocketsStay
<1>7. Word'
  <2>1. Rtp!Lowest' = Rtp!Lowest /\ Rtp!Highest' = Rtp!Highest
    BY DEF Rtp!config, Rtp!Lowest, Rtp!Highest
  <2>2. search'.current \in 0 .. UdpPorts - 1
    BY <1>1, <1>2, <1>3
  <2> QED  BY <1>1, <1>3, <2>1, <2>2 DEF Word
<1> QED  BY <1>3, <1>4, <1>5, <1>6, <1>7 DEF TypedSearch

LEMMA FirstOpens ==
    ASSUME Rtp!ConstantsOK, KeysInv, Rtp!OpenFirst
    PROVE  KeysInv'
<1> USE DEF KeysInv
<1>1. stage = "first" /\ UNCHANGED <<Rtp!config, master, Rtp!world, role, at, keys, Rtp!sdp,
           conn, Rtp!events>>
    BY DEF Rtp!OpenFirst
<1>2. search.current \in 0 .. UdpPorts - 1
    BY <1>1 DEF Word, Rtp!Searching
<1>3. CASE \E p \in 0 .. UdpPorts - 1 : Rtp!IncPort(p)
    BY <1>1, <1>3, SearchGoesOn
<1>4. ASSUME ~\E p \in 0 .. UdpPorts - 1 : Rtp!IncPort(p) PROVE KeysInv'
  <2>1. PICK p \in 0 .. UdpPorts - 1 :
          /\ Rtp!Opens(p) /\ Rtp!InRange(Rtp!Neighbour(p)) /\ stage' = "second"
          /\ search' = [search EXCEPT !.first = {p}, !.current = p]
    BY <1>2, <1>4 DEF Rtp!OpenFirst
  <2>2. /\ Rtp!InRange(Rtp!Neighbour(p)) /\ stage' = "second"
        /\ search' = [search EXCEPT !.first = {p}, !.current = p]
    BY <2>1
  <2>3. p \in Nat
    OBVIOUS
  <2>4. search' \in Searches /\ search'.first = {p} /\ search'.current = p
             /\ search'.start = search.start
    BY <2>2, <2>3 DEF TypedSearch, Searches
  <2>5. TypedConfig'
    BY <1>1, <2>2 DEF TypedConfig, Stages, Search, Rtp!config, Rtp!world
  <2>6. TypedMedia' /\ Phase' /\ \A i \in Rtp!Index : Begun(i)' /\ KeysOf(i)' /\ Uses(i)'
    BY <1>1, <2>2, MediaStay DEF Search
  <2>7. Rtp!Lowest' = Rtp!Lowest /\ Rtp!Highest' = Rtp!Highest
             /\ Rtp!InRange(Rtp!Neighbour(p))' = Rtp!InRange(Rtp!Neighbour(p))
    BY <1>1 DEF Rtp!config, Rtp!Lowest, Rtp!Highest, Rtp!InRange
  <2>8. p > Privileged /\ \A i \in Rtp!Index : p \notin conn[i].ports
    BY <2>1 DEF Rtp!Opens, Rtp!Held
  <2>9. Sockets'
    BY <1>1, <2>2, <2>4, <2>7, <2>8 DEF Sockets, Rtp!sdp
  <2>10. Word'
    BY <1>1, <2>1, <2>2, <2>4, <2>7 DEF Word, Rtp!Searching
  <2> QED  BY <2>4, <2>5, <2>6, <2>9, <2>10 DEF TypedSearch
<1> QED  BY <1>3, <1>4

LEMMA SecondOpens ==
    ASSUME Rtp!ConstantsOK, KeysInv, Rtp!OpenSecond
    PROVE  KeysInv'
<1> USE DEF KeysInv
<1>1. stage = "second" /\ UNCHANGED <<Rtp!config, master, Rtp!world, role, at, keys, Rtp!sdp,
           Rtp!events>>
    BY DEF Rtp!OpenSecond
<1>2. CASE ~Rtp!Opens(Rtp!Neighbour(search.current))
  <2>1. search.current \in 0 .. UdpPorts - 1
    BY <1>1 DEF Word, Rtp!Searching
  <2> QED  BY <1>1, <1>2, <2>1, SearchGoesOn DEF Rtp!OpenSecond
<1>3. ASSUME Rtp!Opens(Rtp!Neighbour(search.current)) PROVE KeysInv'
  <2> DEFINE p == search.current
             q == Rtp!Neighbour(p)
  <2>1. /\ conn' = [conn EXCEPT ![at] = Rtp!NewConnection({p, q})]
        /\ stage' = "found" /\ search' = Rtp!NoSearch
    BY <1>3 DEF Rtp!OpenSecond
  <2>2. p \in Nat /\ p > Privileged /\ Privileged \in Nat /\ at \in Rtp!Index
    BY <1>1 DEF Word, Rtp!Searching, Sockets, Rtp!ConstantsOK, TypedConfig
  <2>3. q \in Nat \ {0} /\ p # q /\ \E e \in Nat \ {0} : e % 2 = 0 /\ {p, q} = {e, e + 1}
    <3>1. q > Privileged
        BY <1>3 DEF Rtp!Opens
    <3>2. CASE p % 2 = 1
      <4>1. q = p - 1 /\ q % 2 = 0 /\ {p, q} = {q, q + 1}
        BY <2>2, <3>2 DEF Rtp!Neighbour
      <4> QED  BY <2>2, <3>1, <4>1
    <3>3. CASE p % 2 # 1
      <4>1. q = p + 1 /\ p % 2 = 0 /\ {p, q} = {p, p + 1}
        BY <2>2, <3>3 DEF Rtp!Neighbour
      <4> QED  BY <2>2, <3>1, <4>1
    <3> QED  BY <3>2, <3>3
  <2>4. \A i \in Rtp!Index : p \notin conn[i].ports /\ q \notin conn[i].ports
    BY <1>1, <1>3 DEF Sockets, Rtp!Opens, Rtp!Held
  <2> HIDE DEF p, q
  <2> DEFINE c == Rtp!NewConnection({p, q})
  <2>5. /\ c \in Connections /\ c.ports = {p, q} /\ c.enc = Rtp!NotUsed /\ c.dec = Rtp!NotUsed
    BY <2>2, <2>3, Nones DEF Rtp!NewConnection, Rtp!NoConn, Connections
  <2> HIDE DEF c
  <2>6. /\ conn' \in [Rtp!Index -> Connections] /\ conn'[at] = c
        /\ \A i \in Rtp!Index \ {at} : conn'[i] = conn[i]
    BY <2>1, <2>2, <2>5 DEF TypedMedia, c
  <2>7. TypedConfig' /\ TypedSearch' /\ TypedMedia' /\ Phase'
    BY <1>1, <2>1, <2>6, Nones
       DEF TypedConfig, TypedSearch, TypedMedia, Phase, Stages, Search, Rtp!config, Rtp!world,
           Rtp!sdp, Rtp!events
  <2>8. ASSUME NEW i \in Rtp!Index PROVE Begun(i)' /\ KeysOf(i)' /\ Uses(i)'
    <3>0. Begun(i) /\ KeysOf(i) /\ Uses(i)
        OBVIOUS
    <3>1. /\ Todo(i)' = Todo(i) /\ Bare(i)' = Todo(i) /\ Fresh(i)' = Bare(i)
               /\ Pending(i)' = Pending(i)
          /\ Todo(i) => i # at
        BY <1>1, <2>1, <2>2, Two DEF Todo, Bare, Fresh, Pending, Search
    <3>2. CASE i = at
      <4>1. Bare(i) /\ stream[i] = Rtp!NotUsed /\ port[i] = 0
        BY <1>1, <3>0, <3>2 DEF Bare, Search, Begun, Fresh
      <4>2. Begun(i)'
        BY <1>1, <2>5, <2>6, <3>0, <3>1, <3>2, <4>1 DEF Begun, Rtp!sdp, Rtp!events
      <4>3. KeysOf(i)' /\ Uses(i)'
        BY <1>1, <2>1, <2>5, <2>6, <3>0, <3>2, <4>1
           DEF KeysOf, Uses, Rtp!sdp, Rtp!events, Rtp!config
      <4> QED  BY <4>2, <4>3
    <3>3. CASE i # at
      <4>1. conn'[i] = conn[i]
        BY <2>6, <3>3
      <4>2. Begun(i)'
        BY <1>1, <3>0, <3>1, <4>1 DEF Begun, Fresh, Bare, Rtp!sdp, Rtp!events
      <4>3. KeysOf(i)' /\ Uses(i)'
        BY <1>1, <2>1, <3>0, <4>1 DEF KeysOf, Uses, Rtp!sdp, Rtp!events, Rtp!config
      <4> QED  BY <4>2, <4>3
    <3> QED  BY <3>2, <3>3
  <2>9. Sockets'
    <3>1. at' = at /\ port' = port /\ search'.first = {} /\ stage' = "found"
        BY <1>1, <2>1, Nones DEF Rtp!sdp
    <3>2. port[at] = 0
      <4>1. Bare(at)
        BY <1>1, <2>2 DEF Bare, Search
      <4> QED  BY <2>2, <4>1 DEF Begun, Fresh
    <3>3. ASSUME NEW i \in Rtp!Index
          PROVE  /\ conn'[i].ports # {} => \E e \in Nat \ {0} : e % 2 = 0
                      /\ conn'[i].ports = {e, e + 1}
                 /\ port[i] # 0 => port[i] \in conn'[i].ports
                 /\ i = at => conn'[i].ports # {}
      <4>1. CASE i = at
        BY <2>3, <2>5, <2>6, <3>2, <4>1
      <4>2. CASE i # at
        BY <2>6, <4>2 DEF Sockets
      <4> QED  BY <4>1, <4>2
    <3>4. ASSUME NEW i \in Rtp!Index, NEW j \in Rtp!Index \ {i}
          PROVE conn'[i].ports \intersect conn'[j].ports = {}
        BY <2>4, <2>5, <2>6 DEF Sockets
    <3> QED  BY <3>1, <3>3, <3>4 DEF Sockets
  <2>10. Word'
    BY <2>1 DEF Word, Rtp!Searching
  <2> QED  BY <2>7, <2>8, <2>9, <2>10
<1> QED  BY <1>2, <1>3

(* Others take and free ports. *)
LEMMA OthersMove ==
    ASSUME Rtp!ConstantsOK, KeysInv, NEW p \in 0 .. UdpPorts - 1, Rtp!OtherTakes(p)
         \/ Rtp!OtherFrees(p)
    PROVE  KeysInv'
<1> USE DEF KeysInv
<1>1. /\ Rtp!Searching /\ stage' = stage
      /\ UNCHANGED <<Rtp!config, master, role, at, keys, Rtp!sdp, conn, Rtp!events>>
    BY DEF Rtp!OtherTakes, Rtp!OtherFrees
<1>2. p \in Nat
    OBVIOUS
<1>3. /\ search' \in Searches /\ search'.first = search.first /\ search'.current = search.current
      /\ search'.start = search.start
  <2>1. CASE Rtp!OtherTakes(p)
    <3> DEFINE seen == search.seen \union Rtp!BusyPairs({p})
    <3>1. seen \in SUBSET Nat
        BY RangeOK DEF Rtp!BusyPairs, Rtp!Pairs, TypedConfig, TypedSearch, Searches
    <3>2. search' = [search EXCEPT !.seen = seen]
        BY <2>1 DEF Rtp!OtherTakes, TypedSearch, Searches
    <3> HIDE DEF seen
    <3> QED  BY <3>1, <3>2 DEF TypedSearch, Searches
  <2>2. CASE Rtp!OtherFrees(p)
    BY <2>2 DEF Rtp!OtherFrees, TypedSearch
  <2> QED  BY <2>1, <2>2
<1>4. TypedConfig'
  <2>1. taken' \subseteq Nat
    BY <1>2 DEF Rtp!OtherTakes, Rtp!OtherFrees, TypedConfig
  <2> QED  BY <1>1, <2>1 DEF TypedConfig, Rtp!config
<1>5. TypedMedia' /\ Phase' /\ \A i \in Rtp!Index : Begun(i)' /\ KeysOf(i)' /\ Uses(i)'
    BY <1>1, MediaStay DEF Search, Rtp!Searching
<1>6. Rtp!Lowest' = Rtp!Lowest /\ Rtp!Highest' = Rtp!Highest
           /\ \A q : Rtp!InRange(q)' = Rtp!InRange(q)
    BY <1>1 DEF Rtp!config, Rtp!Lowest, Rtp!Highest, Rtp!InRange
<1>7. Sockets' /\ Word'
  <2>1. Word'
    BY <1>1, <1>3, <1>6 DEF Word, Rtp!Searching
  <2>2. search.current = search'.current
             /\ Rtp!InRange(Rtp!Neighbour(search.current))'
                  = Rtp!InRange(Rtp!Neighbour(search.current))
    BY <1>3, <1>6
  <2>3. Sockets'
    BY <1>1, <1>3, <2>2 DEF Sockets, Rtp!sdp
  <2> QED  BY <2>1, <2>3
<1> QED  BY <1>3, <1>4, <1>5, <1>7 DEF TypedSearch
-----------------------------------------------------------------------------
(* The negotiation. *)

(* kms_srtp_connection_set_key, when the keys agree. *)
LEMMA RemoteKeySet ==
    ASSUME NEW c \in Connections, NEW k \in [local : SdpKeys, remote : SdpKeys]
    PROVE  /\ Rtp!SetRemoteKey(c, k) \in Connections
           /\ Rtp!SetRemoteKey(c, k).ports = c.ports /\ Rtp!SetRemoteKey(c, k).enc = c.enc
           /\ \/ Rtp!SetRemoteKey(c, k).dec = c.dec
              \/ /\ k.local # Rtp!NoKey /\ k.remote # Rtp!NoKey
                 /\ k.local.tag = k.remote.tag /\ k.local.suite = k.remote.suite
                 /\ Rtp!SetRemoteKey(c, k).dec = Rtp!Use(k.remote)
<1>1. \A x \in Used : /\ [c EXCEPT !.dec = x, !.updated = TRUE] \in Connections
                      /\ [c EXCEPT !.dec = x, !.updated = TRUE].ports = c.ports
                      /\ [c EXCEPT !.dec = x, !.updated = TRUE].enc = c.enc
                      /\ [c EXCEPT !.dec = x, !.updated = TRUE].dec = x
    BY DEF Connections
<1>2. Rtp!Use(k.remote) \in Used
    BY UseType
<1> QED  BY <1>1, <1>2 DEF Rtp!SetRemoteKey, Rtp!SetKey

LEMMA KeysConfigured ==
    ASSUME NEW c \in Connections, NEW k \in [local : SdpKeys, remote : SdpKeys],
           k.local # Rtp!NoKey
    PROVE  /\ Rtp!ConfigureKeys(c, k) \in Connections
           /\ Rtp!ConfigureKeys(c, k).ports = c.ports
                /\ Rtp!ConfigureKeys(c, k).enc = Rtp!Use(k.local)
           /\ \/ Rtp!ConfigureKeys(c, k).dec = c.dec
              \/ /\ k.remote # Rtp!NoKey
                 /\ k.local.tag = k.remote.tag /\ k.local.suite = k.remote.suite
                 /\ Rtp!ConfigureKeys(c, k).dec = Rtp!Use(k.remote)
<1> DEFINE d == [c EXCEPT !.enc = Rtp!Use(k.local)]
<1>1. Rtp!Use(k.local) \in Used
    BY UseType
<1>2. d \in Connections /\ d.ports = c.ports /\ d.enc = Rtp!Use(k.local) /\ d.dec = c.dec
    BY <1>1 DEF Connections
<1>3. Rtp!ConfigureKeys(c, k) = Rtp!SetRemoteKey(d, k)
    BY DEF Rtp!ConfigureKeys
<1> HIDE DEF d
<1> QED  BY <1>2, <1>3, RemoteKeySet

(* The next medium: what had not begun, has not. *)
LEMMA Advanced ==
    ASSUME KeysInv, stage \in {"found", "failed"}, role' = role, Rtp!NextMedium,
           NEW i \in Rtp!Index
    PROVE  /\ at' \in Rtp!Index /\ stage' \in {"keys", "offered", "transport"}
           /\ stage' = "offered" => role = "offerer"
           /\ stage' # "keys" => at' = 1
           /\ Todo(i)' <=> i > at
           /\ Bare(i)' <=> i > at
           /\ Fresh(i)' <=> i > at
           /\ Pending(i)' <=> Pending(i)
           /\ Todo(i) <=> i > at
<1>1. at \in {1, 2} /\ i \in {1, 2}
    BY Two DEF KeysInv, TypedConfig
<1>2. CASE at = 1
  <2>1. at' = 2 /\ stage' = "keys"
    BY <1>2, Two DEF Rtp!NextMedium
  <2> QED  BY <1>1, <1>2, <2>1, Two DEF Todo, Bare, Fresh, Pending, Search
<1>3. CASE at = 2
  <2>1. at' = 1 /\ stage' = IF role = "offerer" THEN "offered" ELSE "transport"
    BY <1>3, Two DEF Rtp!NextMedium
  <2> QED  BY <1>1, <1>3, <2>1, Two DEF Todo, Bare, Fresh, Pending, Search
<1> QED  BY <1>1, <1>2, <1>3

(* The keys of an SDP, as they are told apart. *)
LEMMA PeerKeysType ==
    ASSUME NEW i \in Rtp!Index, NEW offered \in Seq([tag : Nat, suite : Nat])
    PROVE  /\ Rtp!KeysOfPeer(i, offered) \in Seq(SdpKeys)
           /\ Rtp!KeysOfPeer(i, offered) = <<>> <=> offered = <<>>
<1>1. offered \in [1 .. Len(offered) -> [tag : Nat, suite : Nat]] /\ Len(offered) \in Nat
    BY LenProperties
<1>2. ASSUME NEW n \in 1 .. Len(offered)
      PROVE  Rtp!Key(<<"peer", i, n>>, offered[n].tag, offered[n].suite) \in SdpKeys
  <2>1. <<"peer", i, n>> \in {"peer"} \X Nat \X Nat
    BY Two
  <2>2. <<"peer", i, n>> \in Names
    BY <2>1 DEF Names
  <2>3. offered[n].tag \in Nat /\ offered[n].suite \in Nat
    BY <1>1
  <2> QED  BY <2>2, <2>3 DEF Rtp!Key, SdpKeys
<1>3. Rtp!KeysOfPeer(i, offered) =
        [n \in 1 .. Len(offered) |-> Rtp!Key(<<"peer", i, n>>, offered[n].tag, offered[n].suite)]
    BY <1>1 DEF Rtp!KeysOfPeer
<1>4. Rtp!KeysOfPeer(i, offered) \in [1 .. Len(offered) -> SdpKeys]
    BY <1>2, <1>3
<1>5. Rtp!KeysOfPeer(i, offered) \in Seq(SdpKeys)
  <2> DEFINE m == Len(offered)
             f == Rtp!KeysOfPeer(i, offered)
  <2>1. m \in Nat /\ f \in [1 .. m -> SdpKeys]
    BY <1>1, <1>4
  <2> HIDE DEF m, f
  <2>2. f \in UNION {[1 .. n -> SdpKeys] : n \in Nat}
    BY <2>1
  <2>3. f \in Seq(SdpKeys)
    BY <2>2, SeqDef
  <2> QED  BY <2>3 DEF f
<1>6. DOMAIN Rtp!KeysOfPeer(i, offered) = DOMAIN offered
    BY <1>1, <1>4
<1>7. \A S : \A q \in Seq(S) : q = <<>> <=> DOMAIN q = {}
  <2>1. ASSUME NEW S, NEW q \in Seq(S), q # <<>> PROVE 1 \in DOMAIN q
    BY <2>1, EmptySeq, LenProperties
  <2> QED  BY <2>1
<1> QED  BY <1>5, <1>6, <1>7

LEMMA Negotiates ==
    ASSUME Rtp!ConstantsOK, KeysInv, NEW r \in {"offerer", "answerer"}, NEW offered,
           r = "answerer" => offered \in [Rtp!Index -> Offers], Rtp!Negotiate(r, offered)
    PROVE  KeysInv'
<1> USE DEF KeysInv
<1>1. /\ stage = "idle" /\ stage' = "keys" /\ role' = r /\ at = 1
      /\ keys' = [i \in Rtp!Index |-> Rtp!NoKeys]
      /\ UNCHANGED <<Rtp!config, master, Rtp!world, at, search, announced, port, conn,
           Rtp!events>>
    BY DEF Rtp!Negotiate, Phase
<1>2. \A i \in Rtp!Index : Begun(i) /\ Todo(i) /\ KeysOf(i) /\ Uses(i)
    BY <1>1 DEF Todo
<1>3. peerKeys' \in [Rtp!Index -> Seq(SdpKeys)]
  <2>1. CASE peerKeys' = peerKeys
    BY <2>1 DEF TypedMedia
  <2>2. CASE r = "answerer" /\ peerKeys' = [i \in Rtp!Index |-> Rtp!KeysOfPeer(i, offered[i])]
    <3>1. ASSUME NEW i \in Rtp!Index PROVE Rtp!KeysOfPeer(i, offered[i]) \in Seq(SdpKeys)
      <4>1. offered[i] \in Seq([tag : Nat, suite : Nat])
        BY <2>2 DEF Rtp!ConstantsOK
      <4> QED  BY <4>1, PeerKeysType
    <3> QED  BY <2>2, <3>1
  <2> QED  BY <2>1, <2>2 DEF Rtp!Negotiate
<1>4. TypedConfig' /\ TypedMedia' /\ TypedSearch' /\ Phase'
    BY <1>1, <1>3, Nones
       DEF TypedConfig, TypedMedia, TypedSearch, Phase, Stages, Rtp!config, Rtp!world,
           Rtp!events
<1>5. ASSUME NEW i \in Rtp!Index PROVE Begun(i)' /\ KeysOf(i)' /\ Uses(i)'
  <2>1. /\ conn[i] = Rtp!NoConn /\ stream[i] = Rtp!NotUsed /\ port[i] = 0 /\ keys[i] = Rtp!NoKeys
        /\ announced[i] = Rtp!NoKey
    BY <1>2, Nones DEF Begun, Bare, Fresh, KeysOf
  <2>2. keys'[i] = Rtp!NoKeys /\ stage' = "keys"
    BY <1>1
  <2>3. Begun(i)'
    BY <1>1, <2>1, <2>2, Nones DEF Begun, Rtp!events
  <2>4. KeysOf(i)' /\ Uses(i)'
    BY <1>1, <2>1, <2>2, Nones DEF KeysOf, Uses, Rtp!events
  <2> QED  BY <2>3, <2>4
<1>6. Sockets' /\ Word'
    BY <1>1 DEF Sockets, Word, Rtp!Searching
<1> QED  BY <1>4, <1>5, <1>6

LEMMA KeysMade ==
    ASSUME Rtp!ConstantsOK, KeysInv, Rtp!OfferKeys \/ Rtp!AnswerKeys \/ Rtp!PlainMedia
    PROVE  KeysInv'
<1> USE DEF KeysInv
<1>1. /\ stage = "keys" /\ stage' = "ports" /\ at \in Rtp!Index
      /\ UNCHANGED <<Rtp!config, Rtp!world, role, at, search, port, peerKeys, conn, Rtp!events>>
    BY DEF Rtp!OfferKeys, Rtp!AnswerKeys, Rtp!PlainMedia, TypedConfig, Rtp!sdp
<1>2. master' \in Names
  <2>1. \A m \in Rtp!MasterKey : m \in Names
    BY DEF Rtp!MasterKey, Rtp!RandomKey, Rtp!NoMaster, Names, TypedConfig
  <2>2. master' \in Rtp!MasterKey \union {master}
    BY DEF Rtp!OfferKeys, Rtp!AnswerKeys, Rtp!PlainMedia
  <2> QED  BY <2>1, <2>2 DEF TypedConfig
<1>3. keys[at] = Rtp!NoKeys /\ announced[at] = Rtp!NoKey
    BY <1>1, Nones DEF Begun, Todo, KeysOf
<1>4. \/ UNCHANGED <<keys, announced>>
      \/ \E k \in [local : SdpKeys, remote : SdpKeys] :
           /\ keys' = [keys EXCEPT ![at] = k] /\ announced' = [announced EXCEPT ![at] = k.local]
           /\ k.local.key # <<>> /\ crypto # Rtp!NoSuite
           /\ role = "offerer" => k.remote = Rtp!NoKey
           /\ k.remote # Rtp!NoKey => peerKeys[at] # <<>> /\ k.remote = peerKeys[at][1]
  <2>1. \A t \in Nat : Rtp!Key(master', t, crypto) \in SdpKeys
             /\ Rtp!Key(master', t, crypto).key = master'
    BY <1>2 DEF Rtp!Key, SdpKeys, TypedConfig
  <2>2. CASE Rtp!OfferKeys /\ ~UNCHANGED <<keys, announced>>
    <3> DEFINE key == Rtp!Key(master', Rtp!DefaultTag, crypto)
               k == [local |-> key, remote |-> Rtp!NoKey]
    <3>1. key \in SdpKeys /\ key.key = master'
        BY <2>1 DEF Rtp!DefaultTag
    <3>2. /\ keys' = [keys EXCEPT ![at].local = key]
               /\ announced' = [announced EXCEPT ![at] = key]
          /\ master' # Rtp!NoMaster /\ crypto # Rtp!NoSuite
        BY <2>2 DEF Rtp!OfferKeys
    <3> HIDE DEF key
    <3>3. keys' = [keys EXCEPT ![at] = [@ EXCEPT !.local = key]]
        BY <3>2
    <3>4. [keys[at] EXCEPT !.local = key] = k
        BY <1>3, <3>1 DEF Rtp!NoKeys
    <3>5. k \in [local : SdpKeys, remote : SdpKeys] /\ k.local = key /\ k.remote = Rtp!NoKey
        BY <3>1, Nones
    <3>6. keys' = [keys EXCEPT ![at] = k]
        BY <3>3, <3>4
    <3> HIDE DEF k
    <3> QED  BY <3>1, <3>2, <3>5, <3>6 DEF Rtp!NoMaster
  <2>3. CASE Rtp!AnswerKeys /\ ~UNCHANGED <<keys, announced>>
    <3> DEFINE key == Rtp!Key(master', peerKeys[at][1].tag, crypto)
               k == [local |-> key, remote |-> peerKeys[at][1]]
    <3>1. /\ keys' = [keys EXCEPT ![at] = k] /\ announced' = [announced EXCEPT ![at] = key]
          /\ master' # Rtp!NoMaster /\ crypto # Rtp!NoSuite /\ role = "answerer"
               /\ peerKeys[at] # <<>>
        BY <2>3 DEF Rtp!AnswerKeys, Rtp!Supported
    <3>2. peerKeys[at][1] \in SdpKeys
        BY <1>1, <3>1 DEF TypedMedia
    <3>3. key \in SdpKeys /\ key.key = master'
      <4>1. peerKeys[at][1].tag \in Nat
        BY <3>2 DEF SdpKeys
      <4> QED  BY <2>1, <4>1
    <3>4. k \in [local : SdpKeys, remote : SdpKeys] /\ k.local = key /\ k.remote = peerKeys[at][1]
        BY <3>2, <3>3
    <3> HIDE DEF k, key
    <3> QED  BY <3>1, <3>3, <3>4 DEF Rtp!NoMaster
  <2>4. CASE Rtp!PlainMedia
    BY <2>4 DEF Rtp!PlainMedia, Rtp!sdp
  <2> QED  BY <2>2, <2>3, <2>4
<1>5. TypedConfig' /\ TypedSearch' /\ Phase'
    BY <1>1, <1>2 DEF TypedConfig, TypedSearch, Phase, Stages, Search, Rtp!config, Rtp!world
<1>6. TypedMedia'
  <2>1. keys' \in [Rtp!Index -> [local : SdpKeys, remote : SdpKeys]]
             /\ announced' \in [Rtp!Index -> SdpKeys]
    <3>1. CASE UNCHANGED <<keys, announced>>
        BY <3>1 DEF TypedMedia
    <3>2. ASSUME NEW k \in [local : SdpKeys, remote : SdpKeys],
                 keys' = [keys EXCEPT ![at] = k], announced' = [announced EXCEPT ![at] = k.local]
          PROVE  /\ keys' \in [Rtp!Index -> [local : SdpKeys, remote : SdpKeys]]
                 /\ announced' \in [Rtp!Index -> SdpKeys]
        BY <3>2 DEF TypedMedia
    <3> QED  BY <1>4, <3>1, <3>2
  <2> QED  BY <1>1, <2>1 DEF TypedMedia, Rtp!events
<1>7. ASSUME NEW i \in Rtp!Index PROVE Begun(i)' /\ KeysOf(i)' /\ Uses(i)'
  <2>0. Begun(i) /\ KeysOf(i) /\ Uses(i)
    OBVIOUS
  <2>1. /\ Todo(i)' => Todo(i) /\ i # at
        /\ Bare(i)' <=> Bare(i)
        /\ Fresh(i)' <=> Fresh(i)
        /\ Pending(i)' <=> Pending(i)
    BY <1>1, Two DEF Todo, Bare, Fresh, Pending, Search
  <2>2. Pending(i) <=> role = "offerer"
    BY <1>1 DEF Pending, Search
  <2>3. i # at => keys'[i] = keys[i] /\ announced'[i] = announced[i]
    BY <1>4 DEF TypedMedia
  <2>4. i = at => conn[i] = Rtp!NoConn /\ stream[i] = Rtp!NotUsed /\ port[i] = 0
    BY <1>1, <2>0 DEF Begun, Bare, Fresh, Todo
  <2>5. /\ announced'[i] = keys'[i].local
        /\ keys'[i].local # Rtp!NoKey => keys'[i].local.key # <<>>
        /\ crypto = Rtp!NoSuite => keys'[i] = Rtp!NoKeys
        /\ keys'[i].remote # Rtp!NoKey => peerKeys[i] # <<>> /\ keys'[i].remote = peerKeys[i][1]
        /\ role = "offerer" => keys'[i].remote = Rtp!NoKey
    <3>1. CASE UNCHANGED <<keys, announced>>
        BY <2>0, <2>2, <3>1 DEF KeysOf, Begun
    <3>2. CASE i # at
        BY <2>0, <2>2, <2>3, <3>2 DEF KeysOf, Begun
    <3>3. CASE i = at /\ ~UNCHANGED <<keys, announced>>
      <4>1. PICK k \in [local : SdpKeys, remote : SdpKeys] :
           /\ keys' = [keys EXCEPT ![at] = k] /\ announced' = [announced EXCEPT ![at] = k.local]
           /\ k.local.key # <<>> /\ crypto # Rtp!NoSuite
           /\ role = "offerer" => k.remote = Rtp!NoKey
           /\ k.remote # Rtp!NoKey => peerKeys[at] # <<>> /\ k.remote = peerKeys[at][1]
        BY <1>4, <3>3
      <4>2. keys'[i] = k /\ announced'[i] = k.local
        BY <3>3, <4>1 DEF TypedMedia
      <4> QED  BY <3>3, <4>1, <4>2
    <3> QED  BY <3>1, <3>2, <3>3
  <2>6. Begun(i)'
    BY <1>1, <2>0, <2>1, <2>2, <2>3, <2>5 DEF Begun, Rtp!events
  <2>7. KeysOf(i)'
    BY <1>1, <2>5 DEF KeysOf, Rtp!config
  <2>8. Uses(i)'
    <3>1. CASE i # at
        BY <1>1, <2>0, <2>3, <3>1 DEF Uses, Rtp!events
    <3>2. CASE i = at
        BY <1>1, <2>4, <3>2, Nones DEF Uses, Rtp!events
    <3> QED  BY <3>1, <3>2
  <2> QED  BY <2>6, <2>7, <2>8
<1>8. Sockets' /\ Word'
    BY <1>1 DEF Sockets, Word, Rtp!Searching
<1> QED  BY <1>5, <1>6, <1>7, <1>8
(* A key of the peer that connection c may decrypt with. *)
LEMMA FirstKey ==
    ASSUME NEW ks \in Seq(SdpKeys), ks # <<>>
    PROVE  1 \in DOMAIN ks /\ ks[1] \in SdpKeys
<1>1. 1 \in DOMAIN ks /\ 1 \in 1 .. Len(ks)
    BY EmptySeq, LenProperties
<1> QED  BY <1>1, ElementOfSeq

LEMMA Followed ==
    ASSUME NEW c \in Connections
    PROVE  /\ Rtp!FollowLimit(c) \in Connections
           /\ Rtp!FollowLimit(c).ports = c.ports
           /\ Rtp!FollowLimit(c).enc = c.enc /\ Rtp!FollowLimit(c).dec = c.dec
  BY DEF Rtp!FollowLimit, Connections

LEMMA Configures ==
    ASSUME Rtp!ConstantsOK, KeysInv, Rtp!ConfigureMedia
    PROVE  KeysInv'
<1> USE DEF KeysInv
<1> DEFINE c == conn[at]
           k == keys[at]
           h == Rtp!FollowLimit(c)
           d == IF crypto = Rtp!NoSuite THEN c ELSE Rtp!ConfigureKeys(h, k)
           p == CHOOSE x \in c.ports : x % 2 = 0
<1>1. /\ stage = "found" /\ at \in Rtp!Index /\ Rtp!NextMedium
      /\ port' = [port EXCEPT ![at] = p] /\ conn' = [conn EXCEPT ![at] = d]
      /\ UNCHANGED <<Rtp!config, master, Rtp!world, role, search, keys, announced, peerKeys,
           Rtp!events>>
  <2>1. stage = "found" /\ at \in Rtp!Index /\ Rtp!NextMedium
    BY DEF Rtp!ConfigureMedia, TypedConfig
  <2>2. UNCHANGED <<Rtp!config, master, Rtp!world, role, search, keys, announced, peerKeys,
             Rtp!events>>
    BY DEF Rtp!ConfigureMedia
  <2>3. port' = [port EXCEPT ![at] = p]
    BY DEF Rtp!ConfigureMedia
  <2>4. conn' = [conn EXCEPT ![at] = d]
    BY DEF Rtp!ConfigureMedia
  <2> QED  BY <2>1, <2>2, <2>3, <2>4
<1>2. c \in Connections /\ k \in [local : SdpKeys, remote : SdpKeys]
    BY <1>1 DEF TypedMedia
<1>3. /\ c.enc = Rtp!NotUsed /\ c.dec = Rtp!NotUsed /\ stream[at] = Rtp!NotUsed /\ port[at] = 0
      /\ Begun(at) /\ KeysOf(at) /\ Uses(at)
    BY <1>1 DEF Begun, Fresh
<1>4. p \in c.ports /\ p \in Nat \ {0}
  <2>1. PICK e \in Nat \ {0} : e % 2 = 0 /\ c.ports = {e, e + 1}
    BY <1>1 DEF Sockets
  <2>2. \E x \in c.ports : x % 2 = 0
    BY <2>1
  <2>3. p \in c.ports
    BY <2>2
  <2> HIDE DEF p
  <2> QED  BY <2>1, <2>3
<1>5. h \in Connections /\ h.ports = c.ports /\ h.enc = Rtp!NotUsed /\ h.dec = Rtp!NotUsed
    BY <1>2, <1>3, Followed
<1> HIDE DEF h, p
<1>6. /\ d \in Connections /\ d.ports = c.ports
      /\ k.local = Rtp!NoKey => d.enc = Rtp!NotUsed /\ d.dec = Rtp!NotUsed
      /\ k.local # Rtp!NoKey =>
           /\ d.enc = Rtp!Use(k.local)
           /\ \/ d.dec = Rtp!NotUsed
              \/ /\ k.remote # Rtp!NoKey
                 /\ k.local.tag = k.remote.tag /\ k.local.suite = k.remote.suite
                 /\ d.dec = Rtp!Use(k.remote)
  <2>1. CASE crypto = Rtp!NoSuite
    BY <1>2, <1>3, <2>1, Nones DEF KeysOf
  <2>2. CASE crypto # Rtp!NoSuite /\ k.local = Rtp!NoKey
    BY <1>5, <2>2 DEF Rtp!ConfigureKeys
  <2>3. CASE crypto # Rtp!NoSuite /\ k.local # Rtp!NoKey
    <3> HIDE DEF k, c
    <3> QED  BY <1>2, <1>5, <2>3, KeysConfigured
  <2> QED  BY <2>1, <2>2, <2>3
<1> HIDE DEF d
<1>7. /\ conn' \in [Rtp!Index -> Connections] /\ conn'[at] = d
      /\ \A i \in Rtp!Index \ {at} : conn'[i] = conn[i]
    BY <1>1, <1>6 DEF TypedMedia
<1>8. /\ port' \in [Rtp!Index -> Nat] /\ port'[at] = p
      /\ \A i \in Rtp!Index \ {at} : port'[i] = port[i]
    BY <1>1, <1>4 DEF TypedMedia
<1>9. /\ at' \in Rtp!Index /\ stage' \in {"keys", "offered", "transport"}
      /\ stage' = "offered" => role = "offerer"
      /\ stage' # "keys" => at' = 1
    BY <1>1, Advanced
<1>10. TypedConfig' /\ TypedMedia' /\ TypedSearch' /\ Phase'
    BY <1>1, <1>7, <1>8, <1>9
       DEF TypedConfig, TypedMedia, TypedSearch, Phase, Stages, Rtp!config, Rtp!world,
           Rtp!events
<1>11. ASSUME NEW i \in Rtp!Index PROVE Begun(i)' /\ KeysOf(i)' /\ Uses(i)'
  <2>1. /\ Todo(i)' <=> i > at
        /\ Bare(i)' <=> i > at
        /\ Fresh(i)' <=> i > at
        /\ Pending(i)' <=> Pending(i)
        /\ Todo(i) <=> i > at
    BY <1>1, Advanced
  <2>2. at \in Nat /\ i \in Nat
    BY Two DEF TypedConfig
  <2>3. Begun(i) /\ KeysOf(i) /\ Uses(i)
    OBVIOUS
  <2>4. KeysOf(i)'
    BY <1>1, <1>9, <2>3 DEF KeysOf, Rtp!config
  <2>5. CASE i # at
    <3>1. conn'[i] = conn[i] /\ port'[i] = port[i]
        BY <1>7, <1>8, <2>5
    <3>2. Begun(i)'
        BY <1>1, <2>1, <2>3, <3>1 DEF Begun, Bare, Fresh, Rtp!events
    <3>3. Uses(i)'
        BY <1>1, <2>3, <3>1 DEF Uses, Rtp!events
    <3> QED  BY <2>4, <3>2, <3>3
  <2>6. CASE i = at
    <3>1. conn'[i] = d /\ port'[i] = p /\ stream'[i] = Rtp!NotUsed /\ keys'[i] = k
               /\ announced'[i] = k.local
        BY <1>1, <1>3, <1>7, <1>8, <2>6 DEF KeysOf, Rtp!events
    <3>2. ~(i > at)
        BY <2>2, <2>6
    <3>3. Begun(i)'
        BY <1>3, <1>6, <2>1, <2>6, <3>1, <3>2 DEF Begun
    <3>4. k.local # Rtp!NoKey => Rtp!Use(k.local) # Rtp!NotUsed
        BY <1>2, <1>3, UseType, Nones DEF KeysOf
    <3>5. d.dec # Rtp!NotUsed =>
             /\ d.enc # Rtp!NotUsed /\ d.dec.suite = d.enc.suite
             /\ \E n \in DOMAIN peerKeys[i] : /\ d.dec = Rtp!Use(peerKeys[i][n])
                                              /\ peerKeys[i][n].tag = k.local.tag
      <4> SUFFICES ASSUME d.dec # Rtp!NotUsed
                   PROVE  /\ d.enc # Rtp!NotUsed /\ d.dec.suite = d.enc.suite
                          /\ \E n \in DOMAIN peerKeys[i] : /\ d.dec = Rtp!Use(peerKeys[i][n])
                                                           /\ peerKeys[i][n].tag = k.local.tag
        OBVIOUS
      <4>1. /\ k.local # Rtp!NoKey /\ k.remote # Rtp!NoKey /\ d.enc = Rtp!Use(k.local)
            /\ k.local.tag = k.remote.tag /\ k.local.suite = k.remote.suite
            /\ d.dec = Rtp!Use(k.remote)
        BY <1>6
      <4>2. peerKeys[i] # <<>> /\ k.remote = peerKeys[i][1] /\ peerKeys[i] \in Seq(SdpKeys)
        BY <1>3, <2>6, <4>1 DEF KeysOf, TypedMedia
      <4>3. d.dec.suite = k.remote.suite /\ d.enc.suite = k.local.suite
        BY <1>2, <4>1, UseType
      <4>4. 1 \in DOMAIN peerKeys[i]
        BY <4>2, FirstKey
      <4> QED  BY <3>4, <4>1, <4>2, <4>3, <4>4
    <3>6. Uses(i)'
      <4>1. peerKeys' = peerKeys
        BY <1>1
      <4> QED  BY <1>6, <3>1, <3>5, <4>1 DEF Uses
    <3> QED  BY <2>4, <3>3, <3>6
  <2> QED  BY <2>5, <2>6
<1>12. Sockets'
  <2>1. stage' # "found" /\ stage' # "second" /\ search'.first = {}
    BY <1>1, <1>9 DEF Sockets
  <2>2. \A i \in Rtp!Index : conn'[i].ports = conn[i].ports
    BY <1>6, <1>7
  <2>3. \A i \in Rtp!Index : port'[i] # 0 => port'[i] \in conn'[i].ports
    BY <1>4, <1>6, <1>7, <1>8 DEF Sockets
  <2> QED  BY <2>1, <2>2, <2>3 DEF Sockets
<1>13. Word'
    BY <1>9 DEF Word, Rtp!Searching
<1> QED  BY <1>10, <1>11, <1>12, <1>13

LEMMA Refuses ==
    ASSUME Rtp!ConstantsOK, KeysInv, Rtp!RefuseMedia
    PROVE  KeysInv'
<1> USE DEF KeysInv
<1>1. /\ stage = "failed" /\ Rtp!NextMedium /\ search' = Rtp!NoSearch
      /\ UNCHANGED <<Rtp!config, master, Rtp!world, role, keys, Rtp!sdp, conn, Rtp!events>>
    BY DEF Rtp!RefuseMedia
<1>2. /\ at' \in Rtp!Index /\ stage' \in {"keys", "offered", "transport"}
      /\ stage' = "offered" => role = "offerer"
      /\ stage' # "keys" => at' = 1
    BY <1>1, Advanced, Two
<1>3. TypedConfig' /\ TypedMedia' /\ TypedSearch' /\ Phase'
    BY <1>1, <1>2, Nones
       DEF TypedConfig, TypedMedia, TypedSearch, Phase, Stages, Rtp!config, Rtp!world, Rtp!sdp,
           Rtp!events
<1>4. ASSUME NEW i \in Rtp!Index PROVE Begun(i)' /\ KeysOf(i)' /\ Uses(i)'
  <2>1. /\ Todo(i)' <=> i > at
        /\ Bare(i)' <=> i > at
        /\ Fresh(i)' <=> i > at
        /\ Pending(i)' <=> Pending(i)
        /\ Todo(i) <=> i > at
    BY <1>1, Advanced
  <2>2. Begun(i) /\ KeysOf(i) /\ Uses(i)
    OBVIOUS
  <2>3. Begun(i)'
    BY <1>1, <2>1, <2>2 DEF Begun, Bare, Fresh, Rtp!sdp, Rtp!events
  <2>4. KeysOf(i)' /\ Uses(i)'
    BY <1>1, <1>2, <2>2 DEF KeysOf, Uses, Rtp!config, Rtp!sdp, Rtp!events
  <2> QED  BY <2>3, <2>4
<1>5. Sockets' /\ Word'
    BY <1>1, <1>2, Nones DEF Sockets, Word, Rtp!Searching, Rtp!sdp
<1> QED  BY <1>3, <1>4, <1>5

LEMMA Answers ==
    ASSUME Rtp!ConstantsOK, KeysInv, NEW answers \in [Rtp!Index -> {o \in Offers : Len(o) <= 1}],
           Rtp!ProcessAnswer(answers)
    PROVE  KeysInv'
<1> USE DEF KeysInv
<1>1. /\ stage = "offered" /\ stage' \in {"transport", "select"} /\ role = "offerer" /\ at = 1
      /\ \A i \in Rtp!Index : port[i] = 0 => answers[i] = <<>>
      /\ UNCHANGED <<Rtp!config, master, Rtp!world, role, at, search, keys, announced, port,
           conn, Rtp!events>>
    BY DEF Rtp!ProcessAnswer, Phase
<1>2. \A i \in Rtp!Index : /\ Rtp!KeysOfPeer(i, answers[i]) \in Seq(SdpKeys)
                           /\ Rtp!KeysOfPeer(i, answers[i]) = <<>> <=> answers[i] = <<>>
    BY PeerKeysType DEF Rtp!ConstantsOK
<1>3. /\ peerKeys' \in [Rtp!Index -> Seq(SdpKeys)]
      /\ stage' = "select" => \A i \in Rtp!Index : peerKeys'[i] # <<>> => port[i] # 0
      /\ stage' = "select" => crypto # Rtp!NoSuite
  <2>1. CASE stage' = "transport" /\ peerKeys' = peerKeys
    BY <2>1 DEF TypedMedia
  <2>2. CASE stage' = "select" /\ crypto # Rtp!NoSuite
             /\ peerKeys' = [i \in Rtp!Index |-> Rtp!KeysOfPeer(i, answers[i])]
    BY <1>1, <1>2, <2>2
  <2> QED  BY <2>1, <2>2 DEF Rtp!ProcessAnswer
<1>4. TypedConfig' /\ TypedMedia' /\ TypedSearch' /\ Phase'
    BY <1>1, <1>3
       DEF TypedConfig, TypedMedia, TypedSearch, Phase, Stages, Rtp!config, Rtp!world,
           Rtp!events
<1>5. ASSUME NEW i \in Rtp!Index PROVE Begun(i)' /\ KeysOf(i)' /\ Uses(i)'
  <2>1. /\ ~Todo(i)' /\ ~Bare(i)' /\ ~Fresh(i)' /\ Pending(i)
    BY <1>1 DEF Todo, Bare, Fresh, Pending, Search
  <2>2. Begun(i) /\ KeysOf(i) /\ Uses(i)
    OBVIOUS
  <2>3. keys[i].remote = Rtp!NoKey /\ conn[i].dec = Rtp!NotUsed /\ stream[i] = Rtp!NotUsed
    BY <2>1, <2>2 DEF Begun
  <2>4. Begun(i)'
    BY <1>1, <2>1, <2>3 DEF Begun, Rtp!events
  <2>5. KeysOf(i)'
    BY <1>1, <1>3, <2>2, <2>3 DEF KeysOf, Rtp!config
  <2>6. Uses(i)'
    BY <1>1, <2>2, <2>3 DEF Uses, Rtp!events
  <2> QED  BY <2>4, <2>5, <2>6
<1>6. Sockets' /\ Word'
    BY <1>1 DEF Sockets, Word, Rtp!Searching
<1> QED  BY <1>4, <1>5, <1>6

LEMMA Selects ==
    ASSUME Rtp!ConstantsOK, KeysInv, Rtp!SelectedKey
    PROVE  KeysInv'
<1> USE DEF KeysInv
<1> DEFINE k == [keys[at] EXCEPT !.remote = peerKeys[at][1]]
           d == Rtp!SetRemoteKey(conn[at], k)
<1>1. /\ stage = "select" /\ role = "offerer" /\ at \in Rtp!Index
      /\ UNCHANGED <<Rtp!config, master, Rtp!world, role, search, Rtp!sdp, Rtp!events>>
    BY DEF Rtp!SelectedKey, Phase, TypedConfig
<1>2. /\ at' \in Rtp!Index /\ stage' \in {"select", "transport"}
           /\ (stage' = "transport" => at' = 1)
      /\ \A i \in Rtp!Index : stage' = "select" /\ i >= at' => i >= at /\ i # at
  <2>1. at \in {1, 2}
    BY <1>1, Two
  <2>2. \/ at = 1 /\ at' = 2 /\ stage' = stage
        \/ at = 2 /\ at' = 1 /\ stage' = "transport"
    BY <2>1, Two DEF Rtp!SelectedKey
  <2> QED  BY <1>1, <2>2, Two
<1>3. Begun(at) /\ KeysOf(at) /\ Uses(at) /\ Pending(at)
    BY <1>1, Two DEF Pending
<1>4. CASE peerKeys[at] # <<>>
  <2>1. peerKeys[at][1] \in SdpKeys /\ 1 \in DOMAIN peerKeys[at]
    BY <1>1, <1>4, FirstKey DEF TypedMedia
  <2>2. /\ k \in [local : SdpKeys, remote : SdpKeys]
        /\ k.local = keys[at].local /\ k.remote = peerKeys[at][1]
    BY <1>1, <2>1 DEF TypedMedia
  <2>3. /\ keys' = [keys EXCEPT ![at] = k] /\ conn' = [conn EXCEPT ![at] = d]
    BY <1>4 DEF Rtp!SelectedKey
  <2> HIDE DEF k
  <2>4. /\ d \in Connections /\ d.ports = conn[at].ports /\ d.enc = conn[at].enc
        /\ \/ d.dec = conn[at].dec
           \/ /\ k.local # Rtp!NoKey /\ k.local.tag = k.remote.tag
                /\ k.local.suite = k.remote.suite
              /\ d.dec = Rtp!Use(k.remote)
    BY <1>1, <2>2, RemoteKeySet DEF TypedMedia
  <2> HIDE DEF d
  <2>5. /\ keys' \in [Rtp!Index -> [local : SdpKeys, remote : SdpKeys]] /\ keys'[at] = k
        /\ conn' \in [Rtp!Index -> Connections] /\ conn'[at] = d
        /\ \A i \in Rtp!Index \ {at} : keys'[i] = keys[i] /\ conn'[i] = conn[i]
    BY <1>1, <2>2, <2>3, <2>4 DEF TypedMedia
  <2>6. TypedConfig' /\ TypedMedia' /\ TypedSearch' /\ Phase'
    BY <1>1, <1>2, <2>5
       DEF TypedConfig, TypedMedia, TypedSearch, Phase, Stages, Rtp!config, Rtp!world, Rtp!sdp,
           Rtp!events
  <2>7. ASSUME NEW i \in Rtp!Index PROVE Begun(i)' /\ KeysOf(i)' /\ Uses(i)'
    <3>1. ~Todo(i)' /\ ~Bare(i)' /\ ~Fresh(i)' /\ (Pending(i)' => Pending(i) /\ i # at)
        BY <1>1, <1>2, Two DEF Todo, Bare, Fresh, Pending, Search
    <3>2. Begun(i) /\ KeysOf(i) /\ Uses(i)
        OBVIOUS
    <3>3. CASE i # at
      <4>1. keys'[i] = keys[i] /\ conn'[i] = conn[i]
        BY <2>5, <3>3
      <4>2. Begun(i)' /\ KeysOf(i)' /\ Uses(i)'
        BY <1>1, <1>2, <3>1, <3>2, <4>1 DEF Begun, KeysOf, Uses, Rtp!config, Rtp!sdp, Rtp!events
      <4> QED  BY <4>2
    <3>4. CASE i = at
      <4>1. /\ keys'[i] = k /\ conn'[i] = d /\ stream'[i] = Rtp!NotUsed
                 /\ conn[i].dec = Rtp!NotUsed
            /\ announced'[i] = k.local /\ peerKeys'[i] = peerKeys[i] /\ port'[i] = port[i]
        BY <1>1, <1>3, <2>2, <2>5, <3>4 DEF Begun, KeysOf, Rtp!sdp, Rtp!events
      <4>2. Begun(i)'
        BY <3>1, <3>4 DEF Begun
      <4>3. crypto # Rtp!NoSuite
        BY <1>1 DEF Phase
      <4>4. KeysOf(i)'
        BY <1>1, <1>3, <1>4, <2>2, <3>4, <4>1, <4>3 DEF KeysOf, Rtp!config
      <4>5. d.dec # Rtp!NotUsed =>
              /\ d.enc # Rtp!NotUsed /\ d.dec.suite = d.enc.suite
              /\ \E n \in DOMAIN peerKeys[i] : /\ d.dec = Rtp!Use(peerKeys[i][n])
                                               /\ peerKeys[i][n].tag = k.local.tag
        <5> SUFFICES ASSUME d.dec # Rtp!NotUsed
                     PROVE  /\ d.enc # Rtp!NotUsed /\ d.dec.suite = d.enc.suite
                            /\ \E n \in DOMAIN peerKeys[i] : /\ d.dec = Rtp!Use(peerKeys[i][n])
                                                             /\ peerKeys[i][n].tag = k.local.tag
            OBVIOUS
        <5>1. /\ k.local # Rtp!NoKey /\ k.local.tag = k.remote.tag
                   /\ k.local.suite = k.remote.suite
              /\ d.dec = Rtp!Use(k.remote)
            BY <2>4, <3>4, <4>1
        <5>2. conn[at].enc = Rtp!Use(k.local) /\ k.local.key # <<>>
            BY <1>1, <1>3, <1>4, <2>2, <5>1 DEF KeysOf, Uses
        <5>3. Rtp!Use(k.local).key = k.local.key /\ Rtp!Use(k.local).suite = k.local.suite
              /\ Rtp!Use(k.remote).suite = k.remote.suite
            BY <2>2, UseType
        <5> QED  BY <2>1, <2>2, <2>4, <3>4, <5>1, <5>2, <5>3, Nones
      <4>6. Uses(i)'
        BY <1>3, <2>2, <2>4, <3>4, <4>1, <4>5 DEF Uses
      <4> QED  BY <4>2, <4>4, <4>6
    <3> QED  BY <3>3, <3>4
  <2>8. Sockets' /\ Word'
    <3>1. \A i \in Rtp!Index : conn'[i].ports = conn[i].ports
        BY <2>4, <2>5
    <3>2. stage' # "found" /\ stage' # "second" /\ search'.first = {} /\ port' = port
        BY <1>1, <1>2 DEF Sockets, Rtp!sdp
    <3>3. Sockets'
        BY <3>1, <3>2 DEF Sockets
    <3>4. Word'
        BY <1>2 DEF Word, Rtp!Searching
    <3> QED  BY <3>3, <3>4
  <2> QED  BY <2>6, <2>7, <2>8
<1>5. CASE peerKeys[at] = <<>>
  <2>1. keys' = keys /\ conn' = conn
    BY <1>5 DEF Rtp!SelectedKey
  <2>2. TypedConfig' /\ TypedMedia' /\ TypedSearch' /\ Phase'
    BY <1>1, <1>2, <2>1
       DEF TypedConfig, TypedMedia, TypedSearch, Phase, Stages, Rtp!config, Rtp!world, Rtp!sdp,
           Rtp!events
  <2>3. ASSUME NEW i \in Rtp!Index PROVE Begun(i)' /\ KeysOf(i)' /\ Uses(i)'
    <3>1. ~Todo(i)' /\ ~Bare(i)' /\ ~Fresh(i)' /\ (Pending(i)' => Pending(i))
        BY <1>1, <1>2, Two DEF Todo, Bare, Fresh, Pending, Search
    <3> QED  BY <1>1, <1>2, <2>1, <3>1 DEF Begun, KeysOf, Uses, Rtp!config, Rtp!sdp, Rtp!events
  <2>4. Sockets' /\ Word'
    BY <1>1, <1>2, <2>1 DEF Sockets, Word, Rtp!Searching, Rtp!sdp
  <2> QED  BY <2>2, <2>3, <2>4
<1> QED  BY <1>4, <1>5
(* The connections learn where to send, their keys are asked for. *)
LEMMA ConnectionsUsed ==
    ASSUME Rtp!ConstantsOK, KeysInv, Rtp!StartTransport
         \/ \E i \in Rtp!Index : Rtp!RequestKey(i) \/ Rtp!SoftLimit(i)
    PROVE  KeysInv'
<1> USE DEF KeysInv
<1>1. /\ UNCHANGED <<Rtp!config, master, Rtp!world, role, at, search, keys, Rtp!sdp>>
      /\ stage' = stage \/ (stage = "transport" /\ stage' = "connected")
    BY DEF Rtp!StartTransport, Rtp!RequestKey, Rtp!SoftLimit
<1> DEFINE Kept ==
             /\ conn' \in [Rtp!Index -> Connections]
             /\ \A i \in Rtp!Index : /\ conn'[i].ports = conn[i].ports
                                          /\ conn'[i].enc = conn[i].enc
                                     /\ conn'[i].dec = conn[i].dec
                                     /\ conn[i] = Rtp!NoConn => conn'[i] = Rtp!NoConn
           Asked ==
             /\ stream' \in [Rtp!Index -> Used]
             /\ \A i \in Rtp!Index : \/ stream'[i] = stream[i]
                                     \/ stream'[i] = conn[i].dec /\ conn[i].dec # Rtp!NotUsed
<1>2. Kept
  <2>0. \A i \in Rtp!Index : conn[i] \in Connections
    BY DEF TypedMedia
  <2>1. CASE Rtp!StartTransport
    <3>1. ASSUME NEW i \in Rtp!Index
          PROVE  /\ Rtp!SetRemoteInfo(conn[i]) \in Connections
                 /\ Rtp!SetRemoteInfo(conn[i]).ports = conn[i].ports
                 /\ Rtp!SetRemoteInfo(conn[i]).enc = conn[i].enc
                 /\ Rtp!SetRemoteInfo(conn[i]).dec = conn[i].dec
                 /\ conn[i] = Rtp!NoConn => Rtp!SetRemoteInfo(conn[i]) = Rtp!NoConn
      <4>1. CASE conn[i].ports = {}
        BY <2>0, <4>1 DEF Rtp!SetRemoteInfo
      <4>2. CASE conn[i].ports # {}
        <5> DEFINE f == Rtp!FollowLimit(conn[i])
        <5>1. f \in Connections /\ f.ports = conn[i].ports /\ f.enc = conn[i].enc
                   /\ f.dec = conn[i].dec
            BY <2>0, Followed
        <5>2. Rtp!SetRemoteInfo(conn[i]) = [f EXCEPT !.remote = TRUE]
            BY <4>2 DEF Rtp!SetRemoteInfo
        <5> HIDE DEF f
        <5> QED  BY <4>2, <5>1, <5>2, Nones DEF Connections
      <4> QED  BY <4>1, <4>2
    <3>2. conn' = [i \in Rtp!Index |-> Rtp!SetRemoteInfo(conn[i])]
        BY <2>1 DEF Rtp!StartTransport
    <3> QED  BY <3>1, <3>2
  <2>2. ASSUME NEW i \in Rtp!Index, Rtp!RequestKey(i) PROVE Kept
    <3>1. conn' = [conn EXCEPT ![i].updated = FALSE] /\ conn[i].ports # {}
        BY <2>2 DEF Rtp!RequestKey
    <3>2. [conn[i] EXCEPT !.updated = FALSE] \in Connections
        BY <2>0 DEF Connections
    <3> QED  BY <2>0, <3>1, <3>2, Nones DEF Connections, TypedMedia
  <2>3. ASSUME NEW i \in Rtp!Index, Rtp!SoftLimit(i) PROVE Kept
    BY <2>3 DEF Rtp!SoftLimit, TypedMedia
  <2> QED  BY <2>1, <2>2, <2>3
<1>3. Asked
  <2>1. CASE UNCHANGED stream
    BY <2>1 DEF TypedMedia
  <2>2. ASSUME NEW i \in Rtp!Index, Rtp!RequestKey(i) PROVE Asked
    <3>1. stream' = [stream EXCEPT ![i] = conn[i].dec] /\ conn[i].dec # Rtp!NotUsed
        BY <2>2 DEF Rtp!RequestKey
    <3>2. conn[i].dec \in Used
        BY DEF TypedMedia, Connections
    <3> QED  BY <3>1, <3>2 DEF TypedMedia
  <2> QED  BY <2>1, <2>2 DEF Rtp!StartTransport, Rtp!SoftLimit, Rtp!events
<1>4. TypedConfig' /\ TypedMedia' /\ TypedSearch' /\ Phase'
    BY <1>1, <1>2, <1>3
       DEF TypedConfig, TypedMedia, TypedSearch, Phase, Stages, Rtp!config, Rtp!world, Rtp!sdp
<1>5. ASSUME NEW i \in Rtp!Index PROVE Begun(i)' /\ KeysOf(i)' /\ Uses(i)'
  <2>1. /\ Todo(i)' <=> Todo(i)
        /\ Bare(i)' <=> Bare(i)
        /\ Fresh(i)' <=> Fresh(i)
        /\ Pending(i)' => Pending(i)
    BY <1>1 DEF Todo, Bare, Fresh, Pending, Search
  <2>2. Begun(i) /\ KeysOf(i) /\ Uses(i)
    OBVIOUS
  <2>3. /\ keys'[i] = keys[i] /\ announced'[i] = announced[i] /\ port'[i] = port[i]
        /\ peerKeys'[i] = peerKeys[i]
    BY <1>1 DEF Rtp!sdp
  <2>4. Begun(i)'
    BY <1>2, <1>3, <2>1, <2>2, <2>3 DEF Begun
  <2>5. KeysOf(i)'
    BY <1>1, <2>2, <2>3 DEF KeysOf, Rtp!config
  <2>6. Uses(i)'
    BY <1>2, <1>3, <2>2, <2>3 DEF Uses
  <2> QED  BY <2>4, <2>5, <2>6
<1>6. Sockets' /\ Word'
  <2>1. Sockets'
    BY <1>1, <1>2 DEF Sockets, Rtp!InRange, Rtp!Lowest, Rtp!Highest, Rtp!config, Rtp!sdp
  <2>2. Word'
    BY <1>1 DEF Word, Rtp!Searching, Rtp!Lowest, Rtp!Highest, Rtp!config
  <2> QED  BY <2>1, <2>2
<1> QED  BY <1>4, <1>5, <1>6

LEMMA KeysStep == Rtp!ConstantsOK /\ KeysInv /\ [Rtp!Next]_(Rtp!vars) => KeysInv'
<1> SUFFICES ASSUME Rtp!ConstantsOK, KeysInv, [Rtp!Next]_(Rtp!vars) PROVE KeysInv'
    OBVIOUS
<1>1. CASE Rtp!Next
  <2>1. CASE Rtp!Negotiate("offerer", <<>>)
    BY <2>1, Negotiates
  <2>2. CASE \E offered \in [Rtp!Index -> Offers] : Rtp!Negotiate("answerer", offered)
    BY <2>2, Negotiates
  <2> QED  BY <1>1, <2>1, <2>2, SearchBegins, FirstOpens, SecondOpens, OthersMove, KeysMade,
              Configures, Refuses, Answers, Selects, ConnectionsUsed DEF Rtp!Next
<1>2. CASE UNCHANGED Rtp!vars
  <2> USE <1>2 DEF Rtp!vars, Rtp!config, Rtp!world, Rtp!sdp, Rtp!events, KeysInv
  <2>1. TypedConfig' /\ TypedMedia' /\ TypedSearch' /\ Phase'
    BY DEF TypedConfig, TypedMedia, TypedSearch, Phase
  <2>2. ASSUME NEW i \in Rtp!Index PROVE Begun(i)' /\ KeysOf(i)' /\ Uses(i)'
    BY DEF Begun, KeysOf, Uses, Todo, Bare, Fresh, Pending
  <2>3. Sockets' /\ Word'
    BY DEF Sockets, Word, Rtp!Searching, Rtp!InRange, Rtp!Lowest, Rtp!Highest
  <2> QED  BY <2>1, <2>2, <2>3
<1> QED  BY <1>1, <1>2

LEMMA KeysShow == Rtp!ConstantsOK /\ KeysInv => Rtp!KeysAgree
<1> SUFFICES ASSUME Rtp!ConstantsOK, KeysInv, NEW i \in Rtp!Index
             PROVE  /\ conn[i].enc # Rtp!NotUsed => announced[i] # Rtp!NoKey
                         /\ conn[i].enc = Rtp!Use(announced[i])
                    /\ conn[i].dec # Rtp!NotUsed =>
                          /\ conn[i].enc # Rtp!NotUsed /\ conn[i].dec.suite = conn[i].enc.suite
                          /\ \E n \in DOMAIN peerKeys[i] :
                                /\ conn[i].dec = Rtp!Use(peerKeys[i][n])
                                /\ peerKeys[i][n].tag = announced[i].tag
                    /\ stream[i] \in {Rtp!NotUsed, conn[i].dec}
                    /\ port[i] # 0 => port[i] \in conn[i].ports
                    /\ \A j \in Rtp!Index \ {i} : conn[i].ports \intersect conn[j].ports = {}
    BY DEF Rtp!KeysAgree
<1> QED  BY DEF KeysInv, KeysOf, Uses, Sockets
-----------------------------------------------------------------------------
(* What the search has seen. *)

Gone == taken \union UNION {conn[i].ports : i \in Rtp!Index}

(* All the pairs from the beginning of the search up.                       *)
Above == \A e \in Rtp!Pairs : search.start <= e + 1 => e \in search.seen

(* The first time the search goes up from where it began; it may come back  *)
(* through the end of the word, but then has seen everything from there up. *)
Scan ==
    IF search.wrapped
    THEN /\ Above /\ search.current % 2 = 0 /\ search.current >= Rtp!Lowest
         /\ search.current + 1 < search.start
         /\ \A e \in Rtp!Pairs : e < search.current => e \in search.seen
    ELSE \/ Above
         \/ /\ search.current >= search.start
            /\ \A e \in Rtp!Pairs : search.start <= e + 1 /\ e + 1 < search.current
                 => e \in search.seen

Scanned ==
    /\ Rtp!Searching => Rtp!BusyPairs(Gone) \subseteq search.seen
    /\ Rtp!Searching /\ Rtp!Lowest % 2 = 0 => Scan
    /\ Rtp!PairsExhausted

LEMMA PairsAre ==
    ASSUME Rtp!ConstantsOK, range \in Ranges, NEW e \in Rtp!Pairs
    PROVE  /\ e \in Nat \ {0} /\ e % 2 = 0 /\ e >= Rtp!Lowest /\ e + 1 <= Rtp!Highest
                /\ e > Privileged
           /\ Rtp!Lowest \in Nat \ {0} /\ Rtp!Highest \in Nat /\ Rtp!Highest < UdpPorts
                /\ UdpPorts \in Nat
<1>1. Rtp!Lowest \in Nat \ {0} /\ Rtp!Highest \in Nat /\ Rtp!Highest < UdpPorts
           /\ Rtp!Lowest > Privileged
      /\ UdpPorts \in Nat /\ Privileged \in Nat
    BY RangeOK DEF Rtp!ConstantsOK
<1>2. e \in Rtp!Lowest .. Rtp!Highest /\ e % 2 = 0 /\ e + 1 \in Rtp!Lowest .. Rtp!Highest
    BY DEF Rtp!Pairs, Rtp!InRange
<1> QED  BY <1>1, <1>2

(* The other port of a pair. *)
LEMMA OtherOne ==
    ASSUME Rtp!ConstantsOK, range \in Ranges, NEW e \in Rtp!Pairs, NEW p \in {e, e + 1}
    PROVE  {p, Rtp!Neighbour(p)} = {e, e + 1} /\ Rtp!InRange(Rtp!Neighbour(p)) /\ Rtp!InRange(p)
<1>1. e \in Nat /\ e % 2 = 0 /\ (e + 1) % 2 = 1
    BY PairsAre
<1>2. Rtp!InRange(e) /\ Rtp!InRange(e + 1)
    BY DEF Rtp!Pairs, Rtp!InRange
<1>3. CASE p = e
    BY <1>1, <1>2, <1>3 DEF Rtp!Neighbour
<1>4. CASE p = e + 1
    BY <1>1, <1>2, <1>4 DEF Rtp!Neighbour
<1> QED  BY <1>3, <1>4

(* A pair with a port that is not free has been seen. *)
LEMMA BusySeen ==
    ASSUME Scanned, Rtp!Searching, NEW e \in Rtp!Pairs, NEW p \in {e, e + 1}, p \in Gone
    PROVE  e \in search.seen
<1>1. e \in Rtp!BusyPairs(Gone)
    BY DEF Rtp!BusyPairs
<1> QED  BY <1>1 DEF Scanned

(* One step of the search, when the pair of p has been seen. *)
LEMMA ScanOn ==
    ASSUME Rtp!ConstantsOK, KeysInv, Scanned, Rtp!Searching, NEW p \in 0 .. UdpPorts - 1,
           Rtp!IncPort(p),
           p = search.current \/ search.current = 0,
           \A e \in Rtp!Pairs : p \in {e, e + 1} => e \in search.seen,
           UNCHANGED <<range, taken, conn>>
    PROVE  Scanned'
<1> DEFINE next == (p + 2) % UdpPorts
           wrapped == search.wrapped \/ next > Rtp!Highest
           current == IF next > Rtp!Highest THEN Rtp!Lowest ELSE next
<1>1. range \in Ranges /\ search.current \in 0 .. UdpPorts - 1
           /\ search.start \in Rtp!Lowest .. Rtp!Highest
    BY DEF KeysInv, TypedConfig, Word
<1>2. /\ search'.start = search.start /\ search'.seen = search.seen
      /\ search'.wrapped = wrapped /\ search'.current = current
      /\ stage' \in {"failed", "first"}
      /\ stage' = "failed" <=> (wrapped /\ current + 1 >= search.start)
    BY <1>1, Incremented DEF KeysInv
<1>3. next = IF p + 2 < UdpPorts THEN p + 2 ELSE p + 2 - UdpPorts
    BY Next2
<1> HIDE DEF next
<1>4. /\ Rtp!Lowest' = Rtp!Lowest /\ Rtp!Highest' = Rtp!Highest /\ Rtp!Pairs' = Rtp!Pairs
      /\ Rtp!BusyPairs(Gone)' = Rtp!BusyPairs(Gone)
    BY DEF Rtp!Lowest, Rtp!Highest, Rtp!Pairs, Rtp!InRange, Rtp!BusyPairs, Gone
<1>5. Rtp!BusyPairs(Gone)' \subseteq search'.seen
    BY <1>2, <1>4 DEF Scanned
<1>6. /\ Rtp!Lowest \in Nat \ {0} /\ Rtp!Highest \in Nat /\ Rtp!Highest < UdpPorts
           /\ UdpPorts \in Nat /\ UdpPorts > 1
      /\ search.start \in Nat /\ search.start >= Rtp!Lowest /\ search.start <= Rtp!Highest
           /\ p \in Nat /\ p < UdpPorts
    BY <1>1, RangeOK DEF Rtp!ConstantsOK
<1>7. next \in Nat /\ next < UdpPorts
    BY <1>3, <1>6
<1>8. CASE Rtp!Lowest % 2 # 0
    BY <1>4, <1>5, <1>8 DEF Scanned, Rtp!PairsExhausted
<1>9. ASSUME Rtp!Lowest % 2 = 0 PROVE Scanned'
  <2>1. Scan
    BY <1>9 DEF Scanned
  <2>2. search.wrapped => p = search.current
    BY <1>6, <2>1 DEF Scan
  <2>3. ~Above => p = search.current /\ ~search.wrapped
    BY <1>6, <2>1 DEF Scan
  (* The pairs below p, and that of p, are those below the port after it. *)
  <2>4. ASSUME NEW e \in Rtp!Pairs, e + 1 < p + 2, ~(e + 1 < p) PROVE e \in search.seen
    <3>1. e \in Nat /\ e % 2 = 0
        BY <1>1, PairsAre
    <3>2. p = e \/ p = e + 1
        BY <1>6, <2>4, <3>1
    <3> QED  BY <3>2
  <2>5. wrapped => Above
    <3>1. CASE search.wrapped
        BY <2>1, <3>1 DEF Scan
    <3>2. ASSUME ~search.wrapped, wrapped, ~Above PROVE FALSE
      <4>1. next > Rtp!Highest /\ p = search.current
        BY <2>3, <3>2
      <4>2. p + 2 < UdpPorts /\ p + 2 > Rtp!Highest
        BY <1>3, <1>6, <4>1
      <4>3. \A e \in Rtp!Pairs : search.start <= e + 1 /\ e + 1 < p => e \in search.seen
        BY <2>1, <3>2, <4>1 DEF Scan
      <4>4. ASSUME NEW e \in Rtp!Pairs, search.start <= e + 1 PROVE e \in search.seen
        <5>1. e \in Nat /\ e + 1 <= Rtp!Highest
            BY <1>1, PairsAre
        <5>2. e + 1 < p + 2
            BY <1>6, <4>2, <5>1
        <5>3. CASE e + 1 < p
            BY <4>3, <4>4, <5>3
        <5> QED  BY <2>4, <5>2, <5>3
      <4> QED  BY <3>2, <4>4 DEF Above
    <3> QED  BY <3>1, <3>2
  <2>6. wrapped => /\ current % 2 = 0 /\ current >= Rtp!Lowest /\ current \in Nat
                   /\ \A e \in Rtp!Pairs : e < current => e \in search.seen
    <3>1. CASE next > Rtp!Highest
      <4>1. current = Rtp!Lowest
        BY <3>1
      <4>2. \A e \in Rtp!Pairs : ~(e < Rtp!Lowest)
        BY <1>1, PairsAre
      <4> QED  BY <1>6, <1>9, <4>1, <4>2
    <3>2. ASSUME ~(next > Rtp!Highest), search.wrapped
          PROVE  /\ current % 2 = 0 /\ current >= Rtp!Lowest /\ current \in Nat
                 /\ \A e \in Rtp!Pairs : e < current => e \in search.seen
      <4>1. /\ p = search.current /\ p % 2 = 0 /\ p >= Rtp!Lowest /\ p + 1 < search.start
            /\ \A e \in Rtp!Pairs : e < p => e \in search.seen
        BY <2>1, <2>2, <3>2 DEF Scan
      <4>2. p + 2 < UdpPorts /\ next = p + 2 /\ current = p + 2
        BY <1>3, <1>6, <3>2, <4>1
      <4>3. current % 2 = 0 /\ current >= Rtp!Lowest /\ current \in Nat
        BY <1>6, <4>1, <4>2
      <4>4. ASSUME NEW e \in Rtp!Pairs, e < current PROVE e \in search.seen
        <5>1. e \in Nat /\ e % 2 = 0
            BY <1>1, PairsAre
        <5>2. e < p \/ p = e
            BY <1>6, <4>1, <4>2, <4>4, <5>1
        <5> QED  BY <4>1, <4>4, <5>2
      <4> QED  BY <4>3, <4>4
    <3> QED  BY <3>1, <3>2
  <2>7. ~wrapped => \/ Above
                    \/ /\ current >= search.start
                       /\ \A e \in Rtp!Pairs : search.start <= e + 1 /\ e + 1 < current
                            => e \in search.seen
    <3> SUFFICES ASSUME ~wrapped, ~Above
                 PROVE  /\ current >= search.start
                        /\ \A e \in Rtp!Pairs : search.start <= e + 1 /\ e + 1 < current
                             => e \in search.seen
        OBVIOUS
    <3>1. /\ p = search.current /\ p >= search.start /\ current = next
          /\ \A e \in Rtp!Pairs : search.start <= e + 1 /\ e + 1 < p => e \in search.seen
        BY <2>1, <2>3 DEF Scan
    <3>2. ASSUME NEW e \in Rtp!Pairs, search.start <= e + 1, e + 1 < p + 2 PROVE e \in search.seen
        BY <2>4, <3>1, <3>2
    <3>3. p + 2 < UdpPorts
      <4>1. ASSUME p + 2 >= UdpPorts, NEW e \in Rtp!Pairs, search.start <= e + 1
            PROVE e \in search.seen
        <5>1. e \in Nat /\ e + 1 <= Rtp!Highest
            BY <1>1, PairsAre
        <5>2. e + 1 < p + 2
            BY <1>6, <4>1, <5>1
        <5> QED  BY <3>2, <4>1, <5>2
      <4>2. ASSUME p + 2 >= UdpPorts PROVE FALSE
        BY <4>1, <4>2 DEF Above
      <4> QED  BY <1>6, <4>2
    <3>4. current = p + 2
        BY <1>3, <3>1, <3>3
    <3> QED  BY <1>6, <3>1, <3>2, <3>4
  <2> HIDE DEF wrapped, current
  <2>8. Above' = Above
    BY <1>2, <1>4 DEF Above
  <2>9. CASE stage' = "failed"
    <3>1. wrapped /\ current + 1 >= search.start
        BY <1>2, <2>9
    <3>2. ASSUME NEW e \in Rtp!Pairs PROVE e \in search.seen
      <4>1. e \in Nat
        BY <1>1, PairsAre
      <4>2. CASE e < current
        BY <2>6, <3>1, <4>2
      <4>3. CASE ~(e < current)
        <5>1. search.start <= e + 1
            BY <1>6, <2>6, <3>1, <4>1, <4>3
        <5> QED  BY <2>5, <3>1, <5>1 DEF Above
      <4> QED  BY <4>2, <4>3
    <3>3. Rtp!PairsExhausted'
        BY <1>2, <1>4, <3>2 DEF Rtp!PairsExhausted
    <3> QED  BY <2>9, <3>3 DEF Scanned, Rtp!Searching
  <2>10. CASE stage' # "failed"
    <3>1. ~(wrapped /\ current + 1 >= search.start)
        BY <1>2, <2>10
    <3>2. Scan'
      <4>1. CASE wrapped
        <5>1. current + 1 < search.start
            BY <1>6, <2>6, <3>1, <4>1
        <5> QED  BY <1>2, <1>4, <2>5, <2>6, <2>8, <4>1, <5>1 DEF Scan
      <4>2. CASE ~wrapped
        BY <1>2, <1>4, <2>7, <2>8, <4>2 DEF Scan
      <4> QED  BY <4>1, <4>2
    <3>3. Rtp!PairsExhausted'
        BY <2>10 DEF Rtp!PairsExhausted
    <3> QED  BY <1>5, <3>2, <3>3 DEF Scanned
  <2> QED  BY <2>9, <2>10
<1> QED  BY <1>8, <1>9
(* Steps that leave the search and the ports as they are. *)
LEMMA ScanStays ==
    ASSUME Scanned, UNCHANGED <<range, taken, search>>,
           stage' = stage \/ stage' \notin {"first", "second", "failed"},
           \A i \in Rtp!Index : conn'[i].ports = conn[i].ports
    PROVE  Scanned'
<1>1. /\ Rtp!Lowest' = Rtp!Lowest /\ Rtp!Highest' = Rtp!Highest /\ Rtp!Pairs' = Rtp!Pairs
      /\ Rtp!BusyPairs(Gone)' = Rtp!BusyPairs(Gone)
  <2>1. Gone' = Gone
    BY DEF Gone
  <2> QED  BY <2>1 DEF Rtp!Lowest, Rtp!Highest, Rtp!Pairs, Rtp!InRange, Rtp!BusyPairs
<1>2. CASE stage' = stage
    BY <1>1, <1>2 DEF Scanned, Rtp!Searching, Scan, Above, Rtp!PairsExhausted
<1>3. CASE stage' \notin {"first", "second", "failed"}
    BY <1>3 DEF Scanned, Rtp!Searching, Rtp!PairsExhausted
<1> QED  BY <1>2, <1>3

LEMMA ScanBegins ==
    ASSUME Rtp!ConstantsOK, KeysInv, Scanned, Rtp!SearchBegin
    PROVE  Scanned'
<1>1. /\ stage = "ports" /\ stage' = "first" /\ UNCHANGED <<range, taken, conn>>
    BY DEF Rtp!SearchBegin, Rtp!config, Rtp!world
<1>2. PICK p \in Rtp!Lowest .. Rtp!Highest :
        search' = [Rtp!NoSearch EXCEPT !.start = p, !.current = p,
             !.seen = Rtp!BusyPairs(Rtp!Held)]
    BY DEF Rtp!SearchBegin
<1>3. Rtp!Held = Gone
    BY <1>1 DEF Rtp!Held, Gone, KeysInv, Sockets
<1>4. /\ search'.start = p /\ search'.current = p /\ search'.seen = Rtp!BusyPairs(Gone)
      /\ search'.wrapped = FALSE
    BY <1>2, <1>3 DEF Rtp!NoSearch
<1>5. /\ Rtp!Pairs' = Rtp!Pairs /\ Rtp!BusyPairs(Gone)' = Rtp!BusyPairs(Gone)
           /\ range \in Ranges /\ p \in Nat
    BY <1>1, RangeOK
       DEF Rtp!Lowest, Rtp!Highest, Rtp!Pairs, Rtp!InRange, Rtp!BusyPairs, Gone, KeysInv,
           TypedConfig
<1>6. Scan'
  <2>1. ASSUME NEW e \in Rtp!Pairs, p <= e + 1, e + 1 < p PROVE FALSE
    <3>1. e \in Nat
        BY <1>5, PairsAre
    <3> QED  BY <1>5, <2>1, <3>1
  <2> QED  BY <1>4, <1>5, <2>1 DEF Scan
<1>7. Rtp!PairsExhausted'
    BY <1>1 DEF Rtp!PairsExhausted
<1>8. Rtp!BusyPairs(Gone)' \subseteq search'.seen
    BY <1>4, <1>5
<1> QED  BY <1>6, <1>7, <1>8 DEF Scanned

LEMMA ScanRefused ==
    ASSUME Rtp!ConstantsOK, KeysInv, Scanned, Rtp!SearchRefused
    PROVE  Scanned'
<1>1. stage' = "failed" /\ range' = range /\ Rtp!Lowest + 1 > Rtp!Highest /\ range \in Ranges
    BY DEF Rtp!SearchRefused, Rtp!config, KeysInv, TypedConfig
<1>2. Rtp!Pairs = {}
  <2>1. ASSUME NEW e \in Rtp!Pairs PROVE FALSE
    BY <1>1, PairsAre
  <2> QED  BY <2>1
<1>3. Rtp!Pairs' = {}
    BY <1>1, <1>2 DEF Rtp!Pairs, Rtp!InRange, Rtp!Lowest, Rtp!Highest
<1> QED  BY <1>1, <1>3 DEF Scanned, Rtp!Searching, Rtp!PairsExhausted

LEMMA ScanFirst ==
    ASSUME Rtp!ConstantsOK, KeysInv, Scanned, Rtp!OpenFirst
    PROVE  Scanned'
<1>1. /\ stage = "first" /\ Rtp!Searching /\ UNCHANGED <<range, taken, conn>>
      /\ search.first = {} /\ search.current \in 0 .. UdpPorts - 1 /\ range \in Ranges
    BY DEF Rtp!OpenFirst, Rtp!config, Rtp!world, Rtp!Searching, KeysInv, Sockets, Word,
           TypedConfig
<1> DEFINE possible == IF search.current = 0
                       THEN {p \in 0 .. UdpPorts - 1 : Rtp!Opens(p)}
                       ELSE {p \in {search.current} : Rtp!Opens(p)}
<1>2. \/ possible = {} /\ Rtp!IncPort(search.current)
      \/ \E p \in possible :
            IF Rtp!InRange(Rtp!Neighbour(p))
            THEN stage' = "second" /\ search' = [search EXCEPT !.first = {p}, !.current = p]
            ELSE Rtp!IncPort(p)
    BY DEF Rtp!OpenFirst
<1>3. \A p \in possible : /\ p \in 0 .. UdpPorts - 1
                          /\ p = search.current \/ search.current = 0
    BY <1>1
<1>4. search.current = 0 \/ (possible = {} => ~Rtp!Opens(search.current))
    OBVIOUS
<1> HIDE DEF possible
<1>5. ASSUME possible = {}, Rtp!IncPort(search.current) PROVE Scanned'
  <2>1. ASSUME NEW e \in Rtp!Pairs, search.current \in {e, e + 1} PROVE e \in search.seen
    <3>1. e \in Nat \ {0} /\ e > Privileged
        BY <1>1, PairsAre
    <3>2. search.current > Privileged /\ search.current # 0
        BY <2>1, <3>1 DEF Rtp!ConstantsOK
    <3>3. search.current \in Gone
        BY <1>1, <1>4, <1>5, <3>2 DEF Rtp!Opens, Rtp!Held, Gone
    <3> QED  BY <1>1, <2>1, <3>3, BusySeen
  <2> QED  BY <1>1, <1>5, <2>1, ScanOn
<1>6. ASSUME NEW p \in possible, ~Rtp!InRange(Rtp!Neighbour(p)), Rtp!IncPort(p) PROVE Scanned'
  <2>1. ASSUME NEW e \in Rtp!Pairs, p \in {e, e + 1} PROVE FALSE
    BY <1>1, <1>6, <2>1, OtherOne
  <2> QED  BY <1>1, <1>3, <1>6, <2>1, ScanOn
<1>7. ASSUME NEW p \in possible, stage' = "second",
             search' = [search EXCEPT !.first = {p}, !.current = p]
      PROVE  Scanned'
  <2>1. /\ search'.start = search.start /\ search'.seen = search.seen
        /\ search'.wrapped = search.wrapped /\ search'.current = p
    BY <1>7 DEF KeysInv, TypedSearch, Searches
  <2>2. /\ Rtp!Lowest' = Rtp!Lowest /\ Rtp!Highest' = Rtp!Highest /\ Rtp!Pairs' = Rtp!Pairs
        /\ Rtp!BusyPairs(Gone)' = Rtp!BusyPairs(Gone)
    BY <1>1 DEF Rtp!Lowest, Rtp!Highest, Rtp!Pairs, Rtp!InRange, Rtp!BusyPairs, Gone
  <2>3. Rtp!PairsExhausted'
    BY <1>7 DEF Rtp!PairsExhausted
  <2>4. ASSUME Rtp!Lowest % 2 = 0 PROVE Scan'
    <3>1. Scan
        BY <1>1, <2>4 DEF Scanned
    <3>2. Above' = Above
        BY <2>1, <2>2 DEF Above
    <3>3. CASE p = search.current
        BY <2>1, <2>2, <3>1, <3>2, <3>3 DEF Scan
    <3>4. CASE search.current = 0
      <4>1. /\ Rtp!Lowest \in Nat \ {0} /\ search.start \in Nat /\ search.start >= Rtp!Lowest
        BY <1>1, RangeOK DEF KeysInv, Word
      <4>2. ~search.wrapped /\ Above
        BY <3>1, <3>4, <4>1 DEF Scan
      <4> QED  BY <2>1, <3>2, <4>2 DEF Scan
    <3> QED  BY <1>3, <3>3, <3>4
  <2> QED  BY <1>1, <2>1, <2>2, <2>3, <2>4 DEF Scanned
<1> QED  BY <1>2, <1>5, <1>6, <1>7

LEMMA ScanSecond ==
    ASSUME Rtp!ConstantsOK, KeysInv, Scanned, Rtp!OpenSecond
    PROVE  Scanned'
<1>1. /\ stage = "second" /\ Rtp!Searching /\ UNCHANGED <<range, taken>>
      /\ search.first = {search.current} /\ Rtp!InRange(Rtp!Neighbour(search.current))
      /\ search.current \in 0 .. UdpPorts - 1 /\ range \in Ranges
    BY DEF Rtp!OpenSecond, Rtp!config, Rtp!world, Rtp!Searching, KeysInv, Sockets, Word,
           TypedConfig
<1>2. CASE Rtp!Opens(Rtp!Neighbour(search.current))
    BY <1>2 DEF Rtp!OpenSecond, Scanned, Rtp!Searching, Rtp!PairsExhausted
<1>3. ASSUME ~Rtp!Opens(Rtp!Neighbour(search.current)) PROVE Scanned'
  <2>1. Rtp!IncPort(search.current) /\ conn' = conn
    BY <1>3 DEF Rtp!OpenSecond
  <2>2. ASSUME NEW e \in Rtp!Pairs, search.current \in {e, e + 1} PROVE e \in search.seen
    <3> DEFINE q == Rtp!Neighbour(search.current)
    <3>1. {search.current, q} = {e, e + 1} /\ e \in Nat
        BY <1>1, <2>2, OtherOne, PairsAre
    <3>2. q \in {e, e + 1} /\ q # search.current
        BY <3>1
    <3>3. q > Privileged
        BY <1>1, <3>2, PairsAre DEF Rtp!ConstantsOK
    <3>4. q \in Gone
        BY <1>1, <1>3, <3>2, <3>3 DEF Rtp!Opens, Rtp!Held, Gone
    <3> HIDE DEF q
    <3> QED  BY <1>1, <3>2, <3>4, BusySeen
  <2> QED  BY <1>1, <2>1, <2>2, ScanOn
<1> QED  BY <1>2, <1>3

LEMMA ScanOthers ==
    ASSUME Rtp!ConstantsOK, KeysInv, Scanned, NEW p \in 0 .. UdpPorts - 1, Rtp!OtherTakes(p)
         \/ Rtp!OtherFrees(p)
    PROVE  Scanned'
<1>1. /\ Rtp!Searching /\ UNCHANGED <<range, stage, conn>>
    BY DEF Rtp!OtherTakes, Rtp!OtherFrees, Rtp!config
<1>2. /\ Rtp!Lowest' = Rtp!Lowest /\ Rtp!Highest' = Rtp!Highest /\ Rtp!Pairs' = Rtp!Pairs
    BY <1>1 DEF Rtp!Lowest, Rtp!Highest, Rtp!Pairs, Rtp!InRange
<1>3. /\ search'.start = search.start /\ search'.current = search.current
      /\ search'.wrapped = search.wrapped /\ search.seen \subseteq search'.seen
      /\ Rtp!BusyPairs(Gone)' \subseteq search'.seen
  <2>1. CASE Rtp!OtherTakes(p)
    <3>1. /\ search' = [search EXCEPT !.seen = search.seen \union Rtp!BusyPairs({p})]
          /\ taken' = taken \union {p}
        BY <2>1 DEF Rtp!OtherTakes
    <3>2. /\ search'.start = search.start /\ search'.current = search.current
          /\ search'.wrapped = search.wrapped
               /\ search'.seen = search.seen \union Rtp!BusyPairs({p})
        BY <3>1 DEF KeysInv, TypedSearch, Searches
    <3>3. Gone' = Gone \union {p}
        BY <1>1, <3>1 DEF Gone
    <3>4. Rtp!BusyPairs(Gone)' = Rtp!BusyPairs(Gone) \union Rtp!BusyPairs({p})
        BY <1>2, <3>3 DEF Rtp!BusyPairs
    <3>5. Rtp!BusyPairs(Gone) \subseteq search.seen
        BY <1>1 DEF Scanned
    <3> QED  BY <3>2, <3>4, <3>5
  <2>2. CASE Rtp!OtherFrees(p)
    <3>1. search' = search /\ Gone' \subseteq Gone
        BY <1>1, <2>2 DEF Rtp!OtherFrees, Gone
    <3>2. Rtp!BusyPairs(Gone)' \subseteq Rtp!BusyPairs(Gone)
        BY <1>2, <3>1 DEF Rtp!BusyPairs
    <3>3. Rtp!BusyPairs(Gone) \subseteq search.seen
        BY <1>1 DEF Scanned
    <3> QED  BY <3>1, <3>2, <3>3
  <2> QED  BY <2>1, <2>2
<1>4. Rtp!Lowest % 2 = 0 => Scan'
  <2>1. Above => Above'
    BY <1>2, <1>3 DEF Above
  <2> QED  BY <1>1, <1>2, <1>3, <2>1 DEF Scanned, Scan
<1>5. Rtp!PairsExhausted'
    BY <1>1 DEF Rtp!PairsExhausted, Rtp!Searching
<1> QED  BY <1>2, <1>3, <1>4, <1>5 DEF Scanned

LEMMA ScanStep == Rtp!ConstantsOK /\ KeysInv /\ Scanned /\ [Rtp!Next]_(Rtp!vars) => Scanned'
<1> SUFFICES ASSUME Rtp!ConstantsOK, KeysInv, Scanned, [Rtp!Next]_(Rtp!vars) PROVE Scanned'
    OBVIOUS
<1> USE DEF Rtp!config, Rtp!world, Rtp!sdp, Rtp!events
<1>1. CASE \/ \E r, offered : Rtp!Negotiate(r, offered)
           \/ \E answers \in [Rtp!Index -> {o \in Offers : Len(o) <= 1}] :
                 Rtp!ProcessAnswer(answers)
           \/ Rtp!OfferKeys \/ Rtp!AnswerKeys \/ Rtp!PlainMedia
    BY <1>1, ScanStays
       DEF Rtp!Negotiate, Rtp!ProcessAnswer, Rtp!OfferKeys, Rtp!AnswerKeys, Rtp!PlainMedia
<1>2. CASE Rtp!ConfigureMedia \/ Rtp!RefuseMedia \/ Rtp!SelectedKey
    BY <1>2
       DEF Rtp!ConfigureMedia, Rtp!RefuseMedia, Rtp!SelectedKey, Rtp!NextMedium, Scanned,
           Rtp!Searching, Rtp!PairsExhausted
<1>3. CASE Rtp!StartTransport
    BY <1>3 DEF Rtp!StartTransport, Scanned, Rtp!Searching, Rtp!PairsExhausted
<1>4. ASSUME NEW i \in Rtp!Index, Rtp!RequestKey(i) \/ Rtp!SoftLimit(i) PROVE Scanned'
  <2>1. UNCHANGED <<range, taken, search, stage>>
    BY <1>4 DEF Rtp!RequestKey, Rtp!SoftLimit
  <2>2. \A j \in Rtp!Index : conn'[j].ports = conn[j].ports
    <3>1. CASE conn' = conn
        BY <3>1
    <3>2. CASE conn' = [conn EXCEPT ![i].updated = FALSE]
        BY <3>2 DEF KeysInv, TypedMedia, Connections
    <3> QED  BY <1>4, <3>1, <3>2 DEF Rtp!RequestKey, Rtp!SoftLimit
  <2> QED  BY <2>1, <2>2, ScanStays
<1>5. CASE UNCHANGED Rtp!vars
    BY <1>5, ScanStays DEF Rtp!vars
<1> QED  BY <1>1, <1>2, <1>3, <1>4, <1>5, ScanBegins, ScanRefused, ScanFirst, ScanSecond,
            ScanOthers DEF Rtp!Next

LEMMA ScanInit == Rtp!Init => Scanned
  BY DEF Rtp!Init, Scanned, Rtp!Searching, Rtp!PairsExhausted

-----------------------------------------------------------------------------
(* What the connections are made of: pairs that the range touches, and at   *)
(* most two handlers of a soft limit, one of the configuration and one of   *)
(* the transport.                                                           *)
Paired(i) == conn[i].ports = {} \/ \E e \in Rtp!Touched : conn[i].ports = {e, e + 1}
Handled(i) ==
    /\ conn[i].handlers \in 0 .. 2
    /\ stage # "connected" => conn[i].handlers \in 0 .. 1
    /\ stage = "found" /\ i = at => conn[i].handlers = 0

RtpFits ==
    /\ crypto \in Suites \union {Rtp!NoSuite} /\ taken \subseteq 0 .. UdpPorts - 1
    /\ \A i \in Rtp!Index : Paired(i) /\ Handled(i) /\ port[i] \in {0} \union Rtp!Touched

(* The keys of a connection are set beside its handlers.                    *)
LEMMA HandlersStay ==
    ASSUME NEW c \in Connections, NEW k \in [local : SdpKeys, remote : SdpKeys]
    PROVE  /\ Rtp!SetRemoteKey(c, k).handlers = c.handlers
           /\ Rtp!ConfigureKeys(c, k).handlers = c.handlers
<1>1. \A d \in Connections : Rtp!SetRemoteKey(d, k).handlers = d.handlers
    BY DEF Connections, Rtp!SetRemoteKey, Rtp!SetKey
<1>2. CASE k.local = Rtp!NoKey
    BY <1>1, <1>2 DEF Rtp!ConfigureKeys
<1>3. CASE k.local # Rtp!NoKey
  <2> DEFINE d == [c EXCEPT !.enc = Rtp!Use(k.local)]
  <2>1. d \in Connections /\ d.handlers = c.handlers
    BY UseType DEF Connections
  <2>2. Rtp!ConfigureKeys(c, k) = Rtp!SetRemoteKey(d, k)
    BY <1>3 DEF Rtp!ConfigureKeys
  <2> HIDE DEF d
  <2> QED  BY <1>1, <2>1, <2>2
<1> QED  BY <1>1, <1>2, <1>3

LEMMA RangeStays ==
    ASSUME UNCHANGED Rtp!config
    PROVE  /\ Rtp!Lowest' = Rtp!Lowest /\ Rtp!Highest' = Rtp!Highest
           /\ Rtp!Touched' = Rtp!Touched
  BY DEF Rtp!config, Rtp!Lowest, Rtp!Highest, Rtp!InRange, Rtp!Touched

(* What no step of these touches stays. *)
LEMMA FitsStay ==
    ASSUME RtpFits, UNCHANGED <<Rtp!config, port>>, taken' \subseteq 0 .. UdpPorts - 1,
           \A i \in Rtp!Index : conn'[i].ports = conn[i].ports
                             /\ conn'[i].handlers = conn[i].handlers,
           stage = "connected" => stage' = "connected",
           stage' = "found" => stage = "found" /\ at' = at
    PROVE  RtpFits'
<1>1. Rtp!Touched' = Rtp!Touched
    BY RangeStays
<1>2. crypto' \in Suites \union {Rtp!NoSuite}
    BY DEF RtpFits, Rtp!config
<1>3. ASSUME NEW i \in Rtp!Index
      PROVE  Paired(i)' /\ Handled(i)' /\ port'[i] \in {0} \union Rtp!Touched'
  <2>1. Paired(i) /\ Handled(i) /\ port[i] \in {0} \union Rtp!Touched
    BY DEF RtpFits
  <2> QED  BY <1>1, <2>1 DEF Paired, Handled
<1> QED  BY <1>2, <1>3 DEF RtpFits

LEMMA FitsInit == Rtp!ConstantsOK /\ Rtp!Init => RtpFits
<1> SUFFICES ASSUME Rtp!ConstantsOK, Rtp!Init PROVE RtpFits
    OBVIOUS
<1>1. taken \subseteq 0 .. UdpPorts - 1
  <2>1. taken \subseteq Rtp!Lowest .. Rtp!Highest /\ range \in Ranges
    BY DEF Rtp!Init
  <2> QED  BY <2>1, RangeOK DEF Rtp!ConstantsOK
<1>2. \A i \in Rtp!Index : conn[i] = Rtp!NoConn /\ port[i] = 0 /\ stage = "idle"
    BY DEF Rtp!Init
<1>3. Rtp!NoConn.ports = {} /\ Rtp!NoConn.handlers = 0
    BY DEF Rtp!NoConn
<1>4. crypto \in Suites \union {Rtp!NoSuite}
    BY DEF Rtp!Init
<1> QED  BY <1>1, <1>2, <1>3, <1>4 DEF RtpFits, Paired, Handled

(* A connection is made of a pair, one port of which is in the range.       *)
LEMMA FitsSecond ==
    ASSUME Rtp!ConstantsOK, KeysInv, RtpFits, Rtp!OpenSecond
    PROVE  RtpFits'
<1> USE DEF KeysInv
<1>1. stage = "second" /\ UNCHANGED <<Rtp!config, Rtp!world, at, Rtp!sdp>>
    BY DEF Rtp!OpenSecond
<1>2. taken' \subseteq 0 .. UdpPorts - 1 /\ port' = port
    BY <1>1 DEF RtpFits, Rtp!world, Rtp!sdp
<1>3. CASE ~Rtp!Opens(Rtp!Neighbour(search.current))
  <2>1. conn' = conn /\ stage' \in {"first", "failed"}
    BY <1>3 DEF Rtp!OpenSecond, Rtp!IncPort
  <2> QED  BY <1>1, <1>2, <2>1, FitsStay
<1>4. CASE Rtp!Opens(Rtp!Neighbour(search.current))
  <2> DEFINE p == search.current
             q == Rtp!Neighbour(p)
  <2>1. conn' = [conn EXCEPT ![at] = Rtp!NewConnection({p, q})] /\ stage' = "found"
    BY <1>4 DEF Rtp!OpenSecond
  <2>2. p \in 0 .. UdpPorts - 1 /\ UdpPorts \in Nat /\ at \in Rtp!Index
    BY <1>1 DEF Word, Rtp!Searching, Rtp!ConstantsOK, TypedConfig
  <2>3. /\ Rtp!InRange(q) /\ Rtp!Lowest \in Nat \ {0} /\ Rtp!Highest \in Nat
        /\ Rtp!Highest < UdpPorts
    BY <1>1, RangeOK DEF Sockets, TypedConfig
  <2>4. \E e \in Rtp!Touched : {p, q} = {e, e + 1}
    <3>1. CASE p % 2 = 1
      <4>1. q = p - 1 /\ q % 2 = 0 /\ {p, q} = {q, q + 1}
        BY <2>2, <3>1 DEF Rtp!Neighbour
      <4>2. q \in Rtp!Touched
        BY <2>2, <2>3, <4>1 DEF Rtp!Touched, Rtp!InRange
      <4> QED  BY <4>1, <4>2
    <3>2. CASE p % 2 # 1
      <4>1. q = p + 1 /\ p % 2 = 0 /\ {p, q} = {p, p + 1}
        BY <2>2, <3>2 DEF Rtp!Neighbour
      <4>2. p \in Rtp!Touched
        BY <2>2, <2>3, <4>1 DEF Rtp!Touched
      <4> QED  BY <4>1, <4>2
    <3> QED  BY <3>1, <3>2
  <2> HIDE DEF p, q
  <2> DEFINE c == Rtp!NewConnection({p, q})
  <2>5. c.ports = {p, q} /\ c.handlers = 0
    BY DEF Rtp!NewConnection, Rtp!NoConn
  <2> HIDE DEF c
  <2>6. conn'[at] = c /\ \A i \in Rtp!Index \ {at} : conn'[i] = conn[i]
    BY <2>1, <2>2 DEF TypedMedia, c
  <2>7. Rtp!Touched' = Rtp!Touched /\ crypto' = crypto
    BY <1>1, RangeStays DEF Rtp!config
  <2>8. ASSUME NEW i \in Rtp!Index
        PROVE  Paired(i)' /\ Handled(i)' /\ port'[i] \in {0} \union Rtp!Touched'
    <3>1. Paired(i) /\ Handled(i) /\ port[i] \in {0} \union Rtp!Touched
        BY DEF RtpFits
    <3>2. CASE i = at
        BY <1>2, <2>4, <2>5, <2>6, <2>7, <3>1, <3>2 DEF Paired, Handled
    <3>3. CASE i # at
        BY <1>1, <1>2, <2>1, <2>6, <2>7, <3>1, <3>3 DEF Paired, Handled
    <3> QED  BY <3>2, <3>3
  <2> QED  BY <1>2, <2>7, <2>8 DEF RtpFits
<1> QED  BY <1>3, <1>4

(* The port in the SDP is the even one of the pair.                         *)
LEMMA FitsConfigure ==
    ASSUME Rtp!ConstantsOK, KeysInv, RtpFits, Rtp!ConfigureMedia
    PROVE  RtpFits'
<1> USE DEF KeysInv
<1> DEFINE c == conn[at]
           k == keys[at]
           h == Rtp!FollowLimit(c)
           d == IF crypto = Rtp!NoSuite THEN c ELSE Rtp!ConfigureKeys(h, k)
           p == CHOOSE x \in c.ports : x % 2 = 0
<1>1. /\ stage = "found" /\ at \in Rtp!Index /\ Rtp!NextMedium
      /\ UNCHANGED <<Rtp!config, Rtp!world, role>>
      /\ port' = [port EXCEPT ![at] = p] /\ conn' = [conn EXCEPT ![at] = d]
    BY DEF Rtp!ConfigureMedia, TypedConfig
<1>2. c \in Connections /\ k \in [local : SdpKeys, remote : SdpKeys]
    BY <1>1 DEF TypedMedia
<1>3. c.ports # {} /\ c.handlers = 0
    BY <1>1 DEF Sockets, RtpFits, Handled
<1>4. h \in Connections /\ h.ports = c.ports /\ h.handlers \in 0 .. 1
  <2>1. h \in Connections /\ h.ports = c.ports
    BY <1>2, Followed
  <2>2. h.handlers \in {0, 1}
    BY <1>2, <1>3 DEF Rtp!FollowLimit, Connections
  <2> QED  BY <2>1, <2>2
<1>5. p \in Rtp!Touched
  <2>1. PICK e \in Rtp!Touched : c.ports = {e, e + 1}
    BY <1>1, <1>3 DEF RtpFits, Paired
  <2>2. e \in Nat /\ e % 2 = 0 /\ (e + 1) % 2 = 1
    BY <2>1 DEF Rtp!Touched, Rtp!ConstantsOK
  <2>3. \E x \in c.ports : x % 2 = 0
    BY <2>1, <2>2
  <2>4. p \in c.ports /\ p % 2 = 0
    BY <2>3
  <2> HIDE DEF p
  <2> QED  BY <2>1, <2>2, <2>4
<1>6. d.ports = c.ports /\ d.handlers \in 0 .. 1
  <2>1. CASE crypto = Rtp!NoSuite
    BY <1>3, <2>1
  <2>2. CASE crypto # Rtp!NoSuite
    <3> HIDE DEF h, k, c
    <3>1. Rtp!ConfigureKeys(h, k).handlers = h.handlers
        BY <1>2, <1>4, HandlersStay
    <3>2. Rtp!ConfigureKeys(h, k).ports = h.ports
      <4>1. CASE k.local = Rtp!NoKey
        BY <4>1 DEF Rtp!ConfigureKeys
      <4>2. CASE k.local # Rtp!NoKey
        BY <1>2, <1>4, <4>2, KeysConfigured
      <4> QED  BY <4>1, <4>2
    <3> QED  BY <1>4, <2>2, <3>1, <3>2
  <2> QED  BY <2>1, <2>2
<1> HIDE DEF d, p, h
<1>7. /\ conn'[at] = d /\ port'[at] = p
      /\ \A i \in Rtp!Index \ {at} : conn'[i] = conn[i] /\ port'[i] = port[i]
    BY <1>1 DEF TypedMedia
<1>8. stage' \in {"keys", "offered", "transport"}
    BY <1>1, Advanced
<1>9. Rtp!Touched' = Rtp!Touched /\ crypto' = crypto /\ taken' = taken
    BY <1>1, RangeStays DEF Rtp!config, Rtp!world
<1>10. ASSUME NEW i \in Rtp!Index
       PROVE  Paired(i)' /\ Handled(i)' /\ port'[i] \in {0} \union Rtp!Touched'
  <2>1. Paired(i) /\ Handled(i) /\ port[i] \in {0} \union Rtp!Touched
    BY DEF RtpFits
  <2>2. CASE i = at
    BY <1>5, <1>6, <1>7, <1>8, <1>9, <2>1, <2>2 DEF Paired, Handled
  <2>3. CASE i # at
    BY <1>1, <1>7, <1>8, <1>9, <2>1, <2>3 DEF Paired, Handled
  <2> QED  BY <2>2, <2>3
<1> QED  BY <1>9, <1>10 DEF RtpFits

(* The transport follows the soft limit a second time.                      *)
LEMMA FitsTransport ==
    ASSUME Rtp!ConstantsOK, KeysInv, RtpFits, Rtp!StartTransport
    PROVE  RtpFits'
<1>1. /\ stage = "transport" /\ stage' = "connected"
      /\ UNCHANGED <<Rtp!config, Rtp!world, Rtp!sdp>>
      /\ conn' = [i \in Rtp!Index |-> Rtp!SetRemoteInfo(conn[i])]
    BY DEF Rtp!StartTransport
<1>2. Rtp!Touched' = Rtp!Touched /\ crypto' = crypto /\ taken' = taken /\ port' = port
    BY <1>1, RangeStays DEF Rtp!config, Rtp!world, Rtp!sdp
<1>3. ASSUME NEW i \in Rtp!Index
      PROVE  Paired(i)' /\ Handled(i)' /\ port'[i] \in {0} \union Rtp!Touched'
  <2>1. Paired(i) /\ Handled(i) /\ port[i] \in {0} \union Rtp!Touched
    BY DEF RtpFits
  <2>2. conn[i] \in Connections /\ conn'[i] = Rtp!SetRemoteInfo(conn[i])
    BY <1>1 DEF KeysInv, TypedMedia
  <2> DEFINE c == conn[i]
             f == Rtp!FollowLimit(c)
  <2> HIDE DEF c
  <2>3. f \in Connections /\ f.ports = c.ports /\ f.handlers \in {c.handlers, c.handlers + 1}
    <3>1. c \in Connections
        BY <2>2 DEF c
    <3>2. f.handlers \in {c.handlers, c.handlers + 1}
        BY <3>1 DEF Rtp!FollowLimit, Connections
    <3> QED  BY <3>1, <3>2, Followed
  <2> HIDE DEF f
  <2>4. \/ conn'[i] = c
        \/ conn'[i] = [f EXCEPT !.remote = TRUE]
    BY <2>2 DEF Rtp!SetRemoteInfo, c, f
  <2>5. /\ conn'[i].ports = c.ports
        /\ conn'[i].handlers \in {c.handlers, c.handlers + 1}
    BY <2>3, <2>4 DEF Connections
  <2>6. c.handlers \in 0 .. 1
    BY <1>1, <2>1 DEF Handled, c
  <2>7. conn'[i].handlers \in 0 .. 2
    BY <2>5, <2>6
  <2> QED  BY <1>1, <1>2, <2>1, <2>5, <2>7 DEF Paired, Handled, c
<1> QED  BY <1>2, <1>3 DEF RtpFits

(* The key of the answer goes to the connection as it is.                   *)
LEMMA FitsSelected ==
    ASSUME Rtp!ConstantsOK, KeysInv, RtpFits, Rtp!SelectedKey
    PROVE  RtpFits'
<1> DEFINE k == [keys[at] EXCEPT !.remote = peerKeys[at][1]]
           c == conn[at]
<1>1. /\ stage = "select" /\ at \in Rtp!Index /\ stage' \in {"select", "transport"}
      /\ UNCHANGED <<Rtp!config, Rtp!world, Rtp!sdp>>
    BY DEF Rtp!SelectedKey, KeysInv, TypedConfig
<1>2. \A i \in Rtp!Index : conn'[i].ports = conn[i].ports /\ conn'[i].handlers = conn[i].handlers
  <2>1. CASE peerKeys[at] = <<>>
    BY <2>1 DEF Rtp!SelectedKey
  <2>2. CASE peerKeys[at] # <<>>
    <3>1. peerKeys[at][1] \in SdpKeys
        BY <1>1, <2>2, FirstKey DEF KeysInv, TypedMedia
    <3>2. k \in [local : SdpKeys, remote : SdpKeys] /\ c \in Connections
        BY <1>1, <3>1 DEF KeysInv, TypedMedia
    <3>3. conn' = [conn EXCEPT ![at] = Rtp!SetRemoteKey(c, k)]
        BY <2>2 DEF Rtp!SelectedKey
    <3> HIDE DEF k, c
    <3>4. /\ Rtp!SetRemoteKey(c, k).ports = c.ports
          /\ Rtp!SetRemoteKey(c, k).handlers = c.handlers
        BY <3>2, RemoteKeySet, HandlersStay
    <3> QED  BY <1>1, <3>3, <3>4 DEF KeysInv, TypedMedia, c
  <2> QED  BY <2>1, <2>2
<1>3. taken' \subseteq 0 .. UdpPorts - 1 /\ port' = port
    BY <1>1 DEF RtpFits, Rtp!world, Rtp!sdp
<1> QED  BY <1>1, <1>2, <1>3, FitsStay

LEMMA FitsUsed ==
    ASSUME KeysInv, RtpFits, NEW i \in Rtp!Index, Rtp!RequestKey(i) \/ Rtp!SoftLimit(i)
    PROVE  RtpFits'
<1>1. UNCHANGED <<Rtp!config, Rtp!world, at, stage, Rtp!sdp>>
    BY DEF Rtp!RequestKey, Rtp!SoftLimit
<1>2. \A j \in Rtp!Index : conn'[j].ports = conn[j].ports /\ conn'[j].handlers = conn[j].handlers
  <2>1. CASE conn' = conn
    BY <2>1
  <2>2. CASE conn' = [conn EXCEPT ![i].updated = FALSE]
    BY <2>2 DEF KeysInv, TypedMedia, Connections
  <2> QED  BY <2>1, <2>2 DEF Rtp!RequestKey, Rtp!SoftLimit
<1>3. taken' \subseteq 0 .. UdpPorts - 1 /\ port' = port
    BY <1>1 DEF RtpFits, Rtp!world, Rtp!sdp
<1> QED  BY <1>1, <1>2, <1>3, FitsStay

LEMMA FitsOthers ==
    ASSUME RtpFits, NEW p \in 0 .. UdpPorts - 1, Rtp!OtherTakes(p) \/ Rtp!OtherFrees(p)
    PROVE  RtpFits'
<1>1. UNCHANGED <<Rtp!config, at, stage, Rtp!sdp, conn>>
    BY DEF Rtp!OtherTakes, Rtp!OtherFrees
<1>2. taken' \subseteq 0 .. UdpPorts - 1
    BY DEF Rtp!OtherTakes, Rtp!OtherFrees, RtpFits
<1> QED  BY <1>1, <1>2, FitsStay DEF Rtp!sdp

LEMMA FitsStep ==
    Rtp!ConstantsOK /\ KeysInv /\ RtpFits /\ [Rtp!Next]_(Rtp!vars) => RtpFits'
<1> SUFFICES ASSUME Rtp!ConstantsOK, KeysInv, RtpFits, [Rtp!Next]_(Rtp!vars) PROVE RtpFits'
    OBVIOUS
<1> DEFINE Same ==
             /\ UNCHANGED <<Rtp!config, Rtp!world, conn, port>>
             /\ stage = "connected" => stage' = "connected"
             /\ stage' = "found" => stage = "found" /\ at' = at
<1>1. ASSUME Same PROVE RtpFits'
  <2>1. taken' \subseteq 0 .. UdpPorts - 1
    BY <1>1 DEF RtpFits, Rtp!world
  <2> QED  BY <1>1, <2>1, FitsStay
<1>2. CASE \/ Rtp!SearchBegin \/ Rtp!SearchRefused \/ Rtp!OpenFirst
    BY <1>1, <1>2 DEF Rtp!SearchBegin, Rtp!SearchRefused, Rtp!OpenFirst, Rtp!IncPort, Rtp!sdp
<1>3. CASE \E r, offered : Rtp!Negotiate(r, offered)
    BY <1>1, <1>3 DEF Rtp!Negotiate
<1>4. CASE Rtp!OfferKeys \/ Rtp!AnswerKeys \/ Rtp!PlainMedia
    BY <1>1, <1>4 DEF Rtp!OfferKeys, Rtp!AnswerKeys, Rtp!PlainMedia, Rtp!sdp
<1>5. CASE Rtp!RefuseMedia
    BY <1>1, <1>5 DEF Rtp!RefuseMedia, Rtp!NextMedium, Rtp!sdp
<1>6. CASE \E answers \in [Rtp!Index -> {o \in Offers : Len(o) <= 1}] :
             Rtp!ProcessAnswer(answers)
    BY <1>1, <1>6 DEF Rtp!ProcessAnswer
<1>7. CASE UNCHANGED Rtp!vars
    BY <1>1, <1>7 DEF Rtp!vars, Rtp!sdp
<1> QED  BY <1>2, <1>3, <1>4, <1>5, <1>6, <1>7, FitsSecond, FitsConfigure, FitsTransport,
            FitsSelected, FitsUsed, FitsOthers DEF Rtp!Next

LEMMA RtpTypes == KeysInv /\ RtpFits => Rtp!TypeOK
  BY DEF KeysInv, TypedConfig, Stages, Search, RtpFits, Paired, Handled, Rtp!TypeOK

-----------------------------------------------------------------------------
(* The style composite mixer (StyleComposite): what the order of the ports and of the
   views gives, and what is drawn from it. *)

(* A strict order of a finite set, and the place of an element in it.       *)
Orders(R, T) ==
    /\ IsFiniteSet(T)
    /\ \A a \in T : <<a, a>> \notin R
    /\ \A a, b \in T : a # b => <<a, b>> \in R \/ <<b, a>> \in R
    /\ \A a, b, c \in T : <<a, b>> \in R /\ <<b, c>> \in R => <<a, c>> \in R

Ahead(a, T, R) == {b \in T : <<b, a>> \in R}
RankIn(a, T, R) == Cardinality(Ahead(a, T, R))

(* The elements of an ordered set have the places from 0 on, one each.      *)
LEMMA Ranks ==
    ASSUME NEW T, NEW R, Orders(R, T)
    PROVE  /\ Cardinality(T) \in Nat
           /\ \A a \in T : RankIn(a, T, R) \in 0 .. Cardinality(T) - 1
           /\ \A a, b \in T : <<a, b>> \in R => RankIn(a, T, R) < RankIn(b, T, R)
           /\ \A a, b \in T : RankIn(a, T, R) = RankIn(b, T, R) => a = b
           /\ \A n \in 0 .. Cardinality(T) - 1 : \E a \in T : RankIn(a, T, R) = n
<1> DEFINE N == Cardinality(T)
<1>1. IsFiniteSet(T) /\ N \in Nat
  BY FS_CardinalityType DEF Orders
<1>2. ASSUME NEW a \in T, NEW U \in SUBSET T, Ahead(a, T, R) \union {a} \subseteq U
      PROVE  /\ RankIn(a, T, R) \in Nat /\ Cardinality(U) \in Nat
             /\ RankIn(a, T, R) < Cardinality(U)
  <2> DEFINE A == Ahead(a, T, R)
  <2>1. A \in SUBSET T /\ a \notin A
    BY DEF Ahead, Orders
  <2>2. IsFiniteSet(A) /\ IsFiniteSet(U)
    BY <1>1, <2>1, FS_Subset
  <2> HIDE DEF A
  <2>3. Cardinality(A \union {a}) = Cardinality(A) + 1
    BY <2>1, <2>2, FS_AddElement
  <2>4. A \union {a} \in SUBSET U
    BY <1>2 DEF A
  <2>5. Cardinality(A \union {a}) <= Cardinality(U)
    BY <2>2, <2>4, FS_Subset
  <2>6. Cardinality(A) \in Nat /\ Cardinality(U) \in Nat
    BY <2>2, FS_CardinalityType
  <2>7. Cardinality(A) < Cardinality(U)
    BY <2>3, <2>5, <2>6
  <2> QED  BY <2>6, <2>7 DEF A, RankIn
<1>3. \A a \in T : RankIn(a, T, R) \in 0 .. N - 1
  <2> TAKE a \in T
  <2>1. Ahead(a, T, R) \union {a} \subseteq T
    BY DEF Ahead
  <2>2. T \in SUBSET T
    OBVIOUS
  <2>3. RankIn(a, T, R) \in Nat /\ RankIn(a, T, R) < N
    BY <1>2, <2>1, <2>2
  <2> HIDE DEF N
  <2> QED  BY <1>1, <2>3
<1>4. ASSUME NEW a \in T, NEW b \in T, <<a, b>> \in R
      PROVE  RankIn(a, T, R) < RankIn(b, T, R)
  <2>1. Ahead(a, T, R) \union {a} \subseteq Ahead(b, T, R)
    BY <1>4 DEF Ahead, Orders
  <2>2. Ahead(b, T, R) \in SUBSET T
    BY DEF Ahead
  <2> QED  BY <1>2, <2>1, <2>2 DEF RankIn
<1>5. \A a, b \in T : RankIn(a, T, R) = RankIn(b, T, R) => a = b
  <2> TAKE a, b \in T
  <2> SUFFICES ASSUME a # b PROVE RankIn(a, T, R) # RankIn(b, T, R)
    OBVIOUS
  <2>1. RankIn(a, T, R) \in Nat /\ RankIn(b, T, R) \in Nat
    BY <1>1, <1>3
  <2>2. CASE <<a, b>> \in R
    BY <1>4, <2>1, <2>2
  <2>3. CASE <<b, a>> \in R
    BY <1>4, <2>1, <2>3
  <2> QED  BY <2>2, <2>3 DEF Orders
<1>6. \A n \in 0 .. N - 1 : \E a \in T : RankIn(a, T, R) = n
  <2> DEFINE f == [a \in T |-> RankIn(a, T, R)]
             J == 0 .. N - 1
  <2>1. f \in [T -> J] /\ \A a, b \in T : f[a] = f[b] => a = b
    BY <1>3, <1>5
  <2>2. f \in Injection(T, J)
    BY <2>1 DEF Injection, IsInjective
  <2>3. IsFiniteSet(J) /\ Cardinality(J) = N
    <3> HIDE DEF N
    <3>1. 0 \in Int /\ N - 1 \in Int
      BY <1>1
    <3>2. IsFiniteSet(J) /\ Cardinality(J) = IF 0 > N - 1 THEN 0 ELSE N - 1 - 0 + 1
      BY <3>1, FS_Interval
    <3> QED  BY <1>1, <3>2
  <2> HIDE DEF f, J
  <2>4. f \in Surjection(T, J)
    BY <2>2, <2>3, FS_Injection
  <2>5. \A n \in J : \E a \in T : f[a] = n
    BY <2>4 DEF Surjection
  <2> QED  BY <2>5 DEF f, J
<1> QED  BY <1>1, <1>3, <1>4, <1>5, <1>6


(* The mixer counts with the operator of its own instance.                  *)
LEMMA SizeOf == \A S : Style!Cardinality(S) = Cardinality(S)
  BY DEF Style!Cardinality, Cardinality

BeforeIn(T, read) == {ab \in T \X T : Style!Before(ab[1], ab[2], read)}
AfterIn(T, read) == {ab \in T \X T : Style!Before(ab[2], ab[1], read)}
LessIn(V) == {ab \in V \X V : ab[1] < ab[2]}

(* The ports are finitely many numbers, and so are the views.               *)
LEMMA PortsAre ==
    /\ Style!Ports \subseteq Nat \ {0} /\ IsFiniteSet(Style!Ports)
    /\ Cardinality(Style!Ports) = MixerPorts
    /\ Style!Views \subseteq Nat \ {0} /\ IsFiniteSet(Style!Views)
    /\ Cardinality(Style!Views) = ViewCount
    /\ MixerPorts \in Nat /\ ViewCount \in Nat /\ ViewCount > 0
<1>1. MixerPorts \in Nat /\ ViewCount \in Nat /\ ViewCount > 0
  BY ConstantsAssumption DEF Style!ConstantsOK
<1>2. IsFiniteSet(Style!Ports)
           /\ Cardinality(Style!Ports) = IF 1 > MixerPorts THEN 0 ELSE MixerPorts - 1 + 1
  BY <1>1, FS_Interval DEF Style!Ports
<1>3. IsFiniteSet(Style!Views)
           /\ Cardinality(Style!Views) = IF 1 > ViewCount THEN 0 ELSE ViewCount - 1 + 1
  BY <1>1, FS_Interval DEF Style!Views
<1>4. Style!Ports \subseteq Nat \ {0} /\ Style!Views \subseteq Nat \ {0}
  BY <1>1 DEF Style!Ports, Style!Views
<1> QED  BY <1>1, <1>2, <1>3, <1>4

LEMMA PortsOrdered ==
    ASSUME NEW T \in SUBSET Style!Ports, NEW read \in [Style!Ports -> Nat]
    PROVE  /\ Orders(BeforeIn(T, read), T) /\ Orders(AfterIn(T, read), T)
           /\ \A p \in T : /\ RankIn(p, T, BeforeIn(T, read)) = Style!Earlier(p, T, read)
                           /\ RankIn(p, T, AfterIn(T, read)) = Style!Later(p, T, read)
<1>1. IsFiniteSet(T)
  BY PortsAre, FS_Subset
<1>2. \A p \in T : p \in Nat /\ read[p] \in Nat
  BY PortsAre
<1>3. /\ \A a \in T : ~Style!Before(a, a, read)
      /\ \A a, b \in T : a # b => Style!Before(a, b, read) \/ Style!Before(b, a, read)
  BY <1>2 DEF Style!Before
<1>4. \A a, b, c \in T : Style!Before(a, b, read) /\ Style!Before(b, c, read)
           => Style!Before(a, c, read)
  BY <1>2 DEF Style!Before
<1>5. \A a, b \in T : /\ <<a, b>> \in BeforeIn(T, read) <=> Style!Before(a, b, read)
                      /\ <<a, b>> \in AfterIn(T, read) <=> Style!Before(b, a, read)
  BY DEF BeforeIn, AfterIn
<1>6. Orders(BeforeIn(T, read), T) /\ Orders(AfterIn(T, read), T)
  BY <1>1, <1>3, <1>4, <1>5 DEF Orders
<1>7. ASSUME NEW p \in T
      PROVE  /\ Ahead(p, T, BeforeIn(T, read)) = {q \in T : Style!Before(q, p, read)}
             /\ Ahead(p, T, AfterIn(T, read)) = {q \in T : Style!Before(p, q, read)}
  BY <1>5 DEF Ahead
<1> QED  BY <1>6, <1>7, SizeOf, Zenon DEF RankIn, Style!Earlier, Style!Later

LEMMA ViewsOrdered ==
    ASSUME NEW V \in SUBSET Style!Views
    PROVE  /\ Orders(LessIn(V), V)
           /\ \A v \in V : RankIn(v, V, LessIn(V)) = Style!Below(v, V)
<1>1. IsFiniteSet(V)
  BY PortsAre, FS_Subset
<1>2. \A v \in V : v \in Nat
  BY PortsAre
<1>3. \A a, b \in V : <<a, b>> \in LessIn(V) <=> a < b
  BY DEF LessIn
<1>4. Orders(LessIn(V), V)
  BY <1>1, <1>2, <1>3 DEF Orders
<1>5. ASSUME NEW v \in V PROVE Ahead(v, V, LessIn(V)) = {w \in V : w < v}
  BY <1>3 DEF Ahead
<1> QED  BY <1>4, <1>5, SizeOf, Zenon DEF RankIn, Style!Below

(* The places of the ports of a set in the order of the drawing, from       *)
(* either end, and those of some views.                                     *)
LEMMA PortRanks ==
    ASSUME NEW T \in SUBSET Style!Ports, NEW read \in [Style!Ports -> Nat]
    PROVE  /\ Cardinality(T) \in Nat
           /\ \A p \in T : /\ Style!Earlier(p, T, read) \in 0 .. Cardinality(T) - 1
                           /\ Style!Later(p, T, read) \in 0 .. Cardinality(T) - 1
           /\ \A p, q \in T : Style!Before(p, q, read)
                => Style!Earlier(p, T, read) < Style!Earlier(q, T, read)
           /\ \A p, q \in T : Style!Later(p, T, read) = Style!Later(q, T, read) => p = q
           /\ \A n \in 0 .. Cardinality(T) - 1 :
                 \E p \in T : Style!Earlier(p, T, read) = n
           /\ \A n \in 0 .. Cardinality(T) - 1 :
                 \E p \in T : Style!Later(p, T, read) = n
<1> DEFINE B == BeforeIn(T, read)
           A == AfterIn(T, read)
<1>1. /\ Orders(B, T) /\ \A p \in T : RankIn(p, T, B) = Style!Earlier(p, T, read)
      /\ Orders(A, T) /\ \A p \in T : RankIn(p, T, A) = Style!Later(p, T, read)
      /\ \A p, q \in T : Style!Before(p, q, read) => <<p, q>> \in B
  BY PortsOrdered DEF BeforeIn
<1> HIDE DEF A, B
<1>2. /\ Cardinality(T) \in Nat
      /\ \A a \in T : RankIn(a, T, B) \in 0 .. Cardinality(T) - 1
      /\ \A a, b \in T : <<a, b>> \in B => RankIn(a, T, B) < RankIn(b, T, B)
      /\ \A n \in 0 .. Cardinality(T) - 1 : \E a \in T : RankIn(a, T, B) = n
  BY <1>1, Ranks
<1>3. /\ \A a \in T : RankIn(a, T, A) \in 0 .. Cardinality(T) - 1
      /\ \A a, b \in T : RankIn(a, T, A) = RankIn(b, T, A) => a = b
      /\ \A n \in 0 .. Cardinality(T) - 1 : \E a \in T : RankIn(a, T, A) = n
  BY <1>1, Ranks
<1>4. \A p \in T : /\ Style!Earlier(p, T, read) \in 0 .. Cardinality(T) - 1
                   /\ Style!Later(p, T, read) \in 0 .. Cardinality(T) - 1
  BY <1>1, <1>2, <1>3, Zenon
<1>5. \A p, q \in T : Style!Before(p, q, read)
           => Style!Earlier(p, T, read) < Style!Earlier(q, T, read)
  BY <1>1, <1>2, Zenon
<1>6. \A p, q \in T : Style!Later(p, T, read) = Style!Later(q, T, read) => p = q
  BY <1>1, <1>3, ZenonT(40)
<1>7. \A n \in 0 .. Cardinality(T) - 1 : \E p \in T : Style!Earlier(p, T, read) = n
  BY <1>1, <1>2, Zenon
<1>8. \A n \in 0 .. Cardinality(T) - 1 : \E p \in T : Style!Later(p, T, read) = n
  BY <1>1, <1>3, ZenonT(40)
<1> QED  BY <1>2, <1>4, <1>5, <1>6, <1>7, <1>8

LEMMA ViewRanks ==
    ASSUME NEW V \in SUBSET Style!Views
    PROVE  /\ Cardinality(V) \in Nat
           /\ \A v \in V : Style!Below(v, V) \in 0 .. Cardinality(V) - 1
           /\ \A v, w \in V : Style!Below(v, V) = Style!Below(w, V) => v = w
           /\ \A n \in 0 .. Cardinality(V) - 1 : \E v \in V : Style!Below(v, V) = n
<1> DEFINE R == LessIn(V)
<1>1. Orders(R, V) /\ \A v \in V : RankIn(v, V, R) = Style!Below(v, V)
  BY ViewsOrdered
<1> HIDE DEF R
<1>2. /\ Cardinality(V) \in Nat
      /\ \A a \in V : RankIn(a, V, R) \in 0 .. Cardinality(V) - 1
      /\ \A a, b \in V : RankIn(a, V, R) = RankIn(b, V, R) => a = b
      /\ \A n \in 0 .. Cardinality(V) - 1 : \E a \in V : RankIn(a, V, R) = n
  BY <1>1, Ranks
<1>3. \A v, w \in V : Style!Below(v, V) = Style!Below(w, V) => v = w
  BY <1>1, <1>2, Zenon
<1>4. \A v \in V : Style!Below(v, V) \in 0 .. Cardinality(V) - 1
  BY <1>1, <1>2, Zenon
<1>5. \A n \in 0 .. Cardinality(V) - 1 : \E v \in V : Style!Below(v, V) = n
  BY <1>1, <1>2, Zenon
<1> QED  BY <1>2, <1>3, <1>4, <1>5

-----------------------------------------------------------------------------

ViewLists == [Style!Views -> [id : Int, enable : BOOLEAN]]

(* What one drawing starts from.                                            *)
Drawing(S, vs, read) ==
    /\ S \in SUBSET Style!Ports /\ vs \in ViewLists /\ read \in [Style!Ports -> Nat]
    /\ bitrate \in [Style!Ports -> Nat]

(* The least view of some, and the first port of some.                      *)
LEMMA LeastView ==
    ASSUME NEW V \in SUBSET Style!Views, V # {}
    PROVE  \E v \in V : \A w \in V : v <= w
<1>1. IsFiniteSet(V)
  BY PortsAre, FS_Subset
<1>2. Cardinality(V) \in Nat /\ Cardinality(V) # 0
  BY <1>1, FS_CardinalityType, FS_EmptySet
<1>3. 0 \in 0 .. Cardinality(V) - 1
  BY <1>2
<1>4. PICK v \in V : Style!Below(v, V) = 0
  BY <1>3, ViewRanks
<1> DEFINE B == {w \in V : w < v}
<1>5. B \in SUBSET V /\ Cardinality(B) = 0
  BY <1>4, SizeOf DEF Style!Below
<1> HIDE DEF B
<1>6. B = {}
  BY <1>1, <1>5, FS_Subset, FS_EmptySet
<1>7. \A w \in V : ~(w < v)
  BY <1>6 DEF B
<1>8. \A w \in V : w \in Nat
  BY PortsAre
<1> QED  BY <1>7, <1>8

LEMMA FirstPort ==
    ASSUME NEW T \in SUBSET Style!Ports, NEW read \in [Style!Ports -> Nat], T # {}
    PROVE  \E p \in T : \A q \in T : ~Style!Before(q, p, read)
<1>1. IsFiniteSet(T)
  BY PortsAre, FS_Subset
<1>2. Cardinality(T) \in Nat /\ Cardinality(T) # 0
  BY <1>1, FS_CardinalityType, FS_EmptySet
<1>3. 0 \in 0 .. Cardinality(T) - 1
  BY <1>2
<1>4. PICK p \in T : Style!Earlier(p, T, read) = 0
  BY <1>3, PortRanks
<1> DEFINE B == {q \in T : Style!Before(q, p, read)}
<1>5. B \in SUBSET T /\ Cardinality(B) = 0
  BY <1>4, SizeOf DEF Style!Earlier
<1> HIDE DEF B
<1>6. B = {}
  BY <1>1, <1>5, FS_Subset, FS_EmptySet
<1>7. \A q \in T : ~Style!Before(q, p, read)
  BY <1>6 DEF B
<1> QED  BY <1>7

(* The view of a port is one that has its bitrate, if any has.              *)
LEMMA ViewOfIs ==
    ASSUME NEW vs \in ViewLists, NEW p \in Style!Ports
    PROVE  /\ Style!ViewOf(p, vs) \in Style!Views \union {Style!None}
           /\ Style!None \notin Style!Views
           /\ Style!ViewOf(p, vs) # Style!None => vs[Style!ViewOf(p, vs)].id = bitrate[p]
<1> DEFINE found == {v \in Style!Views : vs[v].id = bitrate[p]}
           v0 == CHOOSE v \in found : \A w \in found : v <= w
<1>1. Style!None \notin Style!Views
  BY PortsAre DEF Style!None
<1>2. Style!ViewOf(p, vs) = IF found = {} THEN Style!None ELSE v0
  BY Zenon DEF Style!ViewOf
<1>3. ASSUME found # {} PROVE v0 \in found
  <2>1. found \in SUBSET Style!Views
    OBVIOUS
  <2> HIDE DEF found
  <2>2. \E v \in found : \A w \in found : v <= w
    BY <1>3, <2>1, LeastView
  <2> QED  BY <2>2
<1>4. ASSUME found # {} PROVE v0 \in Style!Views /\ vs[v0].id = bitrate[p]
  BY <1>3, <1>4
<1> HIDE DEF v0, found
<1> QED  BY <1>1, <1>2, <1>4

(* A view is filled by at most one port, and a port fills at most one.      *)
LEMMA FillsOne ==
    ASSUME NEW S, NEW vs, NEW read, Drawing(S, vs, read),
           NEW p, NEW q, NEW v \in Style!Views, NEW w \in Style!Views,
           Style!Fills(p, v, S, vs, read), Style!Fills(q, w, S, vs, read)
    PROVE  p \in S /\ (p = q <=> v = w)
<1> DEFINE M == Style!Mapped(S, vs, read)
           U == Style!Unmapped(S, vs, read)
           E == Style!Empty(S, vs, read)
<1>1. M \in SUBSET S /\ U \in SUBSET S /\ M \cap U = {}
  BY DEF Style!Mapped, Style!Unmapped, Style!Reached
<1>2. S \in SUBSET Style!Ports /\ U \in SUBSET Style!Ports /\ E \in SUBSET Style!Views
           /\ read \in [Style!Ports -> Nat]
  BY <1>1 DEF Drawing, Style!Empty
<1>3. \A x \in M : Style!ViewOf(x, vs) \notin E
  BY DEF Style!Empty
<1>4. ASSUME NEW x \in M, NEW y \in M, Style!ViewOf(x, vs) = Style!ViewOf(y, vs) PROVE x = y
  <2>1. x \in S /\ y \in S /\ ~Style!Before(x, y, read) /\ ~Style!Before(y, x, read)
    BY <1>4, Zenon DEF Style!Mapped, Style!Taken
  <2>2. x \in Nat /\ y \in Nat /\ read[x] \in Nat /\ read[y] \in Nat
    BY <1>2, <2>1, PortsAre
  <2> QED  BY <2>1, <2>2 DEF Style!Before
<1>5. /\ \A x, y \in U : Style!Later(x, U, read) = Style!Later(y, U, read) => x = y
      /\ \A x, y \in E : Style!Below(x, E) = Style!Below(y, E) => x = y
  BY <1>2, PortRanks, ViewRanks
<1>6. /\ \/ p \in M /\ Style!ViewOf(p, vs) = v
         \/ p \in U /\ v \in E /\ Style!Later(p, U, read) = Style!Below(v, E)
      /\ \/ q \in M /\ Style!ViewOf(q, vs) = w
         \/ q \in U /\ w \in E /\ Style!Later(q, U, read) = Style!Below(w, E)
  BY DEF Style!Fills
<1> HIDE DEF M, U, E
<1>7. p \in S
  BY <1>1, <1>6
<1>8. p = q => v = w
  BY <1>1, <1>5, <1>6
<1>9. v = w => p = q
  BY <1>3, <1>4, <1>5, <1>6
<1> QED  BY <1>7, <1>8, <1>9

(* What the views show.                                                     *)
LEMMA SlotsAre ==
    ASSUME NEW S, NEW vs, NEW read, Drawing(S, vs, read)
    PROVE  LET slots == Style!Slots(S, vs, read) IN
           /\ slots \in [Style!Views -> S \union {Style!None}] /\ Style!None \notin S
           /\ \A v \in Style!Views, p \in S : slots[v] = p <=> Style!Fills(p, v, S, vs, read)
           /\ \A v, w \in Style!Filled(slots) : slots[v] = slots[w] => v = w
<1> DEFINE slots == Style!Slots(S, vs, read)
<1>1. Style!None \notin S
  BY PortsAre DEF Drawing, Style!None
<1>2. ASSUME NEW v \in Style!Views
      PROVE  /\ slots[v] \in S \union {Style!None}
             /\ \A p \in S : slots[v] = p <=> Style!Fills(p, v, S, vs, read)
  <2>1. slots[v] = IF \E p \in S : Style!Fills(p, v, S, vs, read)
                   THEN CHOOSE p \in S : Style!Fills(p, v, S, vs, read)
                   ELSE Style!None
    BY DEF Style!Slots
  <2>2. CASE \E p \in S : Style!Fills(p, v, S, vs, read)
    <3>1. slots[v] \in S /\ Style!Fills(slots[v], v, S, vs, read)
      BY <2>1, <2>2
    <3> QED  BY <3>1, FillsOne
  <2>3. CASE ~\E p \in S : Style!Fills(p, v, S, vs, read)
    <3>1. slots[v] = Style!None
      BY <2>1, <2>3
    <3> QED  BY <1>1, <2>3, <3>1
  <2> QED  BY <2>2, <2>3
<1>3. slots = [v \in Style!Views |-> slots[v]]
  BY DEF Style!Slots
<1> HIDE DEF slots
<1>4. slots \in [Style!Views -> S \union {Style!None}]
  BY <1>2, <1>3
<1>5. ASSUME NEW v \in Style!Filled(slots), NEW w \in Style!Filled(slots), slots[v] = slots[w]
      PROVE  v = w
  <2>1. v \in Style!Views /\ w \in Style!Views /\ slots[v] # Style!None
    BY DEF Style!Filled
  <2>2. slots[v] \in S
    BY <1>2, <2>1
  <2>3. Style!Fills(slots[v], v, S, vs, read) /\ Style!Fills(slots[v], w, S, vs, read)
    BY <1>2, <1>5, <2>1, <2>2
  <2> QED  BY <2>1, <2>3, FillsOne
<1> QED  BY <1>1, <1>2, <1>4, <1>5 DEF slots

(* An enabled view that ports ask for shows the first of them; who asks for *)
(* a hidden view is not shown.                                              *)
LEMMA OwnView ==
    ASSUME NEW S, NEW vs, NEW read, Drawing(S, vs, read),
           NEW p \in S, Style!ViewOf(p, vs) # Style!None
    PROVE  LET slots == Style!Slots(S, vs, read)
               v == Style!ViewOf(p, vs) IN
           /\ v \in Style!Views
           /\ vs[v].enable => \E q \in S : Style!ViewOf(q, vs) = v /\ slots[v] = q
           /\ ~vs[v].enable => \A w \in Style!Views : slots[w] # p
<1> DEFINE slots == Style!Slots(S, vs, read)
           v == Style!ViewOf(p, vs)
           M == Style!Mapped(S, vs, read)
<1>1. S \in SUBSET Style!Ports /\ vs \in ViewLists /\ read \in [Style!Ports -> Nat]
  BY DEF Drawing
<1>2. v \in Style!Views
  BY <1>1, ViewOfIs
<1>3. /\ \A w \in Style!Views, q \in S : slots[w] = q <=> Style!Fills(q, w, S, vs, read)
  BY SlotsAre
<1> HIDE DEF slots
<1>4. ASSUME vs[v].enable PROVE \E q \in S : Style!ViewOf(q, vs) = v /\ slots[v] = q
  <2> DEFINE T == {q \in S : Style!ViewOf(q, vs) = v}
  <2>1. T \in SUBSET Style!Ports /\ p \in T
    BY <1>1
  <2> HIDE DEF T
  <2>2. PICK q \in T : \A r \in T : ~Style!Before(r, q, read)
    BY <1>1, <2>1, FirstPort
  <2>3. q \in S /\ Style!ViewOf(q, vs) = v /\ \A r \in S : Style!ViewOf(r, vs) = v
             => ~Style!Before(r, q, read)
    BY <2>2 DEF T
  <2> HIDE DEF v
  <2>4. ~Style!Taken(q, S, vs, read)
    BY <2>3, Zenon DEF Style!Taken
  <2>5. q \in Style!Mapped(S, vs, read)
    BY <1>2, <1>4, <2>3, <2>4 DEF Style!Mapped, v
  <2>6. Style!Fills(q, v, S, vs, read)
    BY <2>3, <2>5 DEF Style!Fills
  <2> QED  BY <1>2, <1>3, <2>3, <2>6
<1>5. ASSUME ~vs[v].enable, NEW w \in Style!Views, slots[w] = p PROVE FALSE
  <2>1. Style!Fills(p, w, S, vs, read)
    BY <1>3, <1>5
  <2>2. p \notin Style!Mapped(S, vs, read)
    BY <1>5 DEF Style!Mapped
  <2>3. p \notin Style!Unmapped(S, vs, read)
    BY <1>5 DEF Style!Unmapped
  <2> QED  BY <2>1, <2>2, <2>3 DEF Style!Fills
<1> QED  BY <1>2, <1>4, <1>5 DEF slots

(* While a view stays empty, no port that is not hidden is left out.        *)
LEMMA NoneLeft ==
    ASSUME NEW S, NEW vs, NEW read, Drawing(S, vs, read),
           NEW p \in S, \A w \in Style!Views : Style!Slots(S, vs, read)[w] # p,
           NEW v \in Style!Views, Style!Slots(S, vs, read)[v] = Style!None
    PROVE  Style!ViewOf(p, vs) # Style!None /\ ~vs[Style!ViewOf(p, vs)].enable
<1> DEFINE slots == Style!Slots(S, vs, read)
           M == Style!Mapped(S, vs, read)
           U == Style!Unmapped(S, vs, read)
           E == Style!Empty(S, vs, read)
           hidden == {x \in S : Style!ViewOf(x, vs) # Style!None
                /\ ~vs[Style!ViewOf(x, vs)].enable}
           rest == Style!Reached(S, vs, read) \ (M \union hidden)
<1> SUFFICES ASSUME p \notin hidden PROVE FALSE
  OBVIOUS
<1>1. /\ S \in SUBSET Style!Ports /\ read \in [Style!Ports -> Nat] /\ vs \in ViewLists
      /\ M \in SUBSET S /\ U \in SUBSET rest /\ rest \in SUBSET S /\ E \in SUBSET Style!Views
  BY DEF Drawing, Style!Mapped, Style!Unmapped, Style!Reached, Style!Empty
<1>2. Style!None \notin S /\ \A w \in Style!Views, q \in S : slots[w] = q
           <=> Style!Fills(q, w, S, vs, read)
  BY SlotsAre
<1>3. /\ IsFiniteSet(Style!Views) /\ Cardinality(Style!Views) = ViewCount /\ ViewCount \in Nat
      /\ IsFiniteSet(M) /\ IsFiniteSet(U) /\ IsFiniteSet(rest)
      /\ MaxUnmapped \in Nat /\ ViewCount <= MaxUnmapped
  <2>1. M \in SUBSET Style!Ports /\ U \in SUBSET Style!Ports /\ rest \in SUBSET Style!Ports
    BY <1>1
  <2> HIDE DEF M, U, rest
  <2> QED  BY <2>1, PortsAre, FS_Subset, ConstantsAssumption DEF Style!ConstantsOK
<1>4. \A q \in S : ~Style!Fills(q, v, S, vs, read)
  BY <1>2
<1>5. \A w \in Style!Views : ~Style!Fills(p, w, S, vs, read)
  BY <1>2
<1>6. \A q \in M : Style!ViewOf(q, vs) \in Style!Views /\ Style!ViewOf(q, vs) # v /\ q # p
  <2> TAKE q \in M
  <2>1. Style!ViewOf(q, vs) \in Style!Views
    BY <1>1, ViewOfIs DEF Style!Mapped
  <2>2. Style!Fills(q, Style!ViewOf(q, vs), S, vs, read)
    BY DEF Style!Fills
  <2> QED  BY <1>1, <1>4, <1>5, <2>1, <2>2
<1>7. v \in E
  BY <1>6 DEF Style!Empty
<1>8. /\ Cardinality(E) \in Nat /\ Cardinality(E) <= ViewCount
      /\ Style!Below(v, E) \in 0 .. Cardinality(E) - 1
      /\ \A n \in 0 .. Cardinality(E) - 1 : \E w \in E : Style!Below(w, E) = n
  <2> HIDE DEF E
  <2>1. Cardinality(E) <= Cardinality(Style!Views)
    BY <1>1, <1>3, FS_Subset
  <2> QED  BY <1>1, <1>3, <1>7, <2>1, ViewRanks
<1>9. U \in SUBSET Style!Ports /\ M \in SUBSET Style!Ports /\ rest \in SUBSET Style!Ports
  BY <1>1
<1>10. /\ Cardinality(U) \in Nat
       /\ \A q \in U : Style!Later(q, U, read) \in 0 .. Cardinality(U) - 1
       /\ \A n \in 0 .. Cardinality(U) - 1 : \E q \in U : Style!Later(q, U, read) = n
  <2> HIDE DEF U
  <2> QED  BY <1>1, <1>9, PortRanks
<1>11. Cardinality(U) <= Style!Below(v, E)
  <2> SUFFICES ASSUME Style!Below(v, E) < Cardinality(U) PROVE FALSE
    BY <1>8, <1>10
  <2>1. Style!Below(v, E) \in 0 .. Cardinality(U) - 1
    BY <1>8, <1>10
  <2>2. PICK q \in U : Style!Later(q, U, read) = Style!Below(v, E)
    BY <1>10, <2>1
  <2>3. q \in S /\ Style!Fills(q, v, S, vs, read)
    BY <1>1, <1>7, <2>2 DEF Style!Fills
  <2> QED  BY <1>4, <2>3
<1>12. p \notin U
  <2> SUFFICES ASSUME p \in U PROVE FALSE
    OBVIOUS
  <2>1. Style!Later(p, U, read) \in 0 .. Cardinality(E) - 1
    BY <1>8, <1>10, <1>11
  <2>2. PICK w \in E : Style!Below(w, E) = Style!Later(p, U, read)
    BY <1>8, <2>1
  <2>3. w \in Style!Views /\ Style!Fills(p, w, S, vs, read)
    BY <1>1, <2>2 DEF Style!Fills
  <2> QED  BY <1>5, <2>3
<1>13. Cardinality(U) < MaxUnmapped
  BY <1>3, <1>8, <1>10, <1>11
<1>14. rest = U
  <2> SUFFICES ASSUME NEW x \in rest, x \notin U PROVE FALSE
    BY <1>1
  <2> DEFINE N == MaxUnmapped
  <2>1. U = {q \in rest : Style!Earlier(q, rest, read) < N}
    BY DEF Style!Unmapped
  <2> HIDE DEF U, rest, N
  <2>2. /\ Cardinality(rest) \in Nat
        /\ \A q \in rest : Style!Earlier(q, rest, read) \in 0 .. Cardinality(rest) - 1
        /\ \A q, r \in rest : Style!Before(q, r, read)
             => Style!Earlier(q, rest, read) < Style!Earlier(r, rest, read)
        /\ \A n \in 0 .. Cardinality(rest) - 1 : \E q \in rest : Style!Earlier(q, rest, read) = n
    BY <1>1, <1>9, PortRanks, ZenonT(40)
  <2>3. N \in 0 .. Cardinality(rest) - 1
    BY <1>3, <2>1, <2>2 DEF N
  <2>4. PICK y \in rest : Style!Earlier(y, rest, read) = N
    BY <2>2, <2>3
  <2> DEFINE A == {q \in rest : Style!Before(q, y, read)}
  <2>5. Cardinality(A) = N
    BY <2>4, SizeOf DEF Style!Earlier
  <2>6. A \in SUBSET U
    BY <2>1, <2>2, <2>4
  <2> HIDE DEF A
  <2>7. Cardinality(A) <= Cardinality(U)
    BY <1>3, <2>6, FS_Subset
  <2> QED  BY <1>3, <1>10, <1>13, <2>5, <2>7 DEF N
<1>15. p \notin Style!Reached(S, vs, read)
  BY <1>6, <1>12, <1>14
<1>16. Style!Earlier(p, M, read) >= ViewCount
  <2> DEFINE B == {q \in M : Style!Before(q, p, read)}
  <2>1. Style!Earlier(p, M, read) = Cardinality(B) /\ B \in SUBSET M
    BY SizeOf DEF Style!Earlier
  <2> HIDE DEF B, M
  <2>2. Cardinality(B) \in Nat
    BY <1>3, <2>1, FS_Subset, FS_CardinalityType
  <2>3. ~(Style!Earlier(p, M, read) < ViewCount)
    BY <1>15 DEF Style!Reached, M
  <2> QED  BY <1>3, <2>1, <2>2, <2>3
<1>17. Cardinality(M) >= ViewCount
  <2> DEFINE B == {q \in M : Style!Before(q, p, read)}
  <2>1. Style!Earlier(p, M, read) = Cardinality(B) /\ B \in SUBSET M
    BY SizeOf DEF Style!Earlier
  <2> HIDE DEF B, M
  <2>2. Cardinality(B) \in Nat /\ Cardinality(M) \in Nat /\ Cardinality(B) <= Cardinality(M)
    BY <1>3, <2>1, FS_Subset, FS_CardinalityType
  <2> QED  BY <1>3, <1>16, <2>1, <2>2
<1>18. Cardinality(M) <= ViewCount - 1
  <2> DEFINE V == Style!Views \ {v}
             f == [q \in M |-> Style!ViewOf(q, vs)]
  <2>1. IsFiniteSet(V) /\ Cardinality(V) = ViewCount - 1
    <3> HIDE DEF V
    <3>1. IsFiniteSet(Style!Views \ {v})
               /\ Cardinality(Style!Views \ {v}) = Cardinality(Style!Views) - 1
      BY <1>3, FS_RemoveElement
    <3> QED  BY <1>3, <3>1 DEF V
  <2>2. f \in [M -> V]
    BY <1>6
  <2>3. \A x, y \in M : f[x] = f[y] => x = y
    <3> TAKE x, y \in M
    <3>1. Style!ViewOf(x, vs) \in Style!Views /\ Style!Fills(x, Style!ViewOf(x, vs), S, vs, read)
          /\ Style!ViewOf(y, vs) \in Style!Views
          /\ Style!Fills(y, Style!ViewOf(y, vs), S, vs, read)
      BY <1>6 DEF Style!Fills
    <3>2. Style!ViewOf(x, vs) = Style!ViewOf(y, vs) => x = y
      BY <3>1, FillsOne
    <3> QED  BY <3>2
  <2> HIDE DEF f, V, M
  <2>4. f \in Injection(M, V)
    BY <2>2, <2>3 DEF Injection, IsInjective
  <2>5. Cardinality(M) <= Cardinality(V)
    BY <2>1, <2>4, FS_Injection
  <2> QED  BY <2>1, <2>5
<1>19. Cardinality(M) \in Nat
  <2> HIDE DEF M
  <2> QED  BY <1>3, FS_CardinalityType
<1> HIDE DEF M
<1> QED  BY <1>3, <1>17, <1>18, <1>19

Places == [Style!Ports -> [column : 0 .. ViewCount, columns : 0 .. ViewCount]]
VideoOf(S, on) == {p \in S : on[p] # Style!Transparent}

(* What is placed: the ports of the views, each in a column of its own.     *)
LEMMA Columns ==
    ASSUME NEW S, NEW vs, NEW read, Drawing(S, vs, read), place \in Places
    PROVE  LET slots == Style!Slots(S, vs, read)
               on == Style!PlaceOf(S, slots) IN
           /\ on \in Places
           /\ \A p \in S : on[p] # Style!Transparent <=> \E v \in Style!Views : slots[v] = p
           /\ \A p, q \in VideoOf(S, on) : /\ on[p].columns = Cardinality(VideoOf(S, on))
                                           /\ p # q => on[p].column # on[q].column
           /\ Cardinality(VideoOf(S, on)) = Cardinality(Style!Filled(slots))
           /\ \A v \in Style!Filled(slots) : Style!Column(v, slots) \in 1 .. ViewCount
<1> DEFINE slots == Style!Slots(S, vs, read)
           on == Style!PlaceOf(S, slots)
           F == Style!Filled(slots)
<1>1. S \in SUBSET Style!Ports /\ F \in SUBSET Style!Views
  BY DEF Drawing, Style!Filled
<1>2. /\ slots \in [Style!Views -> S \union {Style!None}] /\ Style!None \notin S
      /\ \A v, w \in F : slots[v] = slots[w] => v = w
  BY SlotsAre
<1>3. /\ IsFiniteSet(F) /\ Cardinality(F) \in Nat /\ Cardinality(F) \in 0 .. ViewCount
  <2> HIDE DEF F
  <2>1. IsFiniteSet(F) /\ Cardinality(F) <= Cardinality(Style!Views)
    BY <1>1, PortsAre, FS_Subset
  <2>2. Cardinality(F) \in Nat
    BY <2>1, FS_CardinalityType
  <2> QED  BY <2>1, <2>2, PortsAre
<1>4. \A v \in F : Style!Below(v, F) \in 0 .. Cardinality(F) - 1
  <2> HIDE DEF F
  <2> QED  BY <1>1, ViewRanks
<1>5. \A v, w \in F : Style!Below(v, F) = Style!Below(w, F) => v = w
  <2> HIDE DEF F
  <2> QED  BY <1>1, ViewRanks
<1>6. \A v \in F : Style!Column(v, slots) = Style!Below(v, F) + 1
           /\ Style!Column(v, slots) \in 1 .. ViewCount
  <2> TAKE v \in F
  <2>1. Style!Column(v, slots) = Style!Below(v, F) + 1
    BY DEF Style!Column
  <2> HIDE DEF F
  <2> QED  BY <1>3, <1>4, <2>1, PortsAre
<1>7. ASSUME NEW p \in S, \E v \in Style!Views : slots[v] = p
      PROVE  \E v \in F :
                /\ slots[v] = p
                /\ on[p] = [column |-> Style!Column(v, slots), columns |-> Cardinality(F)]
  <2> DEFINE v == CHOOSE v \in Style!Views : slots[v] = p
  <2>1. v \in Style!Views /\ slots[v] = p
    BY <1>7
  <2>2. p # Style!None
    BY <1>2
  <2>3. on[p] = [column |-> Style!Column(v, slots), columns |-> Cardinality(F)]
    BY <1>1, <1>7, SizeOf DEF Style!PlaceOf
  <2> HIDE DEF v
  <2> QED  BY <2>1, <2>2, <2>3 DEF Style!Filled
<1>8. ASSUME NEW p \in S, ~\E v \in Style!Views : slots[v] = p PROVE on[p] = Style!Transparent
  BY <1>1, <1>8 DEF Style!PlaceOf
<1> HIDE DEF F
<1>9. \A p \in S : on[p] # Style!Transparent <=> \E v \in Style!Views : slots[v] = p
  <2> TAKE p \in S
  <2>1. CASE \E v \in Style!Views : slots[v] = p
    <3>1. PICK v \in F :
            on[p] = [column |-> Style!Column(v, slots), columns |-> Cardinality(F)]
      BY <1>7, <2>1
    <3> HIDE DEF on
    <3>2. on[p].column \in 1 .. ViewCount
      BY <1>6, <3>1
    <3>3. Style!Transparent.column = 0
      BY DEF Style!Transparent
    <3> QED  BY <2>1, <3>2, <3>3, PortsAre
  <2>2. CASE ~\E v \in Style!Views : slots[v] = p
    BY <1>8, <2>2
  <2> QED  BY <2>1, <2>2
<1>10. on \in Places
  <2>1. on = [p \in Style!Ports |-> on[p]]
    BY DEF Style!PlaceOf
  <2> SUFFICES ASSUME NEW p \in Style!Ports
               PROVE  on[p] \in [column : 0 .. ViewCount, columns : 0 .. ViewCount]
    BY <2>1 DEF Places
  <2>2. CASE p \notin S
    BY <2>2 DEF Style!PlaceOf, Places
  <2>3. CASE p \in S /\ \E v \in Style!Views : slots[v] = p
    <3>1. PICK v \in F :
            on[p] = [column |-> Style!Column(v, slots), columns |-> Cardinality(F)]
      BY <1>7, <2>3
    <3>2. Style!Column(v, slots) \in 0 .. ViewCount
      BY <1>6, PortsAre
    <3> QED  BY <1>3, <3>1, <3>2
  <2>4. CASE p \in S /\ ~\E v \in Style!Views : slots[v] = p
    <3>1. Style!Transparent \in [column : 0 .. ViewCount, columns : 0 .. ViewCount]
      BY PortsAre DEF Style!Transparent
    <3> QED  BY <1>8, <2>4, <3>1
  <2> QED  BY <2>2, <2>3, <2>4
<1> HIDE DEF on
<1>11. Cardinality(VideoOf(S, on)) = Cardinality(F)
  <2> DEFINE f == [v \in F |-> slots[v]]
             V == VideoOf(S, on)
  <2>1. \A v \in F : slots[v] \in S
    BY <1>1, <1>2 DEF F, Style!Filled
  <2>2. \A v \in F : slots[v] \in V
    BY <1>1, <1>9, <2>1 DEF VideoOf
  <2>3. \A p \in V : \E v \in F : slots[v] = p
    BY <1>7, <1>9 DEF VideoOf
  <2> HIDE DEF V, slots
  <2>4. f \in Bijection(F, V)
    BY <1>2, <2>2, <2>3 DEF Bijection, Injection, Surjection, IsInjective
  <2>5. Cardinality(V) = Cardinality(F)
    BY <1>3, <2>4, FS_Bijection DEF ExistsBijection
  <2> QED  BY <2>5 DEF V
<1>12. ASSUME NEW p \in VideoOf(S, on), NEW q \in VideoOf(S, on)
       PROVE  /\ on[p].columns = Cardinality(VideoOf(S, on))
              /\ p # q => on[p].column # on[q].column
  <2>1. /\ p \in S /\ \E v \in Style!Views : slots[v] = p
        /\ q \in S /\ \E v \in Style!Views : slots[v] = q
    BY <1>9 DEF VideoOf
  <2>2. PICK v \in F : /\ slots[v] = p
                       /\ on[p] = [column |-> Style!Column(v, slots), columns |-> Cardinality(F)]
    BY <1>7, <2>1
  <2>3. PICK w \in F : /\ slots[w] = q
                       /\ on[q] = [column |-> Style!Column(w, slots), columns |-> Cardinality(F)]
    BY <1>7, <2>1
  <2>4. ASSUME on[p].column = on[q].column PROVE p = q
    <3>1. Style!Column(v, slots) = Style!Column(w, slots)
      BY <2>2, <2>3, <2>4
    <3>2. Style!Below(v, F) + 1 = Style!Below(w, F) + 1
      BY <1>6, <3>1
    <3>3. Style!Below(v, F) \in Int /\ Style!Below(w, F) \in Int
      BY <1>4
    <3>4. Style!Below(v, F) = Style!Below(w, F)
      BY <3>2, <3>3
    <3> QED  BY <1>5, <2>2, <2>3, <3>4
  <2>5. on[p].columns = Cardinality(VideoOf(S, on))
    BY <1>11, <2>2
  <2> QED  BY <2>4, <2>5
<1> QED  BY <1>6, <1>9, <1>10, <1>11, <1>12 DEF on, F

Overlays == [enable : 0 .. 2, bars : SUBSET ((1 .. ViewCount) \X Style!Ports)]

(* The bars are beside the columns.                                         *)
LEMMA Bars ==
    ASSUME NEW S, NEW vs, NEW read, Drawing(S, vs, read), place \in Places,
           overlay \in Overlays
    PROVE  /\ Style!OverlayOf(Style!Slots(S, vs, read)) \in Overlays
           /\ [overlay EXCEPT !.enable = 2] \in Overlays
<1> DEFINE slots == Style!Slots(S, vs, read)
           B == {<<Style!Column(v, slots), slots[v]>> : v \in Style!Filled(slots)}
<1>1. [overlay EXCEPT !.enable = 2] \in Overlays
  BY DEF Overlays
<1>2. \A v \in Style!Filled(slots) : slots[v] \in Style!Ports
           /\ Style!Column(v, slots) \in 1 .. ViewCount
  <2>1. /\ slots \in [Style!Views -> S \union {Style!None}]
        /\ \A v \in Style!Filled(slots) : Style!Column(v, slots) \in 1 .. ViewCount
    BY SlotsAre, Columns
  <2>2. S \in SUBSET Style!Ports
    BY DEF Drawing
  <2> HIDE DEF slots
  <2> QED  BY <2>1, <2>2 DEF Style!Filled
<1> HIDE DEF slots
<1>3. B \in SUBSET ((1 .. ViewCount) \X Style!Ports)
  BY <1>2
<1> HIDE DEF B
<1>4. [enable |-> 0, bars |-> B] \in Overlays /\ [enable |-> 1, bars |-> B] \in Overlays
  BY <1>3 DEF Overlays
<1>5. \/ Style!OverlayOf(slots) = [overlay EXCEPT !.enable = 2]
      \/ Style!OverlayOf(slots) = [enable |-> 0, bars |-> B]
      \/ Style!OverlayOf(slots) = [enable |-> 1, bars |-> B]
  BY Zenon DEF Style!OverlayOf, B
<1> QED  BY <1>1, <1>4, <1>5 DEF slots

-----------------------------------------------------------------------------

StyleLists == [Style!Views -> [id : Ids \union {Style!NoId}, enable : BOOLEAN]]

(* The types: TypeOK, and the answers that showView and hideView hold.      *)
StyleTypes ==
    /\ ports \in SUBSET Style!Ports
    /\ input \in [Style!Ports -> BOOLEAN] /\ eos_managed \in [Style!Ports -> BOOLEAN]
    /\ padEos \in [Style!Ports -> BOOLEAN]
    /\ elements \in [Style!Ports -> {"none", "in", "out"}] /\ idles \in [Style!Ports -> 0 .. 1]
    /\ bitrate \in [Style!Ports -> Ids \union {0}] /\ viewId \in [Style!Ports -> Ids \union {0}]
    /\ views \in StyleLists /\ place \in Places /\ overlay \in Overlays
    /\ call \in [Threads -> {Style!NoCall} \union [id : Ids, enable : BOOLEAN, read : StyleLists]]
    /\ changes \in 0 .. StyleChanges /\ stale \in BOOLEAN

(* A port has its idle callbacks when it is gone, and nothing before it is  *)
(* added; n_elems counts the ports that have had a stream.                  *)
StyleLives ==
    \A p \in Style!Ports :
        /\ p \in ports => idles[p] = 0 /\ elements[p] # "none"
        /\ elements[p] = "none" => idles[p] = 0 /\ ~input[p]

WithInput == {p \in Style!Ports : input[p]}
StyleCounts == n_elems = Cardinality(WithInput)

StyleInv == StyleTypes /\ StyleLives /\ StyleCounts /\ Style!ViewsAsAsked

LEMMA IdsAre ==
    /\ Ids \union {0} \subseteq Nat /\ Ids \union {Style!NoId} \subseteq Int
    /\ StyleLists \subseteq ViewLists
<1>1. Ids \subseteq Nat
  BY ConstantsAssumption DEF Style!ConstantsOK
<1>2. Ids \union {0} \subseteq Nat /\ Ids \union {Style!NoId} \subseteq Int
  BY <1>1 DEF Style!NoId
<1> QED  BY <1>2 DEF StyleLists, ViewLists

LEMMA StyleInvTypes ==
    ASSUME StyleInv PROVE Style!TypeOK /\ n_elems \in Nat
<1>1. StyleTypes /\ StyleCounts
  BY DEF StyleInv
<1>2. WithInput \in SUBSET Style!Ports
  BY DEF WithInput
<1>3. n_elems \in 0 .. MixerPorts
  <2>1. IsFiniteSet(WithInput) /\ Cardinality(WithInput) <= MixerPorts
    BY <1>2, PortsAre, FS_Subset
  <2>2. Cardinality(WithInput) \in Nat
    BY <2>1, FS_CardinalityType
  <2> QED  BY <1>1, <2>1, <2>2, PortsAre DEF StyleCounts
<1>4. overlay.enable \in 0 .. 2 /\ overlay.bars \subseteq (1 .. ViewCount) \X Style!Ports
  BY <1>1 DEF StyleTypes, Overlays
<1> QED  BY <1>1, <1>3, <1>4, PortsAre DEF StyleTypes, Style!TypeOK, StyleLists, Places

(* The view of a port changes with the views and its bitrate only.          *)
LEMMA ViewOfNext ==
    ASSUME NEW vs, views' = vs, bitrate' = bitrate, NEW p
    PROVE  Style!ViewOf(p, views)' = Style!ViewOf(p, vs)
<1> DEFINE least(V) == IF V = {} THEN Style!None ELSE CHOOSE v \in V : \A w \in V : v <= w
           F == {v \in Style!Views : vs[v].id = bitrate[p]}
           G == {v \in Style!Views : views'[v].id = bitrate'[p]}
<1>1. Style!ViewOf(p, vs) = least(F)
  BY Zenon DEF Style!ViewOf
<1>2. Style!ViewOf(p, views)' = least(G)
  BY Zenon DEF Style!ViewOf
<1>3. F = G
  OBVIOUS
<1> HIDE DEF least, F, G
<1> QED  BY <1>1, <1>2, <1>3

(* A drawing of the ports with input, after which nothing is stale.         *)
LEMMA Redrawn ==
    ASSUME StyleTypes, NEW S \in SUBSET Style!Ports, NEW vs \in StyleLists, NEW n \in Nat,
           Style!Recalculate(S, vs, n), n = 0 => S = {},
           Style!Inputs' = S, views' = vs, bitrate' = bitrate
    PROVE  /\ Style!ViewsAsAsked'
           /\ viewId' \in [Style!Ports -> Ids \union {0}] /\ place' \in Places
           /\ overlay' \in Overlays /\ stale' \in BOOLEAN
<1>1. Drawing(S, vs, viewId) /\ place \in Places /\ overlay \in Overlays
  BY IdsAre DEF StyleTypes, Drawing
<1>2. CASE n = 0
  <2>1. /\ overlay' = [overlay EXCEPT !.enable = 2] /\ stale' = FALSE
        /\ viewId' = viewId /\ place' = place
    BY <1>2 DEF Style!Recalculate
  <2>2. overlay' \in Overlays
    BY <1>1, <2>1, Bars
  <2>3. Style!Inputs' = {}
    BY <1>2
  <2>4. Style!ViewsAsAsked'
    BY <2>3 DEF Style!ViewsAsAsked, Style!Shown
  <2> QED  BY <2>1, <2>2, <2>4 DEF StyleTypes
<1>3. CASE n # 0
  <2> DEFINE slots == Style!Slots(S, vs, viewId)
             on == Style!PlaceOf(S, slots)
  <2>1. /\ viewId' = [p \in Style!Ports |->
                         IF p \in Style!Reached(S, vs, viewId) THEN bitrate[p] ELSE viewId[p]]
        /\ place' = on /\ overlay' = Style!OverlayOf(slots) /\ stale' = FALSE
    BY <1>3 DEF Style!Recalculate
  <2>2. viewId' \in [Style!Ports -> Ids \union {0}]
    BY <2>1 DEF StyleTypes
  <2>3. overlay' \in Overlays
    BY <1>1, <2>1, Bars
  <2>4. /\ on \in Places
        /\ \A p \in S : on[p] # Style!Transparent <=> \E v \in Style!Views : slots[v] = p
        /\ \A p, q \in VideoOf(S, on) : /\ on[p].columns = Cardinality(VideoOf(S, on))
                                        /\ p # q => on[p].column # on[q].column
        /\ Cardinality(VideoOf(S, on)) = Cardinality(Style!Filled(slots))
    BY <1>1, Columns
  <2>5. \A p \in S : Style!ViewOf(p, vs) # Style!None =>
           /\ vs[Style!ViewOf(p, vs)].enable =>
                 \E q \in S : Style!ViewOf(q, vs) = Style!ViewOf(p, vs)
                      /\ slots[Style!ViewOf(p, vs)] = q
           /\ ~vs[Style!ViewOf(p, vs)].enable => \A w \in Style!Views : slots[w] # p
           /\ Style!ViewOf(p, vs) \in Style!Views
    BY <1>1, OwnView
  <2>6. \A p \in S, v \in Style!Views : (\A w \in Style!Views : slots[w] # p)
             /\ slots[v] = Style!None
           => Style!ViewOf(p, vs) # Style!None /\ ~vs[Style!ViewOf(p, vs)].enable
    BY <1>1, NoneLeft
  <2>7. Style!Filled(slots) # Style!Views => \E v \in Style!Views : slots[v] = Style!None
    BY DEF Style!Filled
  <2> HIDE DEF slots, on
  <2>8. Style!Shown' = VideoOf(S, on)
    BY <2>1 DEF Style!Shown, VideoOf
  <2>9. \A p \in Style!Ports : Style!ViewOf(p, views)' = Style!ViewOf(p, vs)
    BY ViewOfNext
  <2> DEFINE X == VideoOf(S, on)
  <2>10. \A p \in S : p \in X <=> \E v \in Style!Views : slots[v] = p
    BY <2>4 DEF VideoOf
  <2>11. Cardinality(X) < ViewCount => \E v \in Style!Views : slots[v] = Style!None
    BY <2>4, <2>7, PortsAre
  <2>12. ASSUME NEW p \in S
         PROVE  /\ Style!ViewOf(p, vs) # Style!None /\ ~vs[Style!ViewOf(p, vs)].enable
                     => p \notin X
                /\ Style!ViewOf(p, vs) # Style!None /\ vs[Style!ViewOf(p, vs)].enable =>
                      \E q \in X : Style!ViewOf(q, vs) = Style!ViewOf(p, vs)
                /\ p \notin X /\ Cardinality(X) < ViewCount =>
                      Style!ViewOf(p, vs) # Style!None /\ ~vs[Style!ViewOf(p, vs)].enable
    <3>1. Style!ViewOf(p, vs) # Style!None /\ ~vs[Style!ViewOf(p, vs)].enable => p \notin X
      BY <2>5, <2>10
    <3>2. Style!ViewOf(p, vs) # Style!None /\ vs[Style!ViewOf(p, vs)].enable =>
             \E q \in X : Style!ViewOf(q, vs) = Style!ViewOf(p, vs)
      BY <2>5, <2>10
    <3>3. p \notin X /\ Cardinality(X) < ViewCount =>
             Style!ViewOf(p, vs) # Style!None /\ ~vs[Style!ViewOf(p, vs)].enable
      BY <2>6, <2>10, <2>11
    <3> QED  BY <3>1, <3>2, <3>3
  <2>13. X \in SUBSET Style!Ports
    BY DEF VideoOf
  <2>14. \A p, q \in X : on[p].columns = on[q].columns /\ (p # q => on[p].column # on[q].column)
    BY <2>4
  <2>15. \A p \in X : on[p].columns = Cardinality(X)
    BY <2>4
  <2> HIDE DEF X
  <2>16. \A p, q \in Style!Shown' : /\ place'[p].columns = place'[q].columns
                                    /\ p # q => place'[p].column # place'[q].column
    BY <2>1, <2>8, <2>14 DEF X
  <2>17. \A p \in Style!Shown' : place'[p].columns = Cardinality(Style!Shown')
    BY <2>1, <2>8, <2>15 DEF X
  <2>18. \A p \in Style!Inputs' :
            /\ Style!ViewOf(p, views)' # Style!None /\ ~views'[Style!ViewOf(p, views)'].enable
                 => p \notin Style!Shown'
            /\ Style!ViewOf(p, views)' # Style!None /\ views'[Style!ViewOf(p, views)'].enable =>
                  \E q \in Style!Shown' : Style!ViewOf(q, views)' = Style!ViewOf(p, views)'
            /\ p \notin Style!Shown' /\ Cardinality(Style!Shown') < ViewCount =>
                  Style!ViewOf(p, views)' # Style!None /\ ~views'[Style!ViewOf(p, views)'].enable
    <3> TAKE p \in Style!Inputs'
    <3>1. p \in S /\ p \in Style!Ports /\ Style!ViewOf(p, views)' = Style!ViewOf(p, vs)
      BY <2>9
    <3>2. \A q \in X : Style!ViewOf(q, views)' = Style!ViewOf(q, vs)
      BY <2>9, <2>13
    <3> QED  BY <2>8, <2>12, <3>1, <3>2, ZenonT(40) DEF X
  <2>19. Style!ViewsAsAsked'
    BY <2>16, <2>17, <2>18, SizeOf, ZenonT(40) DEF Style!ViewsAsAsked
  <2> QED  BY <2>1, <2>2, <2>3, <2>4, <2>19
<1> QED  BY <1>2, <1>3

(* Without a drawing: the same ports, or fewer, are shown as before.        *)
LEMMA NotRedrawn ==
    ASSUME Style!ViewsAsAsked, UNCHANGED place,
           \/ UNCHANGED <<Style!Inputs, views, bitrate, stale>>
           \/ stale' = TRUE /\ Style!Inputs' \subseteq Style!Inputs
    PROVE  Style!ViewsAsAsked'
<1>1. CASE UNCHANGED <<Style!Inputs, views, bitrate, stale>>
  <2>1. Style!Shown' = Style!Shown
    BY <1>1 DEF Style!Shown
  <2>2. \A p \in Style!Inputs : Style!ViewOf(p, views)' = Style!ViewOf(p, views)
    BY <1>1, ViewOfNext
  <2>3. Style!Shown \subseteq Style!Inputs
    BY DEF Style!Shown
  <2>4. \A p, q \in Style!Shown' : /\ place'[p].columns = place'[q].columns
                                   /\ p # q => place'[p].column # place'[q].column
    BY <2>1 DEF Style!ViewsAsAsked
  <2>5. ~stale' => \A p \in Style!Shown' : place'[p].columns = Cardinality(Style!Shown')
    BY <1>1, <2>1, SizeOf DEF Style!ViewsAsAsked
  <2>6. ASSUME ~stale', NEW p \in Style!Inputs'
        PROVE  LET v == Style!ViewOf(p, views)' IN
               /\ v # Style!None /\ ~views'[v].enable => p \notin Style!Shown'
               /\ v # Style!None /\ views'[v].enable
                    => \E q \in Style!Shown' : Style!ViewOf(q, views)' = v
               /\ p \notin Style!Shown' /\ Cardinality(Style!Shown') < ViewCount =>
                     v # Style!None /\ ~views'[v].enable
    <3> DEFINE v == Style!ViewOf(p, views)
    <3>1. p \in Style!Inputs /\ ~stale /\ Style!ViewOf(p, views)' = v /\ views' = views
      BY <1>1, <2>2, <2>6
    <3>2. /\ v # Style!None /\ ~views[v].enable => p \notin Style!Shown
          /\ v # Style!None /\ views[v].enable
               => \E q \in Style!Shown : Style!ViewOf(q, views) = v
          /\ p \notin Style!Shown /\ Cardinality(Style!Shown) < ViewCount => v # Style!None
               /\ ~views[v].enable
      BY <3>1, SizeOf, Zenon DEF Style!ViewsAsAsked
    <3>3. \A q \in Style!Shown : Style!ViewOf(q, views)' = Style!ViewOf(q, views)
      BY <2>2, <2>3
    <3> HIDE DEF v
    <3> QED  BY <2>1, <3>1, <3>2, <3>3
  <2> QED  BY <2>4, <2>5, <2>6, SizeOf, Zenon DEF Style!ViewsAsAsked
<1>2. CASE stale' = TRUE /\ Style!Inputs' \subseteq Style!Inputs
  <2>1. Style!Shown' \subseteq Style!Shown
    BY <1>2 DEF Style!Shown
  <2> QED  BY <1>2, <2>1 DEF Style!ViewsAsAsked
<1> QED  BY <1>1, <1>2

(* n_elems with one stream more, and with one less.                         *)
LEMMA CountMore ==
    ASSUME StyleTypes, StyleCounts, NEW p \in Style!Ports, ~input[p],
           input' = [input EXCEPT ![p] = TRUE], n_elems' = n_elems + 1
    PROVE  StyleCounts' /\ n_elems \in Nat /\ n_elems' \in Nat \ {0}
<1> DEFINE W == WithInput
<1>1. W \in SUBSET Style!Ports /\ p \notin W
  BY DEF WithInput
<1>2. WithInput' = W \union {p}
  BY DEF WithInput, StyleTypes
<1> HIDE DEF W
<1>3. IsFiniteSet(W) /\ Cardinality(W) \in Nat
  BY <1>1, PortsAre, FS_Subset, FS_CardinalityType
<1>4. Cardinality(W \union {p}) = Cardinality(W) + 1
  BY <1>1, <1>3, FS_AddElement
<1> QED  BY <1>2, <1>3, <1>4 DEF StyleCounts, W

LEMMA CountSome ==
    ASSUME StyleCounts, NEW p \in Style!Ports, input[p]
    PROVE  n_elems \in Nat /\ n_elems > 0
<1> DEFINE W == WithInput
<1>1. W \in SUBSET Style!Ports /\ p \in W /\ n_elems = Cardinality(W)
  BY DEF WithInput, StyleCounts
<1> HIDE DEF W
<1>2. IsFiniteSet(W) /\ Cardinality(W) \in Nat
  BY <1>1, PortsAre, FS_Subset, FS_CardinalityType
<1>3. Cardinality(W) # 0
  BY <1>1, <1>2, FS_EmptySet
<1> QED  BY <1>1, <1>2, <1>3

LEMMA CountLess ==
    ASSUME StyleTypes, StyleCounts, NEW p \in Style!Ports, input[p],
           input' = [input EXCEPT ![p] = FALSE], n_elems' = n_elems - 1
    PROVE  /\ StyleCounts' /\ n_elems' \in Nat
           /\ n_elems' = 0 => \A q \in Style!Ports : q # p => ~input[q]
<1> DEFINE W == WithInput
<1>1. W \in SUBSET Style!Ports /\ p \in W /\ n_elems = Cardinality(W)
  BY DEF WithInput, StyleCounts
<1>2. WithInput' = W \ {p}
  BY DEF WithInput, StyleTypes
<1>3. \A q \in Style!Ports : input[q] /\ q # p => q \in W \ {p}
  BY DEF WithInput
<1> HIDE DEF W
<1>4. IsFiniteSet(W) /\ Cardinality(W) \in Nat
  BY <1>1, PortsAre, FS_Subset, FS_CardinalityType
<1>5. IsFiniteSet(W \ {p}) /\ Cardinality(W \ {p}) = Cardinality(W) - 1
  BY <1>1, <1>4, FS_RemoveElement
<1>6. Cardinality(W \ {p}) \in Nat /\ (Cardinality(W \ {p}) = 0 => W \ {p} = {})
  BY <1>5, FS_CardinalityType, FS_EmptySet
<1> QED  BY <1>1, <1>2, <1>3, <1>4, <1>5, <1>6 DEF StyleCounts

(* The steps of the ports.                                                  *)
LEMMA StylePortStep ==
    ASSUME StyleInv, NEW p \in Style!Ports, Style!Port(p) PROVE StyleInv'
<1> USE DEF Style!portVars, Style!drawn
<1>1. StyleTypes /\ StyleLives /\ StyleCounts /\ Style!ViewsAsAsked
  BY DEF StyleInv
<1>2. Style!Inputs \subseteq ports /\ ports \subseteq Style!Ports
  BY <1>1 DEF Style!Inputs, StyleTypes
<1>3. CASE Style!HandlePort(p)
  <2>1. StyleTypes'
    BY <1>1, <1>3 DEF Style!HandlePort, Style!PortDataCreate, StyleTypes
  <2>2. StyleLives'
    BY <1>1, <1>3 DEF Style!HandlePort, Style!PortDataCreate, StyleTypes, StyleLives
  <2>3. StyleCounts'
    BY <1>1, <1>3 DEF Style!HandlePort, StyleCounts, WithInput
  <2>4. Style!Inputs' = Style!Inputs
    BY <1>1, <1>3 DEF Style!HandlePort, Style!Inputs, StyleLives
  <2>5. Style!ViewsAsAsked'
    BY <1>1, <1>3, <2>4, NotRedrawn DEF Style!HandlePort
  <2> QED  BY <2>1, <2>2, <2>3, <2>5 DEF StyleInv
<1>4. CASE Style!LinkToVideomixer(p)
  <2> DEFINE S == Style!Inputs \union {p}
  <2>1. StyleCounts' /\ n_elems' \in Nat \ {0}
    BY <1>1, <1>4, CountMore DEF Style!LinkToVideomixer
  <2>2. Style!Inputs' = S /\ S \in SUBSET Style!Ports
    BY <1>1, <1>2, <1>4 DEF Style!LinkToVideomixer, Style!Inputs, StyleTypes
  <2>3. /\ Style!Recalculate(S, views, n_elems') /\ views' = views /\ bitrate' = bitrate
        /\ views \in StyleLists
    BY <1>1, <1>4 DEF Style!LinkToVideomixer, StyleTypes
  <2> HIDE DEF S
  <2>4. /\ Style!ViewsAsAsked'
        /\ viewId' \in [Style!Ports -> Ids \union {0}] /\ place' \in Places
        /\ overlay' \in Overlays /\ stale' \in BOOLEAN
    BY <1>1, <2>1, <2>2, <2>3, Redrawn
  <2>5. StyleTypes'
    BY <1>1, <1>4, <2>4 DEF Style!LinkToVideomixer, StyleTypes
  <2>6. StyleLives'
    BY <1>1, <1>4 DEF Style!LinkToVideomixer, StyleTypes, StyleLives
  <2> QED  BY <2>1, <2>4, <2>5, <2>6 DEF StyleInv
<1>5. CASE Style!EosReceived(p)
  <2>1. StyleTypes' /\ StyleLives' /\ StyleCounts'
    BY <1>1, <1>5 DEF Style!EosReceived, StyleTypes, StyleLives, StyleCounts, WithInput
  <2>2. Style!Inputs' = Style!Inputs
    BY <1>5 DEF Style!EosReceived, Style!Inputs
  <2> QED  BY <1>1, <1>5, <2>1, <2>2, NotRedrawn DEF Style!EosReceived, StyleInv
<1>6. CASE Style!StreamAgain(p)
  <2>1. StyleTypes' /\ StyleLives' /\ StyleCounts'
    BY <1>1, <1>6 DEF Style!StreamAgain, StyleTypes, StyleLives, StyleCounts, WithInput
  <2>2. Style!Inputs' = Style!Inputs
    BY <1>6 DEF Style!StreamAgain, Style!Inputs
  <2> QED  BY <1>1, <1>6, <2>1, <2>2, NotRedrawn DEF Style!StreamAgain, StyleInv
<1>7. CASE Style!UnhandleFlowing(p)
  <2> DEFINE S == Style!Inputs \ {p}
  <2>1. input[p] /\ p \in ports
    BY <1>7 DEF Style!UnhandleFlowing, Style!Inputs
  <2>2. n_elems \in Nat /\ n_elems > 0
    BY <1>1, <2>1, CountSome
  <2>3. /\ ports' = ports \ {p} /\ idles' = [idles EXCEPT ![p] = @ + 1]
        /\ padEos' = [padEos EXCEPT ![p] = TRUE]
        /\ input' = [input EXCEPT ![p] = FALSE] /\ n_elems' = n_elems - 1
        /\ Style!Recalculate(S, views, n_elems')
        /\ UNCHANGED <<eos_managed, elements, bitrate, views, call, changes>>
    BY <1>7, <2>2 DEF Style!UnhandleFlowing, Style!QueueRemoval
  <2>4. /\ StyleCounts' /\ n_elems' \in Nat
        /\ n_elems' = 0 => \A q \in Style!Ports : q # p => ~input[q]
    BY <1>1, <2>1, <2>3, CountLess
  <2>5. n_elems' = 0 => S = {}
    BY <1>2, <2>4 DEF Style!Inputs
  <2>6. Style!Inputs' = S /\ S \in SUBSET Style!Ports /\ views \in StyleLists
    BY <1>1, <1>2, <2>3 DEF Style!Inputs, StyleTypes
  <2> HIDE DEF S
  <2>7. /\ Style!ViewsAsAsked'
        /\ viewId' \in [Style!Ports -> Ids \union {0}] /\ place' \in Places
        /\ overlay' \in Overlays /\ stale' \in BOOLEAN
    BY <1>1, <2>3, <2>4, <2>5, <2>6, Redrawn
  <2>8. idles[p] = 0
    BY <1>1, <2>1 DEF StyleLives
  <2>9. idles' \in [Style!Ports -> 0 .. 1]
    BY <1>1, <2>3, <2>8 DEF StyleTypes
  <2>10. StyleTypes'
    BY <1>1, <2>3, <2>7, <2>9 DEF StyleTypes
  <2>11. StyleLives'
    <3>1. elements[p] # "none"
      BY <1>1, <2>1 DEF StyleLives
    <3>2. \A q \in Style!Ports : q # p => idles'[q] = idles[q] /\ input'[q] = input[q]
      BY <1>1, <2>3 DEF StyleTypes
    <3> QED  BY <1>1, <2>3, <3>1, <3>2 DEF StyleLives
  <2> QED  BY <2>4, <2>7, <2>10, <2>11 DEF StyleInv
<1>8. CASE Style!UnhandleEnded(p)
  <2>1. p \in ports /\ idles[p] = 0 /\ elements[p] # "none"
    BY <1>1, <1>8 DEF Style!UnhandleEnded, Style!Inputs, StyleLives
  <2>2. idles' = [idles EXCEPT ![p] = 1] \/ idles' = idles
    BY <1>1, <1>8, <2>1 DEF Style!UnhandleEnded, Style!QueueRemoval
  <2>3. StyleTypes'
    BY <1>1, <1>8, <2>2 DEF Style!UnhandleEnded, StyleTypes
  <2>4. StyleLives' /\ StyleCounts'
    BY <1>1, <1>8, <2>1, <2>2
       DEF Style!UnhandleEnded, StyleTypes, StyleLives, StyleCounts, WithInput
  <2>5. Style!Inputs' \subseteq Style!Inputs /\ stale' = TRUE /\ place' = place
    BY <1>8 DEF Style!UnhandleEnded, Style!Inputs
  <2> QED  BY <1>1, <2>3, <2>4, <2>5, NotRedrawn DEF StyleInv
<1>9. CASE Style!UnhandleSilent(p)
  <2>1. StyleTypes'
    BY <1>1, <1>9 DEF Style!UnhandleSilent, StyleTypes
  <2>2. StyleLives' /\ StyleCounts'
    BY <1>1, <1>9 DEF Style!UnhandleSilent, StyleTypes, StyleLives, StyleCounts, WithInput
  <2>3. Style!Inputs' = Style!Inputs
    BY <1>9 DEF Style!UnhandleSilent, Style!Inputs
  <2> QED  BY <1>1, <1>9, <2>1, <2>2, <2>3, NotRedrawn DEF Style!UnhandleSilent, StyleInv
<1>10. CASE Style!RemoveElements(p)
  <2>1. idles[p] \in 0 .. 1 /\ idles[p] > 0 /\ idles' = [idles EXCEPT ![p] = idles[p] - 1]
    BY <1>1, <1>10 DEF Style!RemoveElements, StyleTypes
  <2>2. idles[p] = 1 /\ idles[p] - 1 = 0
    BY <2>1
  <2>3. idles[p] = 1 /\ idles' = [idles EXCEPT ![p] = 0]
    BY <2>1, <2>2, Zenon
  <2>4. StyleTypes'
    BY <1>1, <1>10, <2>3 DEF Style!RemoveElements, StyleTypes
  <2>5. StyleLives' /\ StyleCounts'
    BY <1>1, <1>10, <2>3
       DEF Style!RemoveElements, StyleTypes, StyleLives, StyleCounts, WithInput
  <2>6. Style!Inputs' = Style!Inputs
    BY <1>10 DEF Style!RemoveElements, Style!Inputs
  <2> QED  BY <1>1, <1>10, <2>4, <2>5, <2>6, NotRedrawn DEF Style!RemoveElements, StyleInv
<1>11. ASSUME NEW id \in Ids, Style!SetBitrate(p, id) PROVE StyleInv'
  <2>1. changes' \in 0 .. StyleChanges
    BY <1>1, <1>11, ConstantsAssumption DEF Style!SetBitrate, StyleTypes, Style!ConstantsOK
  <2>2. StyleTypes'
    BY <1>1, <1>11, <2>1 DEF Style!SetBitrate, StyleTypes
  <2>3. StyleLives' /\ StyleCounts'
    BY <1>1, <1>11 DEF Style!SetBitrate, StyleLives, StyleCounts, WithInput
  <2>4. Style!Inputs' = Style!Inputs
    BY <1>11 DEF Style!SetBitrate, Style!Inputs
  <2> QED  BY <1>1, <1>11, <2>2, <2>3, <2>4, NotRedrawn DEF Style!SetBitrate, StyleInv
<1> QED  BY <1>3, <1>4, <1>5, <1>6, <1>7, <1>8, <1>9, <1>10, <1>11 DEF Style!Port

(* A style that is set, of the application's steps.                         *)
LEMMA Styled ==
    ASSUME StyleInv, NEW new \in StyleLists, Style!ParseStyle(new),
           UNCHANGED <<Style!portVars, bitrate, n_elems>>,
           call' \in [Threads -> {Style!NoCall} \union
                                 [id : Ids, enable : BOOLEAN, read : StyleLists]],
           changes' \in 0 .. StyleChanges
    PROVE  StyleInv'
<1> USE DEF Style!portVars, Style!drawn
<1>1. StyleTypes /\ StyleLives /\ StyleCounts /\ Style!ViewsAsAsked
  BY DEF StyleInv
<1>2. StyleLives' /\ StyleCounts' /\ Style!Inputs' = Style!Inputs
           /\ Style!Inputs \in SUBSET Style!Ports
  BY <1>1 DEF StyleLives, StyleCounts, WithInput, Style!Inputs, StyleTypes
<1>3. n_elems \in Nat /\ (n_elems = 0 => Style!Inputs = {})
  <2>1. WithInput \in SUBSET Style!Ports /\ Style!Inputs \subseteq WithInput
    BY <1>2 DEF WithInput, Style!Inputs
  <2>2. IsFiniteSet(WithInput) /\ Cardinality(WithInput) \in Nat
    BY <2>1, PortsAre, FS_Subset, FS_CardinalityType
  <2>3. Cardinality(WithInput) = 0 => WithInput = {}
    BY <2>2, FS_EmptySet
  <2> QED  BY <1>1, <2>1, <2>2, <2>3 DEF StyleCounts
<1>4. views' = new
  BY DEF Style!ParseStyle
<1>5. CASE \E v \in Style!Views : new[v].enable # views[v].enable
  <2>1. Style!Recalculate(Style!Inputs, new, n_elems)
    BY <1>5 DEF Style!ParseStyle
  <2>2. /\ Style!ViewsAsAsked'
        /\ viewId' \in [Style!Ports -> Ids \union {0}] /\ place' \in Places
        /\ overlay' \in Overlays /\ stale' \in BOOLEAN
    BY <1>1, <1>2, <1>3, <1>4, <2>1, Redrawn
  <2>3. StyleTypes'
    BY <1>1, <1>4, <2>2 DEF StyleTypes
  <2> QED  BY <1>2, <2>2, <2>3 DEF StyleInv
<1>6. CASE ~\E v \in Style!Views : new[v].enable # views[v].enable
  <2>1. stale' = (stale \/ new # views) /\ UNCHANGED Style!drawn
    BY <1>6, Zenon DEF Style!ParseStyle
  <2>2. StyleTypes'
    BY <1>1, <1>4, <2>1 DEF StyleTypes
  <2>3. CASE new = views /\ stale' = stale
    BY <1>1, <1>2, <1>4, <2>1, <2>2, <2>3, NotRedrawn DEF StyleInv
  <2>4. CASE stale' = TRUE
    BY <1>1, <1>2, <2>1, <2>2, <2>4, NotRedrawn DEF StyleInv
  <2>5. stale \in BOOLEAN
    BY <1>1 DEF StyleTypes
  <2>6. new = views => stale' = stale
    BY <2>1, <2>5, Zenon
  <2>7. new # views => stale' = TRUE
    BY <2>1, Zenon
  <2> QED  BY <2>3, <2>4, <2>6, <2>7
<1> QED  BY <1>5, <1>6

LEMMA StyleStep == ASSUME StyleInv, [Style!Next]_(Style!vars) PROVE StyleInv'
<1>1. StyleTypes /\ StyleLives /\ StyleCounts /\ Style!ViewsAsAsked
  BY DEF StyleInv
<1>2. ASSUME NEW v \in Style!Views, NEW id \in Ids, Style!SetStyle(v, id) PROVE StyleInv'
  <2> DEFINE new == [views EXCEPT ![v].id = id]
  <2>1. new \in StyleLists
    BY <1>1 DEF StyleTypes, StyleLists
  <2>2. changes' \in 0 .. StyleChanges
    BY <1>1, <1>2, ConstantsAssumption DEF Style!SetStyle, StyleTypes, Style!ConstantsOK
  <2>3. /\ Style!ParseStyle(new) /\ UNCHANGED <<Style!portVars, bitrate, n_elems>>
        /\ call' \in [Threads -> {Style!NoCall} \union
                                 [id : Ids, enable : BOOLEAN, read : StyleLists]]
    BY <1>1, <1>2 DEF Style!SetStyle, StyleTypes
  <2> HIDE DEF new
  <2> QED  BY <2>1, <2>2, <2>3, Styled
<1>3. ASSUME NEW t \in Threads, NEW id \in Ids, NEW enable \in BOOLEAN,
             Style!ReadStyle(t, id, enable)
      PROVE  StyleInv'
  <2>1. changes' \in 0 .. StyleChanges
    BY <1>1, <1>3, ConstantsAssumption DEF Style!ReadStyle, StyleTypes, Style!ConstantsOK
  <2>2. call' = [call EXCEPT ![t] = [id |-> id, enable |-> enable, read |-> views]]
        /\ UNCHANGED <<ports, input, eos_managed, padEos, elements, idles, bitrate, n_elems,
                       views, viewId, place, overlay, stale>>
    BY <1>3 DEF Style!ReadStyle, Style!portVars, Style!drawn
  <2>3. StyleTypes'
    BY <1>1, <2>1, <2>2 DEF StyleTypes
  <2>4. StyleLives' /\ StyleCounts' /\ Style!Inputs' = Style!Inputs
    BY <1>1, <2>2 DEF StyleLives, StyleCounts, WithInput, Style!Inputs
  <2> QED  BY <1>1, <2>2, <2>3, <2>4, NotRedrawn DEF StyleInv
<1>4. ASSUME NEW t \in Threads, Style!WriteStyle(t) PROVE StyleInv'
  <2> DEFINE read == call[t].read
             v == CHOOSE w \in Style!Views : /\ read[w].id = call[t].id
                                             /\ \A u \in Style!Views : read[u].id = call[t].id
                                                  => w <= u
             new == [read EXCEPT ![v].enable = call[t].enable]
  <2>1. call[t] \in [id : Ids, enable : BOOLEAN, read : StyleLists]
    BY <1>1, <1>4 DEF Style!WriteStyle, StyleTypes
  <2>2. /\ Style!ParseStyle(new) /\ UNCHANGED <<Style!portVars, bitrate, n_elems, changes>>
        /\ call' = [call EXCEPT ![t] = Style!NoCall]
    BY <1>4 DEF Style!WriteStyle
  <2> HIDE DEF v
  <2>3. new \in StyleLists
    BY <2>1 DEF StyleLists
  <2>4. /\ changes' \in 0 .. StyleChanges
        /\ call' \in [Threads -> {Style!NoCall} \union
                                 [id : Ids, enable : BOOLEAN, read : StyleLists]]
    BY <1>1, <2>2 DEF StyleTypes
  <2> HIDE DEF new
  <2> QED  BY <2>2, <2>3, <2>4, Styled
<1>5. CASE UNCHANGED Style!vars
  <2>1. UNCHANGED <<ports, input, eos_managed, padEos, elements, idles, bitrate, n_elems,
                    views, viewId, place, overlay, call, changes, stale>>
    BY <1>5 DEF Style!vars, Style!portVars, Style!drawn
  <2>2. StyleTypes' /\ StyleLives' /\ StyleCounts' /\ Style!Inputs' = Style!Inputs
    BY <1>1, <2>1 DEF StyleTypes, StyleLives, StyleCounts, WithInput, Style!Inputs
  <2> QED  BY <1>1, <2>1, <2>2, NotRedrawn DEF StyleInv
<1> QED  BY <1>2, <1>3, <1>4, <1>5, StylePortStep DEF Style!Next

LEMMA StyleInit == ASSUME Style!Init PROVE StyleInv
<1>1. /\ ports = {} /\ n_elems = 0 /\ input = [p \in Style!Ports |-> FALSE]
      /\ overlay = [enable |-> 0, bars |-> {}]
      /\ views = [v \in Style!Views |-> [id |-> Style!NoId, enable |-> TRUE]]
      /\ place = [p \in Style!Ports |-> Style!Transparent]
  BY DEF Style!Init
<1>2. overlay \in Overlays /\ views \in StyleLists
  BY <1>1 DEF Overlays, StyleLists
<1>3. Style!Transparent \in [column : 0 .. ViewCount, columns : 0 .. ViewCount]
  BY PortsAre DEF Style!Transparent
<1>4. place \in Places
  BY <1>1, <1>3 DEF Places
<1>5. /\ bitrate \in [Style!Ports -> Ids \union {0}] /\ viewId \in [Style!Ports -> Ids \union {0}]
      /\ idles \in [Style!Ports -> 0 .. 1] /\ elements \in [Style!Ports -> {"none", "in", "out"}]
  BY DEF Style!Init
<1>6. changes \in 0 .. StyleChanges
  <2>1. changes = 0
    BY DEF Style!Init
  <2> QED  BY <2>1, ConstantsAssumption DEF Style!ConstantsOK
<1>7. call \in [Threads -> {Style!NoCall} \union [id : Ids, enable : BOOLEAN, read : StyleLists]]
  BY DEF Style!Init
<1>8. eos_managed \in [Style!Ports -> BOOLEAN] /\ padEos \in [Style!Ports -> BOOLEAN]
  BY DEF Style!Init
<1>9. StyleTypes
  <2>1. ports \in SUBSET Style!Ports /\ input \in [Style!Ports -> BOOLEAN] /\ stale \in BOOLEAN
    BY <1>1 DEF Style!Init
  <2> QED  BY <1>2, <1>4, <1>5, <1>6, <1>7, <1>8, <2>1, Zenon DEF StyleTypes
<1>10. StyleLives
  BY <1>1 DEF Style!Init, StyleLives
<1>11. StyleCounts
  BY <1>1, FS_EmptySet DEF StyleCounts, WithInput
<1>12. Style!ViewsAsAsked
  BY <1>1 DEF Style!ViewsAsAsked, Style!Shown, Style!Inputs
<1> QED  BY <1>9, <1>10, <1>11, <1>12 DEF StyleInv

-----------------------------------------------------------------------------
(* The theorems. *)

(* Of the hubs of RoutingHubs by themselves, started in any of their kinds: *)
(* types, and for any interleaving of threads that add, remove and connect  *)
(* ports, the routes are those that were asked for.                         *)
THEOREM RoutesAreKept == Spec => [](TypeOK /\ RoutesAsAsked)
<1>1. RoutingInv => TypeOK /\ RoutesAsAsked
    BY DEF RoutingInv
<1> QED  BY <1>1, RoutingInit, RoutingStep, PTL DEF Spec

(* The element that is explored keeps its invariant; the others are idle.   *)
IInv ==
    /\ element = "routing" => RoutingInv
    /\ element = "alpha" => AlphaInv
    /\ element = "rtp" => KeysInv /\ Scanned /\ RtpFits
    /\ element = "style" => StyleInv

LEMMA ElementsInit == MCInit => IInv
<1> SUFFICES ASSUME MCInit PROVE IInv
    OBVIOUS
<1>1. CASE element = "style"
    BY <1>1, StyleInit DEF MCInit, IInv
<1>2. CASE element = "alpha"
    BY <1>2, AlphaInit, ConstantsAssumption DEF MCInit, IInv
<1>3. CASE element = "routing"
    BY <1>3, RoutingInit DEF MCInit, IInv
<1>4. CASE element = "rtp"
    BY <1>4, KeysInit, ScanInit, FitsInit, ConstantsAssumption DEF MCInit, RtpInit, IInv
<1> QED  BY <1>1, <1>2, <1>3, <1>4 DEF MCInit

LEMMA ElementsStep == IInv /\ [MCNext]_all => IInv'
<1> SUFFICES ASSUME IInv, [MCNext]_all PROVE IInv'
    OBVIOUS
<1> USE DEF IInv
<1>1. element' = element
    BY DEF MCNext, all
<1>2. CASE element = "routing"
  <2>1. [Next]_vars
    BY <1>2 DEF MCNext, all
  <2> QED  BY <1>1, <1>2, <2>1, RoutingStep
<1>3. CASE element = "alpha"
  <2>1. Alpha!Next \/ UNCHANGED Alpha!vars
    BY <1>3 DEF MCNext, all, portVars, alphaVars, Alpha!vars, Alpha!portVars
  <2> QED  BY <1>1, <1>3, <2>1, AlphaStep, ConstantsAssumption
<1>4. CASE element = "rtp"
  <2>1. Rtp!Next \/ UNCHANGED Rtp!vars
    BY <1>4 DEF MCNext, all, rtpVars, Rtp!vars, Rtp!config, Rtp!world, Rtp!sdp, Rtp!events
  <2> QED  BY <1>1, <1>4, <2>1, KeysStep, ScanStep, FitsStep, ConstantsAssumption
<1>5. CASE element = "style"
  <2>1. Style!Next \/ UNCHANGED Style!vars
    BY <1>5
    DEF MCNext, all, portVars, styleVars, Style!vars, Style!portVars, Style!drawn
  <2> QED  BY <1>1, <1>5, <2>1, StyleStep
<1>6. CASE element \notin {"routing", "alpha", "rtp", "style"}
    BY <1>1, <1>6
<1> QED  BY <1>2, <1>3, <1>4, <1>5, <1>6

(* The inductive invariant of the elements. *)
THEOREM InductiveInvariant == MCSpec => []IInv
  BY ElementsInit, ElementsStep, PTL DEF MCSpec

(* The types of every element: among them, that the connections of an RTP   *)
(* endpoint hold pairs of ports one of which is in the range, announce the  *)
(* even one of them, and have at most two handlers of a soft limit; and that *)
(* the idle callbacks of a port of the style mixer are at most one.         *)
THEOREM ElementTypes == MCSpec => []Types
<1>1. IInv => Types
  <2>1. element = "style" /\ IInv => Style!TypeOK
    BY StyleInvTypes DEF IInv
  <2>2. element = "alpha" /\ IInv => Alpha!TypeOK
    BY AlphaShows, ConstantsAssumption DEF IInv
  <2>3. element = "routing" /\ IInv => TypeOK
    BY DEF IInv, RoutingInv
  <2>4. element = "rtp" /\ IInv => Rtp!TypeOK
    BY RtpTypes DEF IInv
  <2> QED  BY <2>1, <2>2, <2>3, <2>4 DEF Types
<1> QED  BY <1>1, InductiveInvariant, PTL

(* The hubs that route, as MCElements runs them.                            *)
THEOREM RoutedAsAsked == MCSpec => []Routed
<1>1. IInv => Routed
    BY DEF IInv, RoutingInv, Routed
<1> QED  BY <1>1, InductiveInvariant, PTL

(* The pictures of the alpha blending hub: whoever becomes master, comes    *)
(* with which size, and is placed where, all are scaled to the one output,  *)
(* no crop reaches past its picture, and at most one port is the master.    *)
THEOREM PicturesFit == MCSpec => []OneSize
<1>1. IInv => OneSize
    BY AlphaShows, ConstantsAssumption DEF IInv, OneSize
<1> QED  BY <1>1, InductiveInvariant, PTL

(* The style composite mixer: whatever ports come and go, whatever bitrates *)
(* they have and views are set, shown and hidden, from any threads, no two  *)
(* ports are drawn in one column; and where nothing is stale, an enabled    *)
(* view shows the first port of its own, a hidden one none, and no port is  *)
(* left out while a view is empty.                                          *)
THEOREM ViewsAreAsAsked == MCSpec => []ViewsAsAsked
<1>1. IInv => ViewsAsAsked
    BY DEF IInv, StyleInv, ViewsAsAsked
<1> QED  BY <1>1, InductiveInvariant, PTL

(* The RTP endpoint, for every word of ports and every range in it, ports   *)
(* that others take and free, and keys that a peer offers: a medium is      *)
(* refused for want of ports only when no pair of the range was free        *)
(* throughout (in a range that begins with an even port), and what a        *)
(* connection encrypts and decrypts with is what was announced.             *)
THEOREM MediaAreReachable == MCSpec => []MediaReachable
<1>1. IInv => MediaReachable
    BY KeysShow, ConstantsAssumption DEF IInv, MediaReachable, Rtp!MediaReachable, Scanned
<1> QED  BY <1>1, InductiveInvariant, PTL

===================================================================================
