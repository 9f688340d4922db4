---------------------------- MODULE ChannelTableProofs ----------------------------
(***************************************************************************)
(* Theorems about the data channels of a WebRTC session, for every set of  *)
(* stream identifiers and every number of channels, messages and calls:    *)
(* the table of the session holds what the bin holds, and the application  *)
(* hears of a channel once and in order.                                   *)
(***************************************************************************)
EXTENDS ChannelTable, TLAPS

(* One thread adds the data session, once. *)
Attached ==
    /\ hook = "attach" => attaching /\ key # "attach" /\ sessions = 0
    /\ key = "attach" => attaching /\ hook # "attach" /\ sessions = 0
    /\ sessions # 0 => attaching

(* There is an element left for a call that creates one. *)
Room == call.op = "create" => made < MaxBins

(* An element is in the bin's table under its own identifier, from before   *)
(* its pad to the removal of the pad, and opens only with a pad.            *)
Owned(i) ==
    /\ data_channels[i] # NoBin => id[data_channels[i]] = i /\ data_channels[i] <= made
    /\ pad[i] # NoBin => data_channels[i] = pad[i]
    /\ data_channels[i] # NoBin /\ state[data_channels[i]] = "open" => pad[i] # NoBin

(* The handler of a pad runs while the pad is there. *)
Handled(i) ==
    /\ pc[i] # "idle" => pad[i] # NoBin
    /\ pc[i] = "emit" => table[i] = pad[i]

(* An entry belongs to the channel of the pad, or to one being closed. *)
Entered(i) ==
    /\ pad[i] # NoBin => table[i] \in {NoBin, pad[i]}
    /\ pad[i] = NoBin /\ table[i] # NoBin =>
         \E c \in closing : c.id = i /\ c.bin = table[i] /\ c.stolen = NoBin
    /\ pad[i] # NoBin /\ pc[i] = "idle" /\ state[pad[i]] = "open" => table[i] = pad[i]
    /\ table[i] # NoBin => table[i] \in opened \/ pc[i] = "emit"

(* A worker that keeps the mutex has a pad to remove, or is in the callback. *)
Held(i) == mutex = i => pad[i] # NoBin \/ \E c \in closing : c.id = i /\ c.by = "worker"

(* A closed callback has a channel without a pad, and no thread is in two.  *)
Closing(c) ==
    /\ pad[c.id] = NoBin /\ id[c.bin] = c.id /\ c.bin <= made
    /\ c.by = "worker" => mutex = c.id
    /\ c.stolen \in {NoBin, c.bin} /\ (c.stolen # NoBin => c.stolen \in opened)
    /\ \A d \in closing : c.by = d.by \/ c.id = d.id => c = d

(* What was told as opened was made, with its identifier. *)
Known == \A b \in opened : b <= made /\ id[b] \in StreamIds

Agreed ==
    /\ Known /\ ToldInOrder
    /\ \A i \in StreamIds : Owned(i) /\ Handled(i) /\ Entered(i) /\ Held(i)
    /\ \A c \in closing : Closing(c)

ChannelInv == ConstantsOK /\ TypeOK /\ Attached /\ Room /\ Agreed

-----------------------------------------------------------------------------

(* An identifier is not one of the marks. *)
LEMMA Ids ==
    ConstantsOK => /\ \A i \in StreamIds : i \in Nat /\ i # Free /\ i # App
                   /\ NoBin \notin Bins
  BY DEF ConstantsOK, Free, App, NoBin, Bins

LEMMA ChannelInit == ConstantsOK /\ Init => ChannelInv
<1> SUFFICES ASSUME ConstantsOK, Init PROVE ChannelInv
    OBVIOUS
<1>1. TypeOK
  <2>1. /\ made \in 0 .. MaxBins /\ calls \in 0 .. MaxCalls /\ sessions \in 0 .. 1
    BY DEF ConstantsOK, Init
  <2>2. /\ id \in [Bins -> StreamIds \union {0}] /\ jobs \in [Bins -> Nat]
        /\ state \in [Bins -> {"new", "connecting", "open", "closing"}]
        /\ {data_channels, pad, table} \subseteq [StreamIds -> Bins \union {NoBin}]
        /\ pc \in [StreamIds -> {"idle", "negotiated", "opened", "reject", "get", "emit"}]
    BY DEF Init
  <2>3. /\ key \in {"no", "connected", "attach", "signalled"}
        /\ hook \in {"no", "created", "handler", "attach", "waiting"}
        /\ attaching \in BOOLEAN /\ call = Idle
        /\ sdp_mutex = Free /\ mutex = Free /\ closing = {} /\ opened \union closed = {}
    BY DEF Init
  <2> QED  BY <2>1, <2>2, <2>3 DEF TypeOK
<1>2. Attached /\ Room
    BY DEF Init, Attached, Room, Idle
<1>3. Agreed
  <2>1. \A i \in StreamIds : Owned(i) /\ Handled(i) /\ Entered(i) /\ Held(i)
    BY Ids DEF Init, Owned, Handled, Entered, Held
  <2> QED  BY <2>1 DEF Init, Agreed, Known, ToldInOrder
<1> QED  BY <1>1, <1>2, <1>3 DEF ChannelInv

(* A step that leaves the elements, the tables and the callbacks alone.     *)
LEMMA TablesAreApart ==
    ASSUME Agreed, UNCHANGED <<element, bin, pc, table, closing, mutex, told>>
    PROVE  Agreed'
  BY DEF Agreed, Known, Owned, Handled, Entered, Held, Closing, ToldInOrder, element, bin, told

LEMMA HookupStep == ASSUME ChannelInv, Hookup PROVE ChannelInv'
<1> USE DEF element, bin, told, locks, app
<1>1. UNCHANGED <<element, bin, pc, table, jobs, closing, locks, app, msgs, told>>
    BY DEF Hookup, CreateSession, ConnectHandler, AskConnected, KeySet, Connected,
           AddDataSession
<1>2. Attached' /\ sessions' \in 0 .. 1
  <2>1. CASE AddDataSession
    <3>1. sessions = 0 /\ attaching /\ (hook = "attach" \/ key = "attach")
      BY <2>1 DEF ChannelInv, Attached, AddDataSession
    <3>2. sessions' = 1 /\ attaching' = attaching /\ hook' # "attach" /\ key' # "attach"
      BY <2>1, <3>1 DEF ChannelInv, Attached, AddDataSession
    <3> QED  BY <3>1, <3>2 DEF Attached
  <2>2. CASE ~AddDataSession
    <3>1. sessions' = sessions
      BY <2>2 DEF Hookup, CreateSession, ConnectHandler, AskConnected, KeySet, Connected
    <3>2. Attached'
      BY <2>2, <3>1 DEF ChannelInv, TypeOK, Attached, Hookup, CreateSession, ConnectHandler,
           AskConnected, KeySet, Connected
    <3> QED  BY <3>1, <3>2 DEF ChannelInv, TypeOK
  <2> QED  BY <2>1, <2>2
<1>3. /\ key' \in {"no", "connected", "attach", "signalled"}
      /\ hook' \in {"no", "created", "handler", "attach", "waiting"}
      /\ attaching' \in BOOLEAN
    BY DEF ChannelInv, TypeOK, Hookup, CreateSession, ConnectHandler, AskConnected, KeySet,
           Connected, AddDataSession
<1>4. TypeOK'
    BY <1>1, <1>2, <1>3 DEF ChannelInv, TypeOK
<1>5. Room' /\ Agreed'
    BY <1>1, TablesAreApart DEF ChannelInv, Room
<1> QED  BY <1>2, <1>4, <1>5 DEF ChannelInv

(* What an entry of the tables is. *)
LEMMA EntriesAreKnown ==
    ASSUME ChannelInv, NEW i \in StreamIds
    PROVE  /\ data_channels[i] \in Bins \union {NoBin} /\ pad[i] \in Bins \union {NoBin}
           /\ table[i] \in Bins \union {NoBin}
           /\ data_channels[i] # NoBin => id[data_channels[i]] = i /\ data_channels[i] <= made
           /\ pad[i] # NoBin => id[pad[i]] = i /\ pad[i] <= made /\ data_channels[i] = pad[i]
           /\ table[i] # NoBin => id[table[i]] = i /\ table[i] <= made
<1>1. /\ data_channels \in [StreamIds -> Bins \union {NoBin}]
      /\ pad \in [StreamIds -> Bins \union {NoBin}]
      /\ table \in [StreamIds -> Bins \union {NoBin}]
    BY DEF ChannelInv, TypeOK
<1>2. /\ data_channels[i] # NoBin => id[data_channels[i]] = i /\ data_channels[i] <= made
      /\ pad[i] # NoBin => data_channels[i] = pad[i]
    BY DEF ChannelInv, Agreed, Owned
<1>3. table[i] # NoBin => id[table[i]] = i /\ table[i] <= made
  <2>1. CASE pad[i] # NoBin
    BY <1>2, <2>1 DEF ChannelInv, Agreed, Entered
  <2>2. CASE pad[i] = NoBin
    BY <2>2 DEF ChannelInv, Agreed, Entered, Closing
  <2> QED  BY <2>1, <2>2
<1> QED  BY <1>1, <1>2, <1>3

(* Another element, under an identifier that is free; sctpdec may have the  *)
(* pad already, which it adds when no channel is being closed.              *)
LEMMA NewElementKeeps ==
    ASSUME ChannelInv, NEW i \in StreamIds, NEW s \in {"new", "connecting"},
           made < MaxBins, data_channels[i] = NoBin, NewElement(i, s),
           pad' = pad \/ (closing = {} /\ pad' = [pad EXCEPT ![i] = made']),
           UNCHANGED <<pc, table, closing, mutex, told>>
    PROVE  /\ made' \in 0 .. MaxBins /\ id' \in [Bins -> StreamIds \union {0}]
           /\ state' \in [Bins -> {"new", "connecting", "open", "closing"}]
           /\ {data_channels', pad'} \subseteq [StreamIds -> Bins \union {NoBin}]
           /\ Agreed'
<1> DEFINE n == made + 1
<1>1. n \in Bins /\ made \in 0 .. MaxBins /\ made' = n /\ n \in 0 .. MaxBins /\ n # NoBin
    BY DEF ConstantsOK, ChannelInv, TypeOK, Bins, NewElement, NoBin
<1>2. /\ id' = [id EXCEPT ![n] = i] /\ state' = [state EXCEPT ![n] = s]
      /\ data_channels' = [data_channels EXCEPT ![i] = n]
    BY DEF NewElement
<1>3. /\ id \in [Bins -> StreamIds \union {0}]
      /\ state \in [Bins -> {"new", "connecting", "open", "closing"}]
      /\ data_channels \in [StreamIds -> Bins \union {NoBin}]
      /\ pad \in [StreamIds -> Bins \union {NoBin}]
      /\ opened \subseteq Bins
      /\ \A c \in closing : c.bin \in Bins /\ c.id \in StreamIds
    BY DEF ChannelInv, TypeOK
<1>4. /\ id' \in [Bins -> StreamIds \union {0}]
      /\ state' \in [Bins -> {"new", "connecting", "open", "closing"}]
      /\ data_channels' \in [StreamIds -> Bins \union {NoBin}]
      /\ pad' \in [StreamIds -> Bins \union {NoBin}]
    BY <1>1, <1>2, <1>3
<1>5. /\ \A b \in Bins : b <= made => id'[b] = id[b] /\ state'[b] = state[b]
      /\ id'[n] = i /\ state'[n] = s
  <2>1. \A b \in Bins : b <= made => b # n
    BY <1>1 DEF Bins
  <2> QED  BY <1>1, <1>2, <1>3, <2>1
<1>6. /\ \A j \in StreamIds : j # i => data_channels'[j] = data_channels[j] /\ pad'[j] = pad[j]
      /\ data_channels'[i] = n /\ pad'[i] \in {n, NoBin}
      /\ pad'[i] # NoBin => closing = {}
      /\ pad[i] = NoBin /\ pc[i] = "idle"
  <2>1. pad[i] = NoBin /\ pc[i] = "idle"
    BY DEF ChannelInv, Agreed, Owned, Handled
  <2> QED  BY <1>1, <1>2, <1>3, <2>1
<1>7. ASSUME NEW j \in StreamIds PROVE (Owned(j) /\ Handled(j) /\ Entered(j) /\ Held(j))'
  <2>1. Owned(j) /\ Handled(j) /\ Entered(j) /\ Held(j)
    BY DEF ChannelInv, Agreed
  <2>2. CASE j = i
    <3>1. Owned(j)'
      BY <1>1, <1>5, <1>6, <2>2 DEF Owned
    <3>2. Handled(j)' /\ Held(j)'
      BY <1>6, <2>1, <2>2 DEF Handled, Held
    <3>3. table[i] # NoBin => pad'[i] = NoBin
      BY <1>6, <2>1, <2>2 DEF Entered
    <3>4. Entered(j)'
      BY <1>5, <1>6, <2>1, <2>2, <3>3 DEF Entered, told
    <3> QED  BY <3>1, <3>2, <3>4
  <2>3. CASE j # i
    <3>1. data_channels'[j] = data_channels[j] /\ pad'[j] = pad[j]
      BY <1>6, <2>3
    <3>2. /\ data_channels[j] # NoBin => /\ id'[data_channels[j]] = id[data_channels[j]]
                                         /\ state'[data_channels[j]] = state[data_channels[j]]
                                         /\ data_channels[j] <= made'
          /\ pad[j] # NoBin => data_channels[j] = pad[j]
      BY <1>1, <1>5, EntriesAreKnown DEF Bins
    <3> QED  BY <2>1, <3>1, <3>2 DEF Owned, Handled, Entered, Held, told
  <2> QED  BY <2>2, <2>3
<1>8. ASSUME NEW c \in closing PROVE Closing(c)'
  <2>1. Closing(c) /\ c.bin \in Bins /\ c.id \in StreamIds
    BY <1>3 DEF ChannelInv, Agreed
  <2>2. pad'[c.id] = NoBin
    BY <1>6, <2>1 DEF Closing
  <2>3. id'[c.bin] = id[c.bin] /\ c.bin <= made'
    BY <1>1, <1>5, <2>1 DEF Closing, Bins
  <2> QED  BY <2>1, <2>2, <2>3 DEF Closing, told
<1>9. Known' /\ ToldInOrder'
  <2>1. \A b \in opened : b <= made /\ id[b] \in StreamIds /\ id'[b] = id[b] /\ b <= made'
    BY <1>1, <1>3, <1>5 DEF ChannelInv, Agreed, Known, Bins
  <2> QED  BY <2>1 DEF ChannelInv, Agreed, Known, ToldInOrder, told
<1> QED  BY <1>1, <1>4, <1>7, <1>8, <1>9 DEF Agreed

(* A reset closes an element that is connecting or open, and opens none.    *)
LEMMA ResetCloses ==
    ASSUME TypeOK, NEW b \in Bins \union {NoBin}, Reset(b)
    PROVE  /\ state' \in [Bins -> {"new", "connecting", "open", "closing"}]
           /\ jobs' \in [Bins -> Nat]
           /\ \A x \in Bins : state'[x] = "open" => state[x] = "open"
           /\ b # NoBin => state'[b] # "open"
<1>1. /\ state \in [Bins -> {"new", "connecting", "open", "closing"}]
      /\ jobs \in [Bins -> Nat]
    BY DEF TypeOK
<1>2. CASE b # NoBin /\ state[b] \in {"connecting", "open"}
  <2>1. state' = [state EXCEPT ![b] = "closing"] /\ jobs' = [jobs EXCEPT ![b] = jobs[b] + 1]
    BY <1>2 DEF Reset
  <2> QED  BY <1>1, <1>2, <2>1
<1>3. CASE ~(b # NoBin /\ state[b] \in {"connecting", "open"})
  <2>1. UNCHANGED <<state, jobs>>
    BY <1>3 DEF Reset
  <2> QED  BY <1>1, <1>3, <2>1
<1> QED  BY <1>2, <1>3

(* The application: it calls, takes the SDP lock, creates and destroys.     *)
LEMMA CallStep ==
    ASSUME ChannelInv,
           Call("create", 0) \/ CallLocks \/ \E i \in StreamIds : Call("destroy", i)
    PROVE  ChannelInv'
<1> USE DEF hookup, element, bin, told
<1>1. UNCHANGED <<hookup, element, bin, pc, table, jobs, closing, mutex, msgs, told>>
    BY DEF Call, CallLocks, locks
<1>2. /\ calls' \in 0 .. MaxCalls
      /\ call' = Idle \/ call'.op = "create" \/ (call'.op = "destroy" /\ call'.id \in StreamIds)
      /\ call'.op = "create" => made < MaxBins
      /\ sdp_mutex' \in StreamIds \union {Free, App}
  <2>1. CASE Call("create", 0) \/ \E i \in StreamIds : Call("destroy", i)
    <3>1. calls < MaxCalls /\ calls' = calls + 1 /\ sdp_mutex' = sdp_mutex
      BY <2>1 DEF Call, locks
    <3>2. calls' \in 0 .. MaxCalls
      BY <3>1 DEF ConstantsOK, ChannelInv, TypeOK
    <3> QED  BY <2>1, <3>1, <3>2 DEF ChannelInv, TypeOK, Call
  <2>2. CASE CallLocks
    BY <2>2 DEF ChannelInv, TypeOK, Room, CallLocks, app
  <2> QED  BY <2>1, <2>2
<1>3. TypeOK'
    BY <1>1, <1>2 DEF ChannelInv, TypeOK
<1>4. Attached' /\ Room' /\ Agreed'
    BY <1>1, <1>2, TablesAreApart DEF ChannelInv, Attached, Room
<1> QED  BY <1>3, <1>4 DEF ChannelInv

LEMMA CreateStep == ASSUME ChannelInv, Create PROVE ChannelInv'
<1> USE DEF hookup, element, told
<1>1. /\ UNCHANGED <<hookup, pad, pc, table, jobs, closing, mutex, msgs, told>>
      /\ call' = Idle /\ sdp_mutex' = Free /\ calls' = calls /\ call.op = "create"
    BY DEF Create, Return
<1>2. CASE \E i \in Own : data_channels[i] = NoBin
  <2>1. PICK i \in StreamIds : data_channels[i] = NoBin /\ NewElement(i, "connecting")
    BY <1>2 DEF Create, StreamIds
  <2>2. /\ made' \in 0 .. MaxBins /\ id' \in [Bins -> StreamIds \union {0}]
        /\ state' \in [Bins -> {"new", "connecting", "open", "closing"}]
        /\ {data_channels', pad'} \subseteq [StreamIds -> Bins \union {NoBin}]
        /\ Agreed'
    BY <1>1, <2>1, NewElementKeeps DEF ChannelInv, Room
  <2>3. TypeOK'
    BY <1>1, <2>2 DEF ChannelInv, TypeOK
  <2> QED  BY <1>1, <2>2, <2>3 DEF ChannelInv, Attached, Room, Idle
<1>3. CASE ~\E i \in Own : data_channels[i] = NoBin
  <2>1. UNCHANGED <<element, data_channels>>
    BY <1>3 DEF Create
  <2>2. TypeOK'
    BY <1>1, <2>1 DEF ChannelInv, TypeOK
  <2>3. Agreed'
    BY <1>1, <2>1, TablesAreApart DEF ChannelInv, bin
  <2> QED  BY <1>1, <2>2, <2>3 DEF ChannelInv, Attached, Room, Idle
<1> QED  BY <1>2, <1>3

(* Nothing opens, as far as the tables are concerned. *)
LEMMA NothingOpens ==
    ASSUME ChannelInv, UNCHANGED <<made, id, bin, pc, table, closing, mutex, told>>,
           \A x \in Bins : state'[x] = "open" => state[x] = "open"
    PROVE  Agreed'
<1> USE DEF bin, told
<1>1. ASSUME NEW i \in StreamIds PROVE (Owned(i) /\ Handled(i) /\ Entered(i) /\ Held(i))'
  <2>1. Owned(i) /\ Handled(i) /\ Entered(i) /\ Held(i)
    BY DEF ChannelInv, Agreed
  <2>2. Owned(i)'
    BY <2>1, EntriesAreKnown DEF Owned
  <2>3. Handled(i)' /\ Held(i)'
    BY <2>1 DEF Handled, Held
  <2>4. Entered(i)'
    BY <2>1, EntriesAreKnown DEF Entered
  <2> QED  BY <2>2, <2>3, <2>4
<1>2. ASSUME NEW c \in closing PROVE Closing(c)'
    BY <1>2 DEF ChannelInv, Agreed, Closing
<1> QED  BY <1>1, <1>2 DEF ChannelInv, Agreed, Known, ToldInOrder

LEMMA DestroyStep == ASSUME ChannelInv, Destroy PROVE ChannelInv'
<1> USE DEF hookup, told
<1>1. /\ UNCHANGED <<hookup, made, id, bin, pc, table, closing, mutex, msgs, told>>
      /\ call' = Idle /\ sdp_mutex' = Free /\ calls' = calls
      /\ call.op = "destroy" /\ Reset(data_channels[call.id])
    BY DEF Destroy, Return
<1>2. data_channels[call.id] \in Bins \union {NoBin}
    BY <1>1 DEF ChannelInv, TypeOK, Idle
<1>3. /\ state' \in [Bins -> {"new", "connecting", "open", "closing"}]
      /\ jobs' \in [Bins -> Nat]
      /\ \A x \in Bins : state'[x] = "open" => state[x] = "open"
    BY <1>1, <1>2, ResetCloses DEF ChannelInv
<1>4. TypeOK'
    BY <1>1, <1>3 DEF ChannelInv, TypeOK, bin
<1>5. Agreed'
    BY <1>1, <1>3, NothingOpens
<1> QED  BY <1>1, <1>4, <1>5 DEF ChannelInv, Attached, Room, Idle

(* The stream of a channel: its pad and the messages. *)
LEMMA PadAddedStep ==
    ASSUME ChannelInv, NEW i \in StreamIds, PadAdded(i)
    PROVE  ChannelInv'
<1> USE DEF hookup, element, told, locks, app
<1>1. /\ UNCHANGED <<hookup, pc, table, jobs, closing, locks, app, msgs, told>>
      /\ pad[i] = NoBin /\ mutex = Free /\ SctpThreadFree
    BY DEF PadAdded
<1>2. closing = {}
    BY <1>1, Ids DEF ChannelInv, TypeOK, Agreed, Closing, SctpThreadFree
<1>3. CASE data_channels[i] # NoBin
  <2>1. pad' = [pad EXCEPT ![i] = data_channels[i]] /\ UNCHANGED <<element, data_channels>>
    BY <1>3 DEF PadAdded
  <2>2. /\ pad \in [StreamIds -> Bins \union {NoBin}] /\ data_channels[i] \in Bins
        /\ pad' \in [StreamIds -> Bins \union {NoBin}]
        /\ \A j \in StreamIds : pad'[j] = IF j = i THEN data_channels[i] ELSE pad[j]
    BY <1>3, <2>1, EntriesAreKnown DEF ChannelInv, TypeOK
  <2>3. TypeOK'
    BY <1>1, <2>1, <2>2 DEF ChannelInv, TypeOK
  <2>4. ASSUME NEW j \in StreamIds PROVE (Owned(j) /\ Handled(j) /\ Entered(j) /\ Held(j))'
    <3>1. Owned(j) /\ Handled(j) /\ Entered(j) /\ Held(j)
      BY DEF ChannelInv, Agreed
    <3> QED  BY <1>1, <1>2, <1>3, <2>1, <2>2, <3>1 DEF Owned, Handled, Entered, Held
  <2>5. Agreed'
    BY <1>1, <1>2, <2>1, <2>4 DEF ChannelInv, Agreed, Known, ToldInOrder
  <2> QED  BY <1>1, <2>1, <2>3, <2>5 DEF ChannelInv, Attached, Room
<1>4. CASE data_channels[i] = NoBin
  <2>1. /\ made < IF call.op = "create" THEN MaxBins - 1 ELSE MaxBins
        /\ NewElement(i, "new") /\ pad' = [pad EXCEPT ![i] = made']
    BY <1>4 DEF PadAdded
  <2>2. made < MaxBins /\ made' = made + 1 /\ (call.op = "create" => made' < MaxBins)
    BY <2>1 DEF ConstantsOK, ChannelInv, TypeOK, NewElement
  <2>3. /\ made' \in 0 .. MaxBins /\ id' \in [Bins -> StreamIds \union {0}]
        /\ state' \in [Bins -> {"new", "connecting", "open", "closing"}]
        /\ {data_channels', pad'} \subseteq [StreamIds -> Bins \union {NoBin}]
        /\ Agreed'
    BY <1>1, <1>2, <1>4, <2>1, <2>2, NewElementKeeps
  <2>4. TypeOK'
    BY <1>1, <2>3 DEF ChannelInv, TypeOK
  <2> QED  BY <1>1, <2>2, <2>3, <2>4 DEF ChannelInv, Attached, Room
<1> QED  BY <1>3, <1>4

(* A handler goes on: only the step and the entry of its stream change.     *)
LEMMA NegotiateStep ==
    ASSUME ChannelInv, NEW i \in StreamIds, Negotiate(i)
    PROVE  ChannelInv'
<1> USE DEF hookup, bin, told, locks, app
<1>1. /\ UNCHANGED <<hookup, made, id, bin, table, jobs, closing, locks, app, told>>
      /\ pad[i] # NoBin /\ pc[i] = "idle"
      /\ state' = [state EXCEPT ![pad[i]] = "open"] /\ pc' = [pc EXCEPT ![i] = "negotiated"]
    BY DEF Negotiate
<1>2. /\ state \in [Bins -> {"new", "connecting", "open", "closing"}] /\ pad[i] \in Bins
      /\ state' \in [Bins -> {"new", "connecting", "open", "closing"}]
      /\ \A b \in Bins : b # pad[i] => state'[b] = state[b]
    BY <1>1, EntriesAreKnown DEF ChannelInv, TypeOK
<1>3. /\ pc' \in [StreamIds -> {"idle", "negotiated", "opened", "reject", "get", "emit"}]
      /\ \A j \in StreamIds : pc'[j] = IF j = i THEN "negotiated" ELSE pc[j]
    BY <1>1 DEF ChannelInv, TypeOK
<1>4. TypeOK'
    BY <1>1, <1>2, <1>3 DEF ChannelInv, TypeOK
<1>5. ASSUME NEW j \in StreamIds PROVE (Owned(j) /\ Handled(j) /\ Entered(j) /\ Held(j))'
  <2>1. Owned(j) /\ Handled(j) /\ Entered(j) /\ Held(j)
    BY DEF ChannelInv, Agreed
  <2>2. data_channels[j] # NoBin /\ j # i => state'[data_channels[j]] = state[data_channels[j]]
    BY <1>1, <1>2, EntriesAreKnown
  <2>3. Owned(j)'
    BY <1>1, <2>1, <2>2 DEF Owned
  <2>4. Handled(j)' /\ Held(j)'
    BY <1>1, <1>3, <2>1 DEF Handled, Held
  <2>5. Entered(j)'
    BY <1>1, <1>3, <2>1, <2>2, EntriesAreKnown DEF Entered
  <2> QED  BY <2>3, <2>4, <2>5
<1>6. ASSUME NEW c \in closing PROVE Closing(c)'
    BY <1>1, <1>6 DEF ChannelInv, Agreed, Closing
<1>7. Agreed'
    BY <1>1, <1>5, <1>6 DEF ChannelInv, Agreed, Known, ToldInOrder
<1> QED  BY <1>1, <1>4, <1>7 DEF ChannelInv, Attached, Room

(* The steps of a handler that open nothing: the pads and the elements stay, *)
(* and what closes goes on.                                                 *)
LEMMA HandlerGoesOn ==
    ASSUME ChannelInv, NEW i \in StreamIds, NEW to \in {"idle", "opened", "reject", "get", "emit"},
           pc[i] # "idle", pc' = [pc EXCEPT ![i] = to],
           UNCHANGED <<made, id, bin, closing, mutex, closed>>,
           \A x \in Bins : state'[x] = "open" => state[x] = "open",
           \/ table' = table
           \/ table' = [table EXCEPT ![i] = data_channels[i]],
           to = "emit" => table'[i] = pad[i],
           to = "idle" => table'[i] = pad[i] \/ state'[pad[i]] # "open",
           pc[i] = "emit" => opened' = opened \union {table[i]} /\ table' = table,
           pc[i] # "emit" => opened' = opened /\ (table' = table \/ to = "emit")
    PROVE  /\ pc' \in [StreamIds -> {"idle", "negotiated", "opened", "reject", "get", "emit"}]
           /\ table' \in [StreamIds -> Bins \union {NoBin}]
           /\ opened' \subseteq Bins
           /\ Agreed'
<1> USE DEF bin
<1>1. /\ pc' \in [StreamIds -> {"idle", "negotiated", "opened", "reject", "get", "emit"}]
      /\ \A j \in StreamIds : pc'[j] = IF j = i THEN to ELSE pc[j]
    BY DEF ChannelInv, TypeOK
<1>2. /\ pad[i] # NoBin /\ data_channels[i] = pad[i] /\ pad[i] \in Bins
      /\ table[i] \in {NoBin, pad[i]} /\ (pc[i] = "emit" => table[i] = pad[i])
      /\ id[pad[i]] = i /\ pad[i] <= made
    BY EntriesAreKnown DEF ChannelInv, Agreed, Handled, Entered
<1>3. /\ table \in [StreamIds -> Bins \union {NoBin}]
      /\ table' \in [StreamIds -> Bins \union {NoBin}]
      /\ \A j \in StreamIds : j # i => table'[j] = table[j]
      /\ table'[i] = table[i] \/ table'[i] = pad[i]
    BY <1>2 DEF ChannelInv, TypeOK
<1>4. opened \subseteq opened' /\ opened' \subseteq opened \union {pad[i]} /\ opened' \subseteq Bins
    BY <1>2 DEF ChannelInv, TypeOK
<1>5. ASSUME NEW j \in StreamIds PROVE (Owned(j) /\ Handled(j) /\ Entered(j) /\ Held(j))'
  <2>1. Owned(j) /\ Handled(j) /\ Entered(j) /\ Held(j)
    BY DEF ChannelInv, Agreed
  <2>2. Owned(j)'
    BY <2>1, EntriesAreKnown DEF Owned
  <2>3. Handled(j)' /\ Held(j)'
    BY <1>1, <1>2, <1>3, <2>1 DEF Handled, Held
  <2>4. CASE j # i
    <3>1. Entered(j)'
      BY <1>1, <1>3, <1>4, <2>1, <2>4, EntriesAreKnown DEF Entered
    <3> QED  BY <2>2, <2>3, <3>1
  <2>5. CASE j = i
    <3>1. pad'[i] # NoBin /\ table'[i] \in {NoBin, pad'[i]}
      BY <1>2, <1>3
    <3>2. pc'[i] = "idle" /\ state'[pad'[i]] = "open" => table'[i] = pad'[i]
      BY <1>1
    <3>3. table'[i] # NoBin => table'[i] \in opened' \/ pc'[i] = "emit"
      <4>1. CASE pc[i] = "emit"
        BY <4>1
      <4>2. CASE pc[i] # "emit"
        BY <1>1, <1>4, <2>1, <2>5, <4>2 DEF Entered
      <4> QED  BY <4>1, <4>2
    <3>4. Entered(j)'
      BY <2>5, <3>1, <3>2, <3>3 DEF Entered
    <3> QED  BY <2>2, <2>3, <3>4
  <2> QED  BY <2>4, <2>5
<1>6. ASSUME NEW c \in closing PROVE Closing(c)'
    BY <1>4, <1>6 DEF ChannelInv, Agreed, Closing
<1>7. Known'
    BY <1>2, <1>4 DEF ChannelInv, Agreed, Known
<1>8. ToldInOrder'
  <2>1. closed' \subseteq opened'
    BY <1>4 DEF ChannelInv, Agreed, ToldInOrder
  <2>2. ASSUME NEW b \in opened' \ closed'
        PROVE  table'[id'[b]] = b \/ \E c \in closing' : c.stolen = b
    <3>1. CASE b \in opened
      <4>1. id[b] \in StreamIds /\ b \in Bins
        BY <3>1 DEF ChannelInv, TypeOK, Agreed, Known
      <4>2. table[id[b]] = b \/ \E c \in closing : c.stolen = b
        BY <2>2, <3>1 DEF ChannelInv, Agreed, ToldInOrder
      <4>3. table[id[b]] = b => table'[id[b]] = b
        BY <1>2, <1>3, <4>1, Ids DEF ChannelInv
      <4> QED  BY <4>2, <4>3
    <3>2. CASE b \notin opened
      BY <1>2, <2>2, <3>2
    <3> QED  BY <3>1, <3>2
  <2> QED  BY <2>1, <2>2 DEF ToldInOrder
<1> QED  BY <1>1, <1>3, <1>4, <1>5, <1>6, <1>7, <1>8 DEF Agreed

LEMMA StreamStep ==
    ASSUME ChannelInv, NEW i \in StreamIds, Stream(i)
    PROVE  ChannelInv'
<1> USE DEF hookup, element, bin, told, app
<1>1. /\ UNCHANGED <<hookup, made, id, bin, closing, mutex, app, msgs, closed>>
      /\ pc[i] # "idle"
    BY DEF Stream, NegotiatedCb, OpenedCb, Reject, Insert, EmitOpened, locks
<1>2. /\ pad[i] # NoBin /\ data_channels[i] = pad[i] /\ pad[i] \in Bins
      /\ (pc[i] = "emit" => table[i] = pad[i])
    BY <1>1, EntriesAreKnown DEF ChannelInv, Agreed, Handled
<1>3. /\ sdp_mutex' \in StreamIds \union {Free, App} /\ mutex' \in StreamIds \union {Free}
    BY <1>1 DEF ChannelInv, TypeOK, Stream, NegotiatedCb, OpenedCb, Reject, Insert, EmitOpened,
           locks
<1>4. CASE NegotiatedCb(i) \/ OpenedCb(i)
  <2>1. /\ pc[i] # "emit" /\ UNCHANGED <<state, table, jobs, opened>>
        /\ \E to \in {"opened", "reject", "get"} : pc' = [pc EXCEPT ![i] = to]
    BY <1>4 DEF NegotiatedCb, OpenedCb
  <2>2. /\ pc' \in [StreamIds -> {"idle", "negotiated", "opened", "reject", "get", "emit"}]
        /\ Agreed'
    BY <1>1, <2>1, HandlerGoesOn
  <2>3. TypeOK'
    BY <1>1, <1>3, <2>1, <2>2 DEF ChannelInv, TypeOK
  <2> QED  BY <1>1, <2>2, <2>3 DEF ChannelInv, Attached, Room
<1>5. CASE Reject(i)
  <2>1. pc[i] # "emit" /\ UNCHANGED <<table, opened>> /\ pc' = [pc EXCEPT ![i] = "idle"]
        /\ Reset(pad[i])
    BY <1>2, <1>5 DEF Reject
  <2>2. /\ state' \in [Bins -> {"new", "connecting", "open", "closing"}]
        /\ jobs' \in [Bins -> Nat]
        /\ \A x \in Bins : state'[x] = "open" => state[x] = "open"
        /\ state'[pad[i]] # "open"
    BY <1>2, <2>1, ResetCloses DEF ChannelInv
  <2>3. /\ pc' \in [StreamIds -> {"idle", "negotiated", "opened", "reject", "get", "emit"}]
        /\ Agreed'
    BY <1>1, <2>1, <2>2, HandlerGoesOn
  <2>4. TypeOK'
    BY <1>1, <1>3, <2>1, <2>2, <2>3 DEF ChannelInv, TypeOK
  <2> QED  BY <1>1, <2>3, <2>4 DEF ChannelInv, Attached, Room
<1>6. CASE Insert(i)
  <2>1. /\ pc[i] # "emit" /\ UNCHANGED <<state, jobs, opened>>
        /\ table' = [table EXCEPT ![i] = data_channels[i]] /\ pc' = [pc EXCEPT ![i] = "emit"]
    BY <1>6 DEF Insert
  <2>2. table'[i] = pad[i]
    BY <1>2, <2>1 DEF ChannelInv, TypeOK
  <2>3. /\ pc' \in [StreamIds -> {"idle", "negotiated", "opened", "reject", "get", "emit"}]
        /\ table' \in [StreamIds -> Bins \union {NoBin}]
        /\ Agreed'
    BY <1>1, <2>1, <2>2, HandlerGoesOn
  <2>4. TypeOK'
    BY <1>1, <1>3, <2>1, <2>3 DEF ChannelInv, TypeOK
  <2> QED  BY <1>1, <2>3, <2>4 DEF ChannelInv, Attached, Room
<1>7. CASE EmitOpened(i)
  <2>1. /\ pc[i] = "emit" /\ UNCHANGED <<state, jobs, table>>
        /\ opened' = opened \union {table[i]} /\ pc' = [pc EXCEPT ![i] = "idle"]
    BY <1>7 DEF EmitOpened
  <2>2. /\ pc' \in [StreamIds -> {"idle", "negotiated", "opened", "reject", "get", "emit"}]
        /\ opened' \subseteq Bins
        /\ Agreed'
    BY <1>1, <1>2, <2>1, HandlerGoesOn
  <2>3. TypeOK'
    BY <1>1, <1>3, <2>1, <2>2 DEF ChannelInv, TypeOK
  <2> QED  BY <1>1, <2>2, <2>3 DEF ChannelInv, Attached, Room
<1> QED  BY <1>4, <1>5, <1>6, <1>7 DEF Stream

-----------------------------------------------------------------------------
(* The end of a channel. *)

(* A worker takes the mutex: no other one is in the closed callback.        *)
LEMMA ResetStreamStep ==
    ASSUME ChannelInv, NEW b \in Bins, ResetStream(b)
    PROVE  ChannelInv'
<1> USE DEF hookup, element, bin, told, app
<1>1. /\ UNCHANGED <<hookup, element, bin, pc, table, closing, sdp_mutex, app, msgs, told>>
      /\ jobs[b] > 0 /\ mutex = Free /\ jobs' = [jobs EXCEPT ![b] = jobs[b] - 1]
      /\ \E i \in StreamIds : mutex' = IF pad[i] = NoBin THEN Free ELSE i
    BY DEF ResetStream
<1>2. jobs' \in [Bins -> Nat]
    BY <1>1 DEF ChannelInv, TypeOK
<1>3. mutex' = Free \/ (mutex' \in StreamIds /\ pad[mutex'] # NoBin)
    BY <1>1
<1>4. TypeOK'
    BY <1>1, <1>2, <1>3 DEF ChannelInv, TypeOK
<1>5. ASSUME NEW i \in StreamIds PROVE (Owned(i) /\ Handled(i) /\ Entered(i) /\ Held(i))'
    BY <1>1, <1>3, Ids DEF ChannelInv, Agreed, Owned, Handled, Entered, Held
<1>6. ASSUME NEW c \in closing PROVE Closing(c)'
  <2>1. c.by # "worker"
    BY <1>1, Ids DEF ChannelInv, TypeOK, Agreed, Closing
  <2> QED  BY <1>1, <2>1 DEF ChannelInv, Agreed, Closing
<1>7. Agreed'
    BY <1>1, <1>5, <1>6 DEF ChannelInv, Agreed, Known, ToldInOrder
<1> QED  BY <1>1, <1>4, <1>7 DEF ChannelInv, Attached, Room

(* The pad goes: from here on its entry belongs to the callback.            *)
LEMMA PadRemovedStep ==
    ASSUME ChannelInv, NEW i \in StreamIds, WorkerRemoves(i) \/ PeerResets(i)
    PROVE  ChannelInv'
<1> USE DEF hookup, element, told, locks, app
<1>1. PICK by \in {"worker", "peer"} :
        /\ PadRemoved(i, by)
        /\ by = "worker" => mutex = i
        /\ by = "peer" => mutex = Free /\ SctpThreadFree
    BY DEF WorkerRemoves, PeerResets
<1> DEFINE r == [by |-> by, id |-> i, bin |-> pad[i], stolen |-> NoBin]
<1>2. /\ UNCHANGED <<hookup, element, pc, table, jobs, locks, app, msgs, told>>
      /\ pad[i] # NoBin /\ pc[i] = "idle"
      /\ pad' = [pad EXCEPT ![i] = NoBin]
      /\ data_channels' = [data_channels EXCEPT ![i] = NoBin]
      /\ closing' = closing \union {r}
    BY <1>1 DEF PadRemoved
<1>3. /\ pad' \in [StreamIds -> Bins \union {NoBin}]
      /\ data_channels' \in [StreamIds -> Bins \union {NoBin}]
      /\ \A j \in StreamIds : /\ pad'[j] = IF j = i THEN NoBin ELSE pad[j]
                              /\ data_channels'[j] = IF j = i THEN NoBin ELSE data_channels[j]
      /\ pad[i] \in Bins /\ id[pad[i]] = i /\ pad[i] <= made
    BY <1>2, EntriesAreKnown DEF ChannelInv, TypeOK
<1>4. r.by = by /\ r.id = i /\ r.bin = pad[i] /\ r.stolen = NoBin
    OBVIOUS
<1>5. closing' \subseteq [by : {"worker", "peer"}, id : StreamIds, bin : Bins,
                          stolen : Bins \union {NoBin}]
    BY <1>2, <1>3 DEF ChannelInv, TypeOK
<1>6. TypeOK'
    BY <1>2, <1>3, <1>5 DEF ChannelInv, TypeOK
<1>7. ASSUME NEW c \in closing
      PROVE  c.id # i /\ c.by # by /\ c.id \in StreamIds /\ Closing(c)
  <2>1. Closing(c) /\ c.id \in StreamIds /\ c.by \in {"worker", "peer"}
    BY DEF ChannelInv, TypeOK, Agreed
  <2>2. c.id # i
    BY <1>2, <2>1 DEF Closing
  <2>3. c.by # by
    BY <1>1, <2>1, <2>2 DEF Closing, SctpThreadFree
  <2> QED  BY <2>1, <2>2, <2>3
<1>8. ASSUME NEW j \in StreamIds PROVE (Owned(j) /\ Handled(j) /\ Entered(j) /\ Held(j))'
  <2>1. Owned(j) /\ Handled(j) /\ Entered(j) /\ Held(j)
    BY DEF ChannelInv, Agreed
  <2>2. CASE j # i
    BY <1>2, <1>3, <2>1, <2>2 DEF Owned, Handled, Entered, Held
  <2>3. CASE j = i
    <3>1. Owned(j)' /\ Handled(j)'
      BY <1>2, <1>3, <2>3 DEF Owned, Handled
    <3>2. r \in closing' /\ (table[i] # NoBin => table[i] = pad[i])
      BY <1>2, <2>1, <2>3 DEF Entered
    <3>3. Entered(j)'
      BY <1>2, <1>3, <1>4, <2>1, <2>3, <3>2 DEF Entered
    <3>4. Held(j)'
      BY <1>1, <1>2, <1>4, <2>3, <3>2, Ids DEF ChannelInv, Held
    <3> QED  BY <3>1, <3>3, <3>4
  <2> QED  BY <2>2, <2>3
<1>9. ASSUME NEW c \in closing' PROVE Closing(c)'
  <2>1. CASE c \in closing
    <3>1. \A d \in closing' : c.by = d.by \/ c.id = d.id => c = d
      BY <1>2, <1>4, <1>7, <2>1 DEF Closing
    <3>2. pad'[c.id] = NoBin
      BY <1>3, <1>7, <2>1 DEF Closing
    <3> QED  BY <1>2, <1>7, <2>1, <3>1, <3>2 DEF Closing
  <2>2. CASE c = r
    <3>1. \A d \in closing' : c.by = d.by \/ c.id = d.id => c = d
      BY <1>2, <1>4, <1>7, <2>2
    <3>2. pad'[c.id] = NoBin /\ id[c.bin] = c.id /\ c.bin <= made /\ c.stolen = NoBin
      BY <1>3, <1>4, <2>2
    <3>3. c.by = "worker" => mutex = c.id
      BY <1>1, <1>4, <2>2
    <3> QED  BY <1>2, <3>1, <3>2, <3>3 DEF Closing
  <2> QED  BY <1>2, <2>1, <2>2
<1>10. Agreed'
    BY <1>2, <1>8, <1>9 DEF ChannelInv, Agreed, Known, ToldInOrder
<1> QED  BY <1>2, <1>6, <1>10 DEF ChannelInv, Attached, Room

(* A callback leaves: its entry is gone, and with it the only reason why    *)
(* the table, or the mutex, needed it.                                      *)
LEMMA CallbackLeaves ==
    ASSUME ChannelInv, NEW c \in closing, closing' = closing \ {c},
           mutex' = IF c.by = "worker" THEN Free ELSE mutex,
           UNCHANGED <<element, bin, pc, opened>>,
           closed' = closed \/ (c.stolen # NoBin /\ closed' = closed \union {c.stolen}),
           table[c.id] = NoBin, table' = table,
           c.stolen = NoBin \/ c.stolen \in closed'
    PROVE  TypeOK' => Agreed'
<1> USE DEF element, bin
<1>1. c.id \in StreamIds /\ Closing(c) /\ c.by \in {"worker", "peer"}
    BY DEF ChannelInv, TypeOK, Agreed
<1>2. ASSUME NEW i \in StreamIds PROVE (Owned(i) /\ Handled(i) /\ Entered(i) /\ Held(i))'
  <2>1. Owned(i) /\ Handled(i) /\ Entered(i) /\ Held(i)
    BY DEF ChannelInv, Agreed
  <2>2. Owned(i)' /\ Handled(i)'
    BY <2>1 DEF Owned, Handled
  <2>3. Entered(i)'
    BY <1>1, <2>1 DEF Entered
  <2>4. Held(i)'
    BY <1>1, <2>1, Ids DEF ChannelInv, Held
  <2> QED  BY <2>2, <2>3, <2>4
<1>3. ASSUME NEW d \in closing' PROVE Closing(d)'
  <2>1. d \in closing /\ d # c /\ Closing(d)
    BY DEF ChannelInv, Agreed
  <2>2. d.by = "worker" => mutex' = d.id
    BY <1>1, <2>1 DEF Closing
  <2> QED  BY <2>1, <2>2 DEF Closing
<1>4. Known'
    BY DEF ChannelInv, Agreed, Known
<1>5. ToldInOrder'
    BY <1>1 DEF ChannelInv, TypeOK, Agreed, ToldInOrder, Closing, NoBin, Bins
<1> QED  BY <1>2, <1>3, <1>4, <1>5 DEF Agreed

LEMMA ClosedStep ==
    ASSUME ChannelInv, NEW c \in closing, ClosedCb(c)
    PROVE  ChannelInv'
<1> USE DEF hookup, element, bin, told, app
<1>1. /\ UNCHANGED <<hookup, element, bin, pc, jobs, sdp_mutex, app, msgs, told>>
      /\ c.stolen = NoBin /\ table' = [table EXCEPT ![c.id] = NoBin]
    BY DEF ClosedCb
<1>2. /\ c \in [by : {"worker", "peer"}, id : StreamIds, bin : Bins,
                stolen : Bins \union {NoBin}]
      /\ Closing(c)
      /\ table \in [StreamIds -> Bins \union {NoBin}]
    BY DEF ChannelInv, TypeOK, Agreed
<1>3. /\ table' \in [StreamIds -> Bins \union {NoBin}]
      /\ \A j \in StreamIds : table'[j] = IF j = c.id THEN NoBin ELSE table[j]
    BY <1>1, <1>2
<1>4. CASE table[c.id] = NoBin
  <2>1. /\ closing' = closing \ {c} /\ mutex' = IF c.by = "worker" THEN Free ELSE mutex
        /\ table' = table
    BY <1>1, <1>2, <1>4 DEF ClosedCb
  <2>2. mutex' \in StreamIds \union {Free}
    BY <2>1 DEF ChannelInv, TypeOK
  <2>3. TypeOK'
    BY <1>1, <1>3, <2>1, <2>2 DEF ChannelInv, TypeOK
  <2>4. Agreed'
    BY <1>1, <1>4, <2>1, <2>3, CallbackLeaves
  <2> QED  BY <1>1, <2>3, <2>4 DEF ChannelInv, Attached, Room
<1>5. CASE table[c.id] # NoBin
  <2> DEFINE e == [c EXCEPT !.stolen = table[c.id]]
  <2>1. closing' = (closing \ {c}) \union {e} /\ mutex' = mutex
    BY <1>5 DEF ClosedCb
  <2>2. table[c.id] = c.bin /\ c.bin \in opened
    <3>1. pad[c.id] = NoBin /\ pc[c.id] = "idle"
      BY <1>2 DEF ChannelInv, Agreed, Handled, Closing
    <3>2. PICK d \in closing : d.id = c.id /\ d.bin = table[c.id]
      BY <1>2, <1>5, <3>1 DEF ChannelInv, Agreed, Entered
    <3>3. d = c
      BY <1>2, <3>2 DEF Closing
    <3> QED  BY <1>2, <1>5, <3>1, <3>2, <3>3 DEF ChannelInv, Agreed, Entered
  <2>3. e.by = c.by /\ e.id = c.id /\ e.bin = c.bin /\ e.stolen = c.bin
    BY <1>2, <2>2
  <2>4. e \in [by : {"worker", "peer"}, id : StreamIds, bin : Bins,
               stolen : Bins \union {NoBin}]
    BY <1>2, <2>2
  <2>5. TypeOK'
    BY <1>1, <1>3, <2>1, <2>4 DEF ChannelInv, TypeOK
  <2>6. ASSUME NEW j \in StreamIds PROVE (Owned(j) /\ Handled(j) /\ Entered(j) /\ Held(j))'
    <3>1. Owned(j) /\ Handled(j) /\ Entered(j) /\ Held(j)
      BY DEF ChannelInv, Agreed
    <3>2. Owned(j)'
      BY <1>1, <3>1 DEF Owned
    <3>3. Handled(j)' /\ Entered(j)'
      <4>1. CASE j = c.id
        BY <1>1, <1>2, <1>3, <3>1, <4>1 DEF Handled, Entered, Closing
      <4>2. CASE j # c.id
        BY <1>1, <1>3, <2>1, <3>1, <4>2 DEF Handled, Entered
      <4> QED  BY <4>1, <4>2
    <3>4. Held(j)'
      BY <1>1, <2>1, <2>3, <3>1 DEF Held
    <3> QED  BY <3>2, <3>3, <3>4
  <2>7. ASSUME NEW d \in closing' PROVE Closing(d)'
    <3>1. \A f \in closing : c.by = f.by \/ c.id = f.id => c = f
      BY <1>2 DEF Closing
    <3>2. CASE d = e
      <4>1. \A f \in closing' : d.by = f.by \/ d.id = f.id => d = f
        BY <2>1, <2>3, <3>1, <3>2
      <4>2. /\ pad[d.id] = NoBin /\ id[d.bin] = d.id /\ d.bin <= made
            /\ d.by = "worker" => mutex = d.id
            /\ d.stolen = d.bin /\ d.stolen \in opened
        BY <1>2, <2>2, <2>3, <3>2 DEF Closing
      <4> QED  BY <1>1, <2>1, <4>1, <4>2 DEF Closing
    <3>3. CASE d \in closing /\ d # c
      <4>1. Closing(d)
        BY <3>3 DEF ChannelInv, Agreed
      <4>2. d.by # e.by /\ d.id # e.id
        BY <2>3, <3>1, <3>3
      <4>3. \A f \in closing' : d.by = f.by \/ d.id = f.id => d = f
        BY <2>1, <4>1, <4>2 DEF Closing
      <4> QED  BY <1>1, <2>1, <4>1, <4>3 DEF Closing
    <3> QED  BY <2>1, <3>2, <3>3
  <2>8. Known' /\ ToldInOrder'
    <3>1. ASSUME NEW b \in opened \ closed
          PROVE  table'[id[b]] = b \/ \E d \in closing' : d.stolen = b
      <4>1. b # NoBin /\ id[b] \in StreamIds
        BY Ids DEF ChannelInv, TypeOK, Agreed, Known
      <4>2. CASE table[id[b]] = b
        BY <1>3, <2>1, <2>2, <2>3, <4>1, <4>2
      <4>3. ASSUME NEW d \in closing, d.stolen = b
            PROVE  d \in closing'
        BY <1>1, <2>1, <4>1, <4>3
      <4> QED  BY <4>2, <4>3 DEF ChannelInv, Agreed, ToldInOrder
    <3> QED  BY <1>1, <3>1 DEF ChannelInv, Agreed, Known, ToldInOrder
  <2>9. Agreed'
    BY <2>6, <2>7, <2>8 DEF Agreed
  <2> QED  BY <1>1, <2>5, <2>9 DEF ChannelInv, Attached, Room
<1> QED  BY <1>4, <1>5

LEMMA EmitClosedStep ==
    ASSUME ChannelInv, NEW c \in closing, EmitClosed(c)
    PROVE  ChannelInv'
<1> USE DEF hookup, element, bin, app
<1>1. /\ UNCHANGED <<hookup, element, bin, pc, table, jobs, sdp_mutex, app, msgs, opened>>
      /\ c.stolen # NoBin /\ closing' = closing \ {c}
      /\ mutex' = IF c.by = "worker" THEN Free ELSE mutex
      /\ closed' = closed \union {c.stolen}
    BY DEF EmitClosed
<1>2. /\ c.id \in StreamIds /\ c.stolen \in Bins /\ Closing(c)
    BY <1>1 DEF ChannelInv, TypeOK, Agreed
<1>3. table[c.id] = NoBin
    BY <1>1, <1>2 DEF ChannelInv, Agreed, Entered, Closing
<1>4. mutex' \in StreamIds \union {Free}
    BY <1>1 DEF ChannelInv, TypeOK
<1>5. TypeOK'
    BY <1>1, <1>2, <1>4 DEF ChannelInv, TypeOK
<1>6. Agreed'
    BY <1>1, <1>3, <1>5, CallbackLeaves
<1> QED  BY <1>1, <1>5, <1>6 DEF ChannelInv, Attached, Room

LEMMA ChannelStutters == ASSUME ChannelInv, UNCHANGED vars PROVE ChannelInv'
<1> USE DEF vars, hookup, element, bin, told, locks, app
<1>1. TypeOK'
    BY DEF ChannelInv, TypeOK
<1> QED  BY <1>1, TablesAreApart DEF ChannelInv, Attached, Room

LEMMA ChannelStep == ChannelInv /\ [Next]_vars => ChannelInv'
  BY HookupStep, CallStep, CreateStep, DestroyStep, PadAddedStep, NegotiateStep, StreamStep,
     ResetStreamStep, PadRemovedStep, ClosedStep, EmitClosedStep, ChannelStutters DEF Next

(* What the invariant says of the session's table. *)
LEMMA EntriesAreBacked == ChannelInv => TableBacked
<1> SUFFICES ASSUME ChannelInv, NEW i \in StreamIds
             PROVE  /\ table[i] # NoBin =>
                         \/ table[i] = pad[i] /\ table[i] = data_channels[i]
                         \/ \E c \in closing : c.id = i /\ c.bin = table[i]
                    /\ pad[i] # NoBin /\ pc[i] = "idle" /\ state[pad[i]] = "open"
                         => table[i] = pad[i]
    BY DEF TableBacked
<1>1. Owned(i) /\ Entered(i)
    BY DEF ChannelInv, Agreed
<1> QED  BY <1>1 DEF Owned, Entered

LEMMA ChannelTyped == ChannelInv => TypeOK
  BY DEF ChannelInv

LEMMA ToldAreInOrder == ChannelInv => ToldInOrder
  BY DEF ChannelInv, Agreed

(* The session's table, the bin, sctpdec's pads and the callbacks under way *)
(* agree in every state, whichever thread of kmswebrtcsession.c goes on.    *)
THEOREM InductiveInvariant == ConstantsOK /\ Spec => []ChannelInv
  BY ChannelInit, ChannelStep, PTL DEF Spec

====================================================================================
