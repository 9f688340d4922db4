--------------------------- MODULE DataSessionProofs ----------------------------
(***************************************************************************)
(* Proofs about DataSession, for every set of stream identifiers, either   *)
(* DTLS role and any number of channels, messages and association changes. *)
(***************************************************************************)
EXTENDS DataSession, SequenceTheorems, TLAPS

\* The streaming thread of a pad runs a handler only of a linked pad.
Running == \A i \in StreamIds : pc[i] # "idle" => pad[i] \in Bins

\* The pad the SCTP thread works on.
Exposing ==
    \A i \in StreamIds :
      /\ SctpAt("adding", i) => pad[i] \in {NoBin, NoPad}
      /\ SctpAt("linking", i) =>
           \/ pad[i] = NoPad
           \/ pad[i] = NoBin /\ table[i] # NoBin /\ table[i] = sctp.channel
      /\ SctpAt("removing", i) => pad[i] = NoPad

\* How the tables, the pads and the channel elements are tied together.
PendingIsLocal == \A b \in Pending : b \in Made /\ Own(id[b])
TableIsMade ==
    \A i \in StreamIds : table[i] # NoBin =>
      table[i] \in Made /\ table[i] \notin Pending /\ id[table[i]] = i
PadIsLinked == \A i \in StreamIds : pad[i] \in Bins => table[i] = pad[i]
Wiring == PendingIsLocal /\ TableIsMade /\ PadIsLinked

\* How far the handshake of a channel has come, by what its stream is doing.
NegotiatedIsMade == \A b \in negotiated : b \in Made /\ b \notin Pending
UnlinkedIsSilent ==
    \A i \in StreamIds :
      table[i] # NoBin /\ pad[i] # table[i] /\ ~SctpAt("removing", i)
        => table[i] \notin negotiated
AckIsFirst == \A i \in StreamIds : pc[i] = "ack" => pad[i] \notin negotiated
EmitHasHandle == \A i \in StreamIds : pc[i] = "emit" => handles[i] = pad[i]
Handshake == NegotiatedIsMade /\ UnlinkedIsSilent /\ AckIsFirst /\ EmitHasHandle

\* Only a channel that exists has left its first state.
StartedIsMade == \A b \in Bins : state[b] # "CLOSED" => b \in Made

\* Only a channel of this side's asks for its stream to be opened.
OpeningIsLocal == \A b \in Bins : opening[b] # "no" => b \in Made /\ Own(id[b])

\* A channel of the peer's that is not linked has not begun, or has been through
\* everything and only waits to be forgotten.
RemoteWaits ==
    \A i \in StreamIds :
      table[i] # NoBin /\ ~Own(i) /\ pad[i] # table[i] /\ ~SctpAt("removing", i)
        => state[table[i]] = "CLOSED"

\* A worker over a stream resets its pad, or was beaten to it by the SCTP thread.
WorkerHasPad == \A i \in StreamIds : mutex = i => pad[i] # NoPad \/ SctpAt("removing", i)

Closing == StartedIsMade /\ OpeningIsLocal /\ RemoteWaits /\ WorkerHasPad

\* A channel that was announced as closed, or is about to be, is out of every table.
ClosedIsGone ==
    /\ \A b \in Bins : closed[b] # 0 => b \in Made /\ b \notin Pending
    /\ \A i \in StreamIds : table[i] # NoBin => closed[table[i]] = 0
LeavingIsGone ==
    \A i \in StreamIds : SctpAt("closing", i) =>
      /\ sctp.channel \in Made /\ sctp.channel \notin Pending
      /\ closed[sctp.channel] = 0
      /\ \A j \in StreamIds : table[j] # sctp.channel

IInv ==
    /\ TypeOK
    /\ Running
    /\ Exposing
    /\ Wiring
    /\ HandleBacked
    /\ Handshake
    /\ ReceiverReady
    /\ Closing
    /\ RemoteCloseInFlight
    /\ ClosedIsGone
    /\ LeavingIsGone

USE DEF NoBin, NoPad, NoId, Free, Bins

\* Creating a channel puts it in front of the pending list.
LEMMA PendingPrepend ==
    ASSUME NEW S, NEW s \in Seq(S), NEW e \in S
    PROVE  <<e>> \o s \in Seq(S) /\ Range(<<e>> \o s) = {e} \cup Range(s)
<1> DEFINE t == <<e>> \o s
<1>1. /\ t \in Seq(S) /\ DOMAIN t = 1 .. Len(s) + 1
      /\ \A k \in 1 .. Len(s) + 1 : t[k] = IF k = 1 THEN e ELSE s[k - 1]
  <2>1. <<e>> \in Seq(S) /\ Len(<<e>>) = 1 /\ <<e>>[1] = e /\ Len(s) \in Nat
    OBVIOUS
  <2>2. /\ t \in Seq(S) /\ Len(t) = Len(s) + 1
        /\ \A k \in 1 .. 1 + Len(s) : t[k] = IF k <= 1 THEN <<e>>[k] ELSE s[k - 1]
    BY <2>1, ConcatProperties
  <2> HIDE DEF t
  <2> QED BY <2>1, <2>2
<1>2. \A k \in 1 .. Len(s) : k + 1 \in DOMAIN t /\ t[k + 1] = s[k]
  <2> HIDE DEF t
  <2> QED BY <1>1
<1>3. 1 \in DOMAIN t /\ t[1] = e
  <2> HIDE DEF t
  <2> QED BY <1>1
<1> HIDE DEF t
<1>4. \A k \in DOMAIN t : t[k] \in {e} \cup Range(s)
  <2> SUFFICES ASSUME NEW k \in 1 .. Len(s) + 1, k # 1 PROVE t[k] \in Range(s)
    BY <1>1, <1>3
  <2>1. k - 1 \in DOMAIN s /\ t[k] = s[k - 1] BY <1>1
  <2> QED BY <2>1 DEF Range
<1>5. Range(t) = {e} \cup Range(s)
  BY <1>2, <1>3, <1>4 DEF Range
<1> QED BY <1>1, <1>5 DEF t

\* The initial states are well typed.
LEMMA InitType == Init => TypeOK
<1> SUFFICES ASSUME Init PROVE TypeOK OBVIOUS
<1>1. /\ table \in [StreamIds -> Bins \cup {NoBin}]
      /\ handles \in [StreamIds -> Bins \cup {NoBin}]
      /\ pad \in [StreamIds -> Bins \cup {NoBin, NoPad}]
      /\ pc \in [StreamIds -> {"idle", "ack", "acked", "notify", "emit"}]
  BY DEF Init
<1>2. /\ id \in [Bins -> StreamIds \cup {NoId}]
      /\ state \in [Bins -> {"CONNECTING", "OPEN", "CLOSING", "CLOSED"}]
      /\ said \in [Bins -> SUBSET {"OPEN", "ACK", "DATA"}]
      /\ opening \in [Bins -> {"no", "request", "push"}]
      /\ jobs \in [Bins -> Nat] /\ opened \in [Bins -> Nat] /\ closed \in [Bins -> Nat]
  BY DEF Init
<1>3. nextId \in Int
  <2>1. nextId = 0 \/ nextId = 1 BY Zenon DEF Init
  <2> QED BY <2>1
<1>4. established \in BOOLEAN BY Zenon DEF Init
<1>5. pending \in Seq(Bins) 
  <2>1. pending = <<>> BY Zenon DEF Init
  <2> QED BY <2>1
<1>6. made \in 0 .. MaxBins /\ mutex \in StreamIds \cup {Free} /\ msgs \in Nat /\ flips \in Nat
  BY ConstantsAssumption DEF Init
<1>7. negotiated \in SUBSET Bins /\ unlinkable \in SUBSET Bins
  BY DEF Init
<1>8. sctp \in [at: {"idle", "adding", "linking", "removing", "closing"},
                stream: StreamIds \cup {NoId}, channel: Bins \cup {NoBin}]
  BY DEF Init, Idle
<1> QED BY <1>1, <1>2, <1>3, <1>4, <1>5, <1>6, <1>7, <1>8, Zenon DEF TypeOK

(***************************************************************************)
(* Every step keeps the type invariant.                                    *)
(***************************************************************************)
LEMMA StepType == TypeOK /\ Running /\ [Next]_vars => TypeOK'
<1> SUFFICES ASSUME TypeOK, Running, [Next]_vars PROVE TypeOK'
  OBVIOUS
<1> DEFINE States == {"CONNECTING", "OPEN", "CLOSING", "CLOSED"}
           Places == {"idle", "ack", "acked", "notify", "emit"}
           Maybe == Bins \cup {NoBin}
           Callbacks == [at: {"idle", "adding", "linking", "removing", "closing"},
                         stream: StreamIds \cup {NoId}, channel: Maybe]
<1>a. state \in [Bins -> States] BY Zenon DEF TypeOK
<1>b. pc \in [StreamIds -> Places] BY Zenon DEF TypeOK
<1>c. jobs \in [Bins -> Nat] BY Zenon DEF TypeOK
<1>d. table \in [StreamIds -> Maybe] /\ handles \in [StreamIds -> Maybe]
  BY Zenon DEF TypeOK
<1>e. pad \in [StreamIds -> Maybe \cup {NoPad}] BY DEF TypeOK
<1>f. said \in [Bins -> SUBSET {"OPEN", "ACK", "DATA"}] BY Zenon DEF TypeOK
<1>g. opening \in [Bins -> {"no", "request", "push"}] BY Zenon DEF TypeOK
<1>h. opened \in [Bins -> Nat] /\ closed \in [Bins -> Nat] BY Zenon DEF TypeOK
<1>i. pending \in Seq(Bins) BY Zenon DEF TypeOK
<1>j. made \in 0 .. MaxBins /\ nextId \in Int /\ id \in [Bins -> StreamIds \cup {NoId}]
  BY Zenon DEF TypeOK
<1>k. negotiated \in SUBSET Bins /\ unlinkable \in SUBSET Bins BY Zenon DEF TypeOK
<1>l. msgs \in Nat /\ flips \in Nat /\ mutex \in StreamIds \cup {Free} BY Zenon DEF TypeOK
<1>m. sctp \in Callbacks BY Zenon DEF TypeOK
<1>n. Idle \in Callbacks BY DEF Idle
<1>o. ASSUME NEW l \in {"adding", "linking", "removing", "closing"}, NEW i \in StreamIds,
             NEW b \in Maybe, SctpGoes(l, i, b)
      PROVE  sctp' \in Callbacks
  BY <1>o DEF SctpGoes
<1>1. ASSUME NEW i \in StreamIds, NEW both \in BOOLEAN, CreateDataChannel(i, both)
      PROVE  TypeOK'
  <2>1. made + 1 \in Bins /\ made' = made + 1 /\ id' = [id EXCEPT ![made + 1] = i]
    BY <1>1, SMT DEF CreateDataChannel, NewChannel
  <2>2. made' \in 0 .. MaxBins BY <2>1, ConstantsAssumption
  <2>3. nextId' \in Int
    <3>1. nextId' = i BY <1>1, SMT DEF CreateDataChannel
    <3> QED BY <3>1, ConstantsAssumption
  <2>4. /\ unlinkable' = unlinkable \/ unlinkable' = unlinkable \cup {made + 1}
        /\ pending' = pending \/ pending' = <<made + 1>> \o pending
        /\ table' = table \/ table' = [table EXCEPT ![i] = made + 1]
        /\ opening' = opening \/ opening' = [opening EXCEPT ![made + 1] = "request"]
    BY <1>1, SMT DEF CreateDataChannel
  <2>5. UNCHANGED <<established, flips, pad, pc, sctp, opened, closed, handles, state,
                    negotiated, said, jobs, mutex, msgs>>
    BY <1>1, SMT DEF CreateDataChannel
  <2>6. pending' \in Seq(Bins)
    <3> HIDE DEF Bins
    <3>1. <<made + 1>> \o pending \in Seq(Bins) BY <2>1, <1>i, PendingPrepend
    <3> QED BY <2>4, <3>1, <1>i
  <2>7. id' \in [Bins -> StreamIds \cup {NoId}] BY <2>1, <1>j
  <2>8. unlinkable' \in SUBSET Bins BY <2>1, <2>4, <1>k
  <2>9. table' \in [StreamIds -> Maybe] BY <2>1, <2>4, <1>d
  <2>10. opening' \in [Bins -> {"no", "request", "push"}] BY <2>1, <2>4, <1>g
  <2> QED BY <2>2, <2>3, <2>5, <2>6, <2>7, <2>8, <2>9, <2>10, Zenon DEF TypeOK
<1>2. ASSUME NEW b \in Bins, RequestOpen(b) PROVE TypeOK'
  <2>1. state' \in [Bins -> States] BY <1>2, <1>a DEF RequestOpen
  <2>2. opening' \in [Bins -> {"no", "request", "push"}] BY <1>2, <1>g DEF RequestOpen
  <2> QED BY <1>2, <2>1, <2>2, Zenon DEF RequestOpen, TypeOK
<1>3. ASSUME NEW b \in Bins, PushOpen(b) PROVE TypeOK'
  <2>1. said' \in [Bins -> SUBSET {"OPEN", "ACK", "DATA"}] BY <1>3, <1>f DEF PushOpen
  <2>2. opening' \in [Bins -> {"no", "request", "push"}] BY <1>3, <1>g DEF PushOpen
  <2> QED BY <1>3, <2>1, <2>2, Zenon DEF PushOpen, TypeOK
<1>4. ASSUME NEW b \in Bins, ResetStreamAsync(b) PROVE TypeOK'
  <2>1. jobs[b] > 0 /\ jobs' = [jobs EXCEPT ![b] = @ - 1]
    BY <1>4, Zenon DEF ResetStreamAsync, HasJob
  <2>2. jobs' \in [Bins -> Nat]
    <3>1. jobs[b] - 1 \in Nat BY <2>1, <1>c
    <3> QED BY <2>1, <3>1, <1>c, Zenon
  <2>3. mutex' \in StreamIds \cup {Free} BY <1>4 DEF ResetStreamAsync
  <2> QED BY <1>4, <2>2, <2>3, Zenon DEF ResetStreamAsync, TypeOK
<1>5. CASE AssociationUp
  <2>1. pending' \in Seq(Bins)
    <3>1. pending' = <<>> BY <1>5, Zenon DEF AssociationUp
    <3> QED BY <3>1
  <2>2. established' \in BOOLEAN BY <1>5, Zenon DEF AssociationUp
  <2>3. flips' \in Nat BY <1>5, <1>l DEF AssociationUp
  <2>4. state' \in [Bins -> States] BY <1>5, <1>a DEF AssociationUp
  <2>5. said' \in [Bins -> SUBSET {"OPEN", "ACK", "DATA"}] BY <1>5, <1>f DEF AssociationUp
  <2> QED BY <1>5, <2>1, <2>2, <2>3, <2>4, <2>5, Zenon DEF AssociationUp, TypeOK
<1>6. CASE AssociationDown
  <2>1. established' \in BOOLEAN BY <1>6, Zenon DEF AssociationDown
  <2>2. flips' \in Nat BY <1>6, <1>l DEF AssociationDown
  <2> QED BY <1>6, <2>1, <2>2, Zenon DEF AssociationDown, TypeOK
<1>7. ASSUME NEW i \in StreamIds, PushBuffer(i) PROVE TypeOK'
  <2>1. said' \in [Bins -> SUBSET {"OPEN", "ACK", "DATA"}] BY <1>7, <1>f DEF PushBuffer
  <2> QED BY <1>7, <2>1, Zenon DEF PushBuffer, TypeOK
<1>8. ASSUME NEW i \in StreamIds, DestroyDataChannel(i) PROVE TypeOK'
  <2>1. state' \in [Bins -> States] BY <1>8, <1>a DEF DestroyDataChannel
  <2>2. jobs' \in [Bins -> Nat]
    <3>1. jobs' = [jobs EXCEPT ![table[i]] = jobs[table[i]] + 1] /\ table[i] # NoBin
      BY <1>8, SMT DEF DestroyDataChannel
    <3>2. table[i] \in Bins BY <3>1, <1>d
    <3>3. jobs[table[i]] + 1 \in Nat BY <3>2, <1>c
    <3> QED BY <3>1, <3>2, <3>3, <1>c, Zenon
  <2> QED BY <1>8, <2>1, <2>2, Zenon DEF DestroyDataChannel, TypeOK
<1>9. ASSUME NEW i \in StreamIds, PadAdded(i) PROVE TypeOK'
  <2>1. CASE table[i] = NoBin /\ IsValidRemote(i)
    <3>1. made + 1 \in Bins /\ made' = made + 1 /\ id' = [id EXCEPT ![made + 1] = i]
      BY <1>9, <2>1, Zenon DEF PadAdded, NewChannel
    <3>2. made' \in 0 .. MaxBins BY <3>1, ConstantsAssumption
    <3>3. id' \in [Bins -> StreamIds \cup {NoId}] BY <3>1, <1>j
    <3>4. table' = [table EXCEPT ![i] = made'] /\ SctpGoes("linking", i, made')
      BY <1>9, <2>1, Zenon DEF PadAdded
    <3>5. table' \in [StreamIds -> Maybe] BY <3>1, <3>4, <1>d
    <3>6. sctp' \in Callbacks BY <3>1, <3>4, <1>o
    <3> QED BY <1>9, <3>2, <3>3, <3>5, <3>6, Zenon DEF PadAdded, TypeOK
  <2>2. CASE ~(table[i] = NoBin /\ IsValidRemote(i))
    <3>1. UNCHANGED <<table, made, id>> BY <1>9, <2>2, Zenon DEF PadAdded
    <3>2. sctp' = Idle \/ SctpGoes("linking", i, table[i])
      BY <1>9, <2>2, Zenon DEF PadAdded
    <3>3. sctp' \in Callbacks BY <3>2, <1>d, <1>n, <1>o
    <3> QED BY <1>9, <3>1, <3>3, Zenon DEF PadAdded, TypeOK
  <2> QED BY <2>1, <2>2
<1>10. ASSUME NEW i \in StreamIds, HandleInvalid(i) PROVE TypeOK'
  <2>1. pad[i] \in Bins /\ msgs' = msgs + 1 BY <1>10, Zenon DEF HandleInvalid, Receive
  <2>2. msgs' \in Nat BY <2>1, <1>l
  <2>3. state' \in [Bins -> States] BY <1>10, <2>1, <1>a DEF HandleInvalid, Reset
  <2>4. jobs' \in [Bins -> Nat] BY <1>10, <2>1, <1>c DEF HandleInvalid, Reset
  <2> QED BY <1>10, <2>2, <2>3, <2>4, Zenon DEF HandleInvalid, OthersUnchanged, TypeOK
<1>11. ASSUME NEW i \in StreamIds, HandleOpenRequest(i) PROVE TypeOK'
  <2>1. pad[i] \in Bins /\ msgs' = msgs + 1 BY <1>11, Zenon DEF HandleOpenRequest, Receive
  <2>2. msgs' \in Nat BY <2>1, <1>l
  <2>3. state' \in [Bins -> States] BY <1>11, <1>a DEF HandleOpenRequest
  <2>4. negotiated' \in SUBSET Bins BY <1>11, <1>k DEF HandleOpenRequest
  <2>5. pc' \in [StreamIds -> Places] BY <1>11, <1>b DEF HandleOpenRequest
  <2> QED BY <1>11, <2>2, <2>3, <2>4, <2>5, Zenon
          DEF HandleOpenRequest, OthersUnchanged, TypeOK
<1>12. ASSUME NEW i \in StreamIds, HandleAck(i) PROVE TypeOK'
  <2>1. pad[i] \in Bins /\ msgs' = msgs + 1 BY <1>12, Zenon DEF HandleAck, Receive
  <2>2. msgs' \in Nat BY <2>1, <1>l
  <2>3. state' \in [Bins -> States] BY <1>12, <1>a DEF HandleAck, Negotiate
  <2>4. negotiated' \in SUBSET Bins BY <1>12, <2>1, <1>k DEF HandleAck, Negotiate
  <2>5. pc' \in [StreamIds -> Places] BY <1>12, <1>b DEF HandleAck, Negotiate
  <2> QED BY <1>12, <2>2, <2>3, <2>4, <2>5, Zenon DEF HandleAck, OthersUnchanged, TypeOK
<1>13. ASSUME NEW i \in StreamIds, PushAck(i) PROVE TypeOK'
  <2>1. pc' \in [StreamIds -> Places] BY <1>13, <1>b DEF PushAck
  <2>2. said' \in [Bins -> SUBSET {"OPEN", "ACK", "DATA"}] BY <1>13, <1>f DEF PushAck
  <2>3. state' \in [Bins -> States] BY <1>13, <1>a DEF PushAck, Reset
  <2>4. jobs' \in [Bins -> Nat] BY <1>13, <1>c DEF PushAck, Reset
  <2> QED BY <1>13, <2>1, <2>2, <2>3, <2>4, Zenon DEF PushAck, OthersUnchanged, TypeOK
<1>14. ASSUME NEW i \in StreamIds, AckPushed(i) PROVE TypeOK'
  <2>1. pad[i] \in Bins BY <1>14 DEF AckPushed, Running
  <2>2. state' \in [Bins -> States] BY <1>14, <1>a DEF AckPushed, Negotiate
  <2>3. negotiated' \in SUBSET Bins BY <1>14, <2>1, <1>k DEF AckPushed, Negotiate
  <2>4. pc' \in [StreamIds -> Places] BY <1>14, <1>b DEF AckPushed, Negotiate
  <2> QED BY <1>14, <2>2, <2>3, <2>4, Zenon DEF AckPushed, OthersUnchanged, TypeOK
<1>15. ASSUME NEW i \in StreamIds, NegotiatedCb(i) PROVE TypeOK'
  <2>1. pad[i] \in Bins BY <1>15 DEF NegotiatedCb, Running
  <2>2. pc' \in [StreamIds -> Places] BY <1>15, <1>b DEF NegotiatedCb
  <2>3. handles' \in [StreamIds -> Maybe] BY <1>15, <2>1, <1>d DEF NegotiatedCb
  <2> QED BY <1>15, <2>2, <2>3, Zenon DEF NegotiatedCb, OthersUnchanged, TypeOK
<1>16. ASSUME NEW i \in StreamIds, EmitOpened(i) PROVE TypeOK'
  <2>1. pad[i] \in Bins BY <1>16 DEF EmitOpened, Running
  <2>2. pc' \in [StreamIds -> Places] BY <1>16, <1>b DEF EmitOpened
  <2>3. opened' \in [Bins -> Nat] BY <1>16, <2>1, <1>h DEF EmitOpened
  <2> QED BY <1>16, <2>2, <2>3, Zenon DEF EmitOpened, OthersUnchanged, TypeOK
<1>17. ASSUME NEW i \in StreamIds, ExposePad(i) \/ RemoteReset(i) PROVE TypeOK'
  <2>1. pad' \in [StreamIds -> Bins \cup {NoBin, NoPad}]
    BY <1>17, <1>e DEF ExposePad, RemoteReset, RemovePad
  <2>2. sctp' \in Callbacks BY <1>17, <1>o DEF ExposePad, RemoteReset
  <2> QED BY <1>17, <2>1, <2>2, Zenon DEF ExposePad, RemoteReset, TypeOK
<1>18. ASSUME NEW i \in StreamIds, LinkPad(i) PROVE TypeOK'
  <2>1. sctp.channel \in Maybe BY <1>m
  <2>2. pad' \in [StreamIds -> Bins \cup {NoBin, NoPad}] BY <1>18, <1>e, <2>1 DEF LinkPad
  <2>3. sctp' \in Callbacks BY <1>18, <1>n DEF LinkPad
  <2> QED BY <1>18, <2>2, <2>3, Zenon DEF LinkPad, TypeOK
<1>19. ASSUME NEW i \in StreamIds, PadRemoved(i) PROVE TypeOK'
  <2>1. table' \in [StreamIds -> Maybe] /\ handles' \in [StreamIds -> Maybe]
    BY <1>19, <1>d DEF PadRemoved, ForgetChannel, ForgetHandle
  <2>2. sctp' = Idle \/ SctpGoes("closing", i, table[i]) BY <1>19, Zenon DEF PadRemoved
  <2>3. sctp' \in Callbacks BY <2>2, <1>d, <1>n, <1>o
  <2> QED BY <1>19, <2>1, <2>3, Zenon DEF PadRemoved, TypeOK
<1>20. ASSUME NEW i \in StreamIds, EmitClosed(i) PROVE TypeOK'
  <2>1. closed' \in [Bins -> Nat]
    <3> DEFINE b == sctp.channel
    <3>1. closed' = [closed EXCEPT ![b] = closed[b] + 1]
      BY <1>20, Zenon DEF EmitClosed, Closed
    <3> HIDE DEF b
    <3>2. CASE b \in Bins BY <3>1, <3>2, <1>h
    <3>3. CASE b \notin Bins BY <3>1, <3>3, <1>h
    <3> QED BY <3>2, <3>3
  <2>2. sctp' \in Callbacks BY <1>20, <1>n DEF EmitClosed
  <2> QED BY <1>20, <2>1, <2>2, Zenon DEF EmitClosed, TypeOK
<1>21. ASSUME NEW i \in StreamIds, ResetStream(i) PROVE TypeOK'
  <2>1. mutex' \in StreamIds \cup {Free} BY <1>21 DEF ResetStream, ReleaseMutex
  <2>2. pad' \in [StreamIds -> Bins \cup {NoBin, NoPad}]
    BY <1>21, <1>e DEF ResetStream, RemovePad
  <2>3. table' \in [StreamIds -> Maybe] /\ handles' \in [StreamIds -> Maybe]
    BY <1>21, <1>d DEF ResetStream, ForgetChannel, ForgetHandle
  <2>4. closed' \in [Bins -> Nat]
    <3>1. \/ closed' = closed
          \/ table[i] # NoBin /\ closed' = [closed EXCEPT ![table[i]] = closed[table[i]] + 1]
      BY <1>21, Zenon DEF ResetStream, Closed
    <3>2. table[i] # NoBin => table[i] \in Bins BY <1>d
    <3>3. table[i] # NoBin => closed[table[i]] + 1 \in Nat BY <3>2, <1>h
    <3> QED BY <3>1, <3>2, <3>3, <1>h, Zenon
  <2> QED BY <1>21, <2>1, <2>2, <2>3, <2>4, Zenon DEF ResetStream, TypeOK
<1>22. CASE UNCHANGED vars
  BY <1>22, Zenon DEF vars, TypeOK
<1> QED
  BY <1>1, <1>2, <1>3, <1>4, <1>5, <1>6, <1>7, <1>8, <1>9, <1>10, <1>11, <1>12, <1>13,
     <1>14, <1>15, <1>16, <1>17, <1>18, <1>19, <1>20, <1>21, <1>22, Zenon DEF Next

(***************************************************************************)
(* What each kind of step does to the tables.                              *)
(***************************************************************************)

\* The element made next is none of those already made.
LEMMA FreshIsNew ==
    ASSUME made \in Nat, made + 1 \in Bins, made' = made + 1
    PROVE  /\ made + 1 \notin Made /\ made + 1 \in Made' /\ Made \subseteq Made'
           /\ Made \subseteq Bins
<1>1. MaxBins \in Nat BY ConstantsAssumption
<1>2. Made = 1 .. made /\ Made' = 1 .. (made + 1) BY DEF Made
<1> QED BY <1>1, <1>2

\* Creating a channel: a fresh element, for an own identifier that is not in use.
LEMMA CreateEffect ==
    ASSUME NEW i \in StreamIds, NEW both \in BOOLEAN, CreateDataChannel(i, both)
    PROVE  /\ made + 1 \in Bins /\ made' = made + 1 /\ id' = [id EXCEPT ![made + 1] = i]
           /\ Own(i) /\ table[i] = NoBin
           /\ \/ pending' = <<made + 1>> \o pending /\ table' = table
              \/ pending' = pending /\ table' = [table EXCEPT ![i] = made + 1]
              \/ pending' = pending /\ table' = table
           /\ opening' \in {opening, [opening EXCEPT ![made + 1] = "request"]}
           /\ UNCHANGED <<pad, pc, sctp, opened, closed, handles, state, negotiated,
                          jobs, mutex>>
  BY SMT DEF CreateDataChannel, NewChannel, IsPicked

\* The association comes up: free places of the table are taken by pending channels.
LEMMA AssociationUpEffect ==
    ASSUME TypeOK, AssociationUp
    PROVE  /\ Pending' = {}
           /\ \A i \in StreamIds :
                table'[i] # table[i] =>
                  table[i] = NoBin /\ table'[i] \in Pending /\ id[table'[i]] = i
           /\ \A b \in Bins : state'[b] = "CLOSING" => state[b] = "CLOSING"
           /\ \A b \in Bins : b \notin Pending => state'[b] = state[b]
           /\ UNCHANGED <<made, id, pad, pc, sctp, opened, closed, handles, negotiated,
                          opening, jobs, mutex>>
<1>1. pending' = <<>> BY Zenon DEF AssociationUp
<1>2. Pending' = {}
  <2>1. DOMAIN <<>> = {} OBVIOUS
  <2> QED BY <1>1, <2>1 DEF Pending, Range
<1>3. UNCHANGED <<made, id, pad, pc, sctp, opened, closed, handles, negotiated,
                  opening, jobs, mutex>>
  BY Zenon DEF AssociationUp
<1>a. ASSUME NEW c \in Activated PROVE c \in Pending /\ table[id[c]] = NoBin
  <2>1. PICK k \in DOMAIN pending : pending[k] = c /\ CanLink(pending[k])
    BY <1>a, SMT DEF Activated
  <2>2. c \in Pending BY <2>1 DEF Pending, Range
  <2>3. table[id[c]] = NoBin BY <2>1 DEF CanLink
  <2> QED BY <2>2, <2>3
<1>4. ASSUME NEW i \in StreamIds, table'[i] # table[i]
      PROVE  table[i] = NoBin /\ table'[i] \in Pending /\ id[table'[i]] = i
  <2>1. PICK b \in Activated : id[b] = i BY <1>4, Zenon DEF AssociationUp
  <2>2. table'[i] \in Activated /\ id[table'[i]] = i
    BY <2>1, Zenon DEF AssociationUp
  <2> QED BY <2>2, <1>a
<1>b. \A b \in Bins : state'[b] = IF b \in Activated THEN "CONNECTING" ELSE state[b]
  <2>1. state' = [b \in Bins |-> IF b \in Activated THEN "CONNECTING" ELSE state[b]]
    BY Zenon DEF AssociationUp
  <2> HIDE DEF Bins
  <2> QED BY <2>1, Zenon
<1>5. ASSUME NEW b \in Bins, state'[b] = "CLOSING" PROVE state[b] = "CLOSING"
  BY <1>5, <1>b
<1>6. ASSUME NEW b \in Bins, b \notin Pending PROVE state'[b] = state[b]
  BY <1>6, <1>a, <1>b, Zenon
<1> QED BY <1>2, <1>3, <1>4, <1>5, <1>6

\* What a step of the SCTP thread or of a worker never touches.
Others == <<pending, pc, opened, state, negotiated, opening, jobs>>

\* A stream appears, its pad not linked yet.
LEMMA ExposePadEffect ==
    ASSUME NEW i \in StreamIds, ExposePad(i)
    PROVE  /\ sctp = Idle /\ pad[i] = NoPad
           /\ pad' = [pad EXCEPT ![i] = NoBin]
           /\ SctpGoes("adding", i, NoBin)
           /\ UNCHANGED Others /\ UNCHANGED <<table, made, id, closed, handles, mutex>>
  BY Zenon DEF ExposePad, Others

\* It is that of a known channel, or of a new remote one, or of none.
LEMMA PadAddedEffect ==
    ASSUME NEW i \in StreamIds, PadAdded(i)
    PROVE  /\ SctpAt("adding", i)
           /\ \/ /\ table[i] # NoBin /\ SctpGoes("linking", i, table[i])
                 /\ UNCHANGED <<table, made, id>>
              \/ /\ table[i] = NoBin /\ ~Own(i)
                 /\ made + 1 \in Bins /\ made' = made + 1
                 /\ id' = [id EXCEPT ![made + 1] = i]
                 /\ table' = [table EXCEPT ![i] = made + 1]
                 /\ SctpGoes("linking", i, made + 1)
              \/ /\ table[i] = NoBin /\ sctp' = Idle
                 /\ UNCHANGED <<table, made, id>>
           /\ UNCHANGED Others /\ UNCHANGED <<pad, closed, handles, mutex>>
<1>1. UNCHANGED Others /\ UNCHANGED <<pad, closed, handles, mutex>> /\ SctpAt("adding", i)
  BY Zenon DEF PadAdded, Others
<1>2. CASE table[i] # NoBin BY <1>1, <1>2, Zenon DEF PadAdded
<1>3. CASE table[i] = NoBin /\ IsValidRemote(i)
  <2>1. made' = made + 1 /\ made + 1 \in Bins /\ id' = [id EXCEPT ![made + 1] = i]
    BY <1>3, Zenon DEF PadAdded, NewChannel
  <2>2. table' = [table EXCEPT ![i] = made'] /\ SctpGoes("linking", i, made')
    BY <1>3, Zenon DEF PadAdded
  <2> QED BY <1>1, <1>3, <2>1, <2>2 DEF IsValidRemote
<1>4. CASE table[i] = NoBin /\ ~IsValidRemote(i)
  BY <1>1, <1>4, Zenon DEF PadAdded
<1> QED BY <1>2, <1>3, <1>4

\* The pad is linked, unless it is gone.
LEMMA LinkPadEffect ==
    ASSUME NEW i \in StreamIds, LinkPad(i)
    PROVE  /\ SctpAt("linking", i) /\ sctp' = Idle
           /\ pad' = [pad EXCEPT ![i] = IF pad[i] = NoPad THEN NoPad ELSE sctp.channel]
           /\ UNCHANGED Others
           /\ UNCHANGED <<table, made, id, closed, handles, mutex>>
  BY Zenon DEF LinkPad, Others

\* A stream goes: first its pad ...
LEMMA RemoteResetEffect ==
    ASSUME NEW i \in StreamIds, RemoteReset(i)
    PROVE  /\ sctp = Idle /\ pad[i] # NoPad /\ pc[i] = "idle"
           /\ pad' = [pad EXCEPT ![i] = NoPad]
           /\ SctpGoes("removing", i, NoBin)
           /\ UNCHANGED Others /\ UNCHANGED <<table, made, id, closed, handles, mutex>>
  BY Zenon DEF RemoteReset, RemovePad, Others

\* ... then its identifier leaves both tables ...
LEMMA PadRemovedEffect ==
    ASSUME NEW i \in StreamIds, PadRemoved(i)
    PROVE  /\ SctpAt("removing", i) /\ mutex = Free
           /\ table' = [table EXCEPT ![i] = NoBin]
           /\ handles' = [handles EXCEPT ![i] = NoBin]
           /\ \/ table[i] = NoBin /\ sctp' = Idle
              \/ table[i] # NoBin /\ SctpGoes("closing", i, table[i])
           /\ UNCHANGED Others /\ UNCHANGED <<pad, made, id, closed, mutex>>
  BY Zenon DEF PadRemoved, ForgetChannel, ForgetHandle, Others

\* ... and then it is announced.
LEMMA EmitClosedEffect ==
    ASSUME NEW i \in StreamIds, EmitClosed(i)
    PROVE  /\ SctpAt("closing", i) /\ sctp' = Idle
           /\ closed' = [closed EXCEPT ![sctp.channel] = closed[sctp.channel] + 1]
           /\ UNCHANGED Others /\ UNCHANGED <<pad, table, made, id, handles, mutex>>
  BY Zenon DEF EmitClosed, Closed, Others

\* A worker does all of it under the mutex, or finds it done.
LEMMA ResetStreamEffect ==
    ASSUME NEW i \in StreamIds, ResetStream(i)
    PROVE  /\ mutex = i /\ mutex' = Free
           /\ \/ /\ pc[i] = "idle" /\ pad' = [pad EXCEPT ![i] = NoPad]
                 /\ table' = [table EXCEPT ![i] = NoBin]
                 /\ handles' = [handles EXCEPT ![i] = NoBin]
                 /\ closed' = IF table[i] = NoBin THEN closed
                              ELSE [closed EXCEPT ![table[i]] = closed[table[i]] + 1]
              \/ pad[i] = NoPad /\ UNCHANGED <<pad, table, handles, closed>>
           /\ UNCHANGED Others /\ UNCHANGED <<made, id, sctp>>
  BY Zenon DEF ResetStream, ReleaseMutex, RemovePad, ForgetChannel, ForgetHandle, Closed,
     Others

\* A critical section of the handler that runs in the streaming thread of a pad.
Handler(i) ==
    \/ HandleInvalid(i) \/ HandleOpenRequest(i) \/ HandleAck(i)
    \/ PushAck(i) \/ AckPushed(i) \/ NegotiatedCb(i) \/ EmitOpened(i)

\* A handler works on its own stream, and leaves the tables and the pads alone.
LEMMA HandlerFrame ==
    ASSUME NEW i \in StreamIds, Handler(i)
    PROVE  UNCHANGED <<pending, made, id, table, pad, sctp, opening, closed, mutex>>
<1>1. OthersUnchanged
  BY Zenon DEF Handler, HandleInvalid, HandleOpenRequest, HandleAck, PushAck,
     AckPushed, NegotiatedCb, EmitOpened
<1> QED BY <1>1, Zenon DEF OthersUnchanged

\* How a handler moves its thread, the negotiated flag and the handle of its stream.
LEMMA HandlerEffect ==
    ASSUME TypeOK, Running, NEW i \in StreamIds, Handler(i)
    PROVE  /\ pad[i] \in Bins
           /\ \A j \in StreamIds : j # i => pc'[j] = pc[j] /\ handles'[j] = handles[j]
           /\ \/ UNCHANGED <<pc, negotiated, handles>>
              \/ /\ pc'[i] = "ack" /\ negotiated' = negotiated \ {pad[i]}
                 /\ UNCHANGED handles
              \/ /\ pc[i] = "ack" /\ pc'[i] \in {"acked", "idle"}
                 /\ UNCHANGED <<negotiated, handles>>
              \/ /\ pc'[i] = "notify" /\ negotiated' = negotiated \cup {pad[i]}
                 /\ UNCHANGED handles
              \/ /\ pc'[i] = "emit" /\ UNCHANGED negotiated
                 /\ handles'[i] = IF handles[i] = NoBin THEN pad[i] ELSE handles[i]
              \/ /\ pc[i] = "emit" /\ pc'[i] = "idle"
                 /\ UNCHANGED <<negotiated, handles>>
<1>1. pc \in [StreamIds -> {"idle", "ack", "acked", "notify", "emit"}] /\ DOMAIN handles = StreamIds
  BY DEF TypeOK
<1>2. pc[i] # "idle" => pad[i] \in Bins BY DEF Running
<1>3. CASE HandleInvalid(i) BY <1>3, Zenon DEF HandleInvalid, Receive
<1>4. CASE HandleOpenRequest(i) BY <1>4, <1>1, SMT DEF HandleOpenRequest, Receive
<1>5. CASE HandleAck(i) BY <1>5, <1>1, SMT DEF HandleAck, Receive, Negotiate
<1>6. CASE PushAck(i) BY <1>6, <1>1, <1>2, SMT DEF PushAck
<1>7. CASE AckPushed(i) BY <1>7, <1>1, <1>2, SMT DEF AckPushed, Negotiate
<1>8. CASE NegotiatedCb(i) BY <1>8, <1>1, <1>2, SMT DEF NegotiatedCb
<1>9. CASE EmitOpened(i) BY <1>9, <1>1, <1>2, SMT DEF EmitOpened
<1> QED BY <1>3, <1>4, <1>5, <1>6, <1>7, <1>8, <1>9 DEF Handler

\* Every step is one of these, or leaves all of that alone.
LEMMA Frame ==
    ASSUME [Next]_vars
    PROVE  \/ \E i \in StreamIds, both \in BOOLEAN : CreateDataChannel(i, both)
           \/ AssociationUp
           \/ \E i \in StreamIds : PadAdded(i)
           \/ \E i \in StreamIds : ExposePad(i) \/ LinkPad(i) \/ RemoteReset(i)
           \/ \E i \in StreamIds : PadRemoved(i) \/ ResetStream(i)
           \/ \E i \in StreamIds : EmitClosed(i)
           \/ \E i \in StreamIds : Handler(i)
           \/ UNCHANGED <<pending, made, id, table, pad, sctp, closed, pc, handles,
                          negotiated, opened>>
<1> DEFINE Quiet == UNCHANGED <<pending, made, id, table, pad, sctp, closed, pc, handles,
                                negotiated, opened>>
<1>1. ASSUME NEW b \in Bins, RequestOpen(b) \/ PushOpen(b) \/ ResetStreamAsync(b)
      PROVE  Quiet
  BY <1>1, Zenon DEF RequestOpen, PushOpen, ResetStreamAsync
<1>2. AssociationDown => Quiet BY Zenon DEF AssociationDown
<1>3. ASSUME NEW i \in StreamIds, PushBuffer(i) \/ DestroyDataChannel(i) PROVE Quiet
  BY <1>3, Zenon DEF PushBuffer, DestroyDataChannel
<1>4. UNCHANGED vars => Quiet BY Zenon DEF vars
<1> QED BY <1>1, <1>2, <1>3, <1>4, Zenon DEF Next, Handler

\* A created channel is a fresh element, in front of the pending list or in the table.
LEMMA CreateTables ==
    ASSUME TypeOK, NEW i \in StreamIds, NEW both \in BOOLEAN, CreateDataChannel(i, both)
    PROVE  /\ made + 1 \in Bins /\ made + 1 \notin Made /\ made + 1 \in Made'
           /\ Made \subseteq Made' /\ Made \subseteq Bins
           /\ id'[made + 1] = i /\ \A b \in Made : id'[b] = id[b]
           /\ \/ Pending' = {made + 1} \cup Pending /\ table' = table
              \/ Pending' = Pending /\ table' = [table EXCEPT ![i] = made + 1]
              \/ Pending' = Pending /\ table' = table
<1> DEFINE new == made + 1
<1>1. /\ new \in Bins /\ made' = new /\ id' = [id EXCEPT ![new] = i]
      /\ \/ pending' = <<new>> \o pending /\ table' = table
         \/ pending' = pending /\ table' = [table EXCEPT ![i] = new]
         \/ pending' = pending /\ table' = table
  BY CreateEffect
<1>2. /\ id \in [Bins -> StreamIds \cup {NoId}] /\ pending \in Seq(Bins)
      /\ made \in 0 .. MaxBins
  BY Zenon DEF TypeOK
<1>3. made \in Nat BY <1>2
<1>4. /\ new \notin Made /\ new \in Made' /\ Made \subseteq Made' /\ Made \subseteq Bins
  BY <1>1, <1>3, FreshIsNew
<1>5. id'[new] = i /\ \A b \in Made : id'[b] = id[b] BY <1>1, <1>2, <1>4
<1>6. Range(<<new>> \o pending) = {new} \cup Range(pending)
  <2> HIDE DEF Bins, new
  <2> QED BY <1>1, <1>2, PendingPrepend
<1>7. pending' = <<new>> \o pending => Pending' = {new} \cup Pending
  BY <1>6, Zenon DEF Pending
<1>8. pending' = pending => Pending' = Pending BY DEF Pending
<1> QED BY <1>1, <1>4, <1>5, <1>7, <1>8, Zenon

\* pad_added leaves the table, or adds a fresh element of the peer's to it.
LEMMA PadAddedTables ==
    ASSUME TypeOK, NEW i \in StreamIds, PadAdded(i)
    PROVE  /\ Pending' = Pending
           /\ \/ table' = table /\ made' = made /\ id' = id /\ Made' = Made
              \/ /\ table[i] = NoBin /\ table' = [table EXCEPT ![i] = made + 1] /\ ~Own(i)
                 /\ made + 1 \in Bins /\ made + 1 \notin Made /\ made + 1 \in Made'
                 /\ made' = made + 1 /\ Made \subseteq Made' /\ Made \subseteq Bins
                 /\ id'[made + 1] = i /\ \A b \in Made : id'[b] = id[b]
<1>1. Pending' = Pending
  <2>1. pending' = pending BY PadAddedEffect, Zenon DEF Others
  <2> QED BY <2>1 DEF Pending
<1>2. CASE UNCHANGED <<table, made, id>> BY <1>1, <1>2 DEF Made
<1>3. CASE /\ table[i] = NoBin /\ ~Own(i) /\ made + 1 \in Bins /\ made' = made + 1
           /\ id' = [id EXCEPT ![made + 1] = i] /\ table' = [table EXCEPT ![i] = made + 1]
  <2>1. id \in [Bins -> StreamIds \cup {NoId}] /\ made \in 0 .. MaxBins
    BY Zenon DEF TypeOK
  <2>2. made \in Nat BY <2>1
  <2>3. /\ made + 1 \notin Made /\ made + 1 \in Made' /\ Made \subseteq Made'
        /\ Made \subseteq Bins
    BY <1>3, <2>2, FreshIsNew
  <2>4. id'[made + 1] = i /\ \A b \in Made : id'[b] = id[b] BY <1>3, <2>1, <2>3
  <2> QED BY <1>1, <1>3, <2>3, <2>4
<1> QED BY <1>2, <1>3, PadAddedEffect, Zenon

\* A step on a pad alone: it is exposed, linked to its channel, or gone.
LEMMA PadMoves ==
    ASSUME TypeOK, Running, Exposing, NEW i \in StreamIds,
           ExposePad(i) \/ LinkPad(i) \/ RemoteReset(i)
    PROVE  /\ pc[i] = "idle" /\ \A j \in StreamIds : j # i => pad'[j] = pad[j]
           /\ \/ pad'[i] \in {NoBin, NoPad}
              \/ pad[i] = NoBin /\ table[i] # NoBin /\ pad'[i] = table[i]
           /\ pad'[i] = NoPad => pad[i] = NoPad \/ SctpAt("removing", i)'
           /\ pad[i] \in Bins => SctpAt("removing", i)'
           /\ \A j \in StreamIds : ~SctpAt("removing", j) /\ ~SctpAt("closing", j)'
           /\ UNCHANGED Others /\ UNCHANGED <<table, made, id, closed, handles, mutex>>
<1>a. pad \in [StreamIds -> Bins \cup {NoBin, NoPad}] /\ table \in [StreamIds -> Bins \cup {NoBin}]
  BY Zenon DEF TypeOK
<1>b. pc[i] # "idle" => pad[i] \in Bins BY Zenon DEF Running
<1>1. CASE ExposePad(i)
  <2>1. /\ sctp = Idle /\ pad[i] = NoPad /\ pad' = [pad EXCEPT ![i] = NoBin]
        /\ SctpGoes("adding", i, NoBin)
        /\ UNCHANGED Others /\ UNCHANGED <<table, made, id, closed, handles, mutex>>
    BY <1>1, ExposePadEffect
  <2>2. pc[i] = "idle" BY <1>b, <2>1
  <2>3. \A j \in StreamIds : ~SctpAt("removing", j) /\ ~SctpAt("closing", j)'
    BY <2>1 DEF SctpAt, SctpGoes, Idle
  <2>4. (\A j \in StreamIds : j # i => pad'[j] = pad[j]) /\ pad'[i] = NoBin
    BY <1>a, <2>1
  <2> QED BY <2>1, <2>2, <2>3, <2>4
<1>2. CASE LinkPad(i)
  <2>1. /\ SctpAt("linking", i) /\ sctp' = Idle
        /\ pad' = [pad EXCEPT ![i] = IF pad[i] = NoPad THEN NoPad ELSE sctp.channel]
        /\ UNCHANGED Others /\ UNCHANGED <<table, made, id, closed, handles, mutex>>
    BY <1>2, LinkPadEffect
  <2>2. pad[i] = NoPad \/ (pad[i] = NoBin /\ table[i] # NoBin /\ table[i] = sctp.channel)
    BY <2>1 DEF Exposing
  <2>3. pc[i] = "idle" BY <1>b, <2>2
  <2>4. \A j \in StreamIds : ~SctpAt("removing", j) /\ ~SctpAt("closing", j)'
    BY <2>1 DEF SctpAt, Idle
  <2>5. /\ \A j \in StreamIds : j # i => pad'[j] = pad[j]
        /\ pad'[i] = IF pad[i] = NoPad THEN NoPad ELSE sctp.channel
    BY <1>a, <2>1
  <2>6. pad[i] \notin Bins BY <2>2
  <2>7. pad'[i] = NoPad => pad[i] = NoPad BY <1>a, <2>2, <2>5
  <2>8. \/ pad'[i] \in {NoBin, NoPad}
        \/ pad[i] = NoBin /\ table[i] # NoBin /\ pad'[i] = table[i]
    BY <2>2, <2>5
  <2> QED BY <2>1, <2>3, <2>4, <2>5, <2>6, <2>7, <2>8
<1>3. CASE RemoteReset(i)
  <2>1. /\ sctp = Idle /\ pc[i] = "idle" /\ pad' = [pad EXCEPT ![i] = NoPad]
        /\ SctpGoes("removing", i, NoBin)
        /\ UNCHANGED Others /\ UNCHANGED <<table, made, id, closed, handles, mutex>>
    BY <1>3, RemoteResetEffect
  <2>2. \A j \in StreamIds : ~SctpAt("removing", j) /\ ~SctpAt("closing", j)'
    BY <2>1 DEF SctpAt, SctpGoes, Idle
  <2>3. SctpAt("removing", i)' BY <2>1 DEF SctpAt, SctpGoes
  <2>4. (\A j \in StreamIds : j # i => pad'[j] = pad[j]) /\ pad'[i] = NoPad
    BY <1>a, <2>1
  <2> QED BY <2>1, <2>2, <2>3, <2>4
<1> QED BY <1>1, <1>2, <1>3

\* A stream that is forgotten has no pad any more and is in no table.
LEMMA Forgets ==
    ASSUME TypeOK, Running, Exposing, NEW i \in StreamIds, PadRemoved(i) \/ ResetStream(i)
    PROVE  /\ pc[i] = "idle" /\ UNCHANGED Others /\ UNCHANGED <<made, id>>
           /\ \/ /\ pad' = [pad EXCEPT ![i] = NoPad]
                 /\ table' = [table EXCEPT ![i] = NoBin]
                 /\ handles' = [handles EXCEPT ![i] = NoBin]
              \/ ResetStream(i) /\ pad[i] = NoPad
                 /\ UNCHANGED <<pad, table, handles, closed>>
           /\ PadRemoved(i) => ~SctpAt("removing", i)' /\ mutex = Free /\ mutex' = Free
           /\ ResetStream(i) => sctp' = sctp
           /\ \A j \in StreamIds : j # i /\ SctpAt("removing", j) => sctp' = sctp
<1>a. /\ pad \in [StreamIds -> Bins \cup {NoBin, NoPad}]
      /\ pc[i] # "idle" => pad[i] \in Bins
  BY Zenon DEF TypeOK, Running
<1>1. CASE PadRemoved(i)
  <2>1. /\ SctpAt("removing", i) /\ mutex = Free
        /\ table' = [table EXCEPT ![i] = NoBin] /\ handles' = [handles EXCEPT ![i] = NoBin]
        /\ sctp' = Idle \/ SctpGoes("closing", i, table[i])
        /\ UNCHANGED Others /\ UNCHANGED <<pad, made, id, closed, mutex>>
    BY <1>1, PadRemovedEffect, Zenon
  <2>2. pad[i] = NoPad BY <2>1 DEF Exposing
  <2>3. pad' = [pad EXCEPT ![i] = NoPad] BY <1>a, <2>1, <2>2
  <2>4. ~SctpAt("removing", i)' BY <2>1 DEF SctpAt, SctpGoes, Idle
  <2>5. \A j \in StreamIds : j # i => ~SctpAt("removing", j) BY <2>1 DEF SctpAt
  <2>6. pc[i] = "idle" BY <1>a, <2>2
  <2>7. ~ResetStream(i)
    <3>1. i # Free BY ConstantsAssumption
    <3> QED BY <2>1, <3>1, ResetStreamEffect, Zenon
  <2> QED BY <2>1, <2>3, <2>4, <2>5, <2>6, <2>7
<1>2. CASE ResetStream(i)
  <2>1. /\ mutex = i /\ UNCHANGED Others /\ UNCHANGED <<made, id, sctp>>
        /\ \/ /\ pc[i] = "idle" /\ pad' = [pad EXCEPT ![i] = NoPad]
              /\ table' = [table EXCEPT ![i] = NoBin]
              /\ handles' = [handles EXCEPT ![i] = NoBin]
           \/ pad[i] = NoPad /\ UNCHANGED <<pad, table, handles, closed>>
    BY <1>2, ResetStreamEffect, Zenon
  <2>2. pc[i] = "idle" BY <1>a, <2>1
  <2>3. ~PadRemoved(i)
    <3>1. i # Free BY ConstantsAssumption
    <3> QED BY <2>1, <3>1, PadRemovedEffect, Zenon
  <2> QED BY <1>2, <2>1, <2>2, <2>3
<1> QED BY <1>1, <1>2

(***************************************************************************)
(* The streaming threads run handlers of linked pads only.                 *)
(***************************************************************************)
LEMMA StepRunning == TypeOK /\ Running /\ Exposing /\ [Next]_vars => Running'
<1> SUFFICES ASSUME TypeOK, Running, Exposing, [Next]_vars,
                    NEW i \in StreamIds, pc'[i] # "idle"
             PROVE  pad'[i] \in Bins
  BY DEF Running
<1>1. pad \in [StreamIds -> Bins \cup {NoBin, NoPad}] BY Zenon DEF TypeOK
<1>2. pc[i] # "idle" => pad[i] \in Bins BY Zenon DEF Running
<1>3. ASSUME NEW j \in StreamIds, Handler(j) PROVE pad'[i] \in Bins
  <2>1. pad' = pad BY <1>3, HandlerFrame
  <2>2. pad[j] \in Bins /\ (i # j => pc'[i] = pc[i]) BY <1>3, HandlerEffect
  <2> QED BY <1>2, <2>1, <2>2
<1>4. ASSUME NEW j \in StreamIds, ExposePad(j) \/ LinkPad(j) \/ RemoteReset(j)
      PROVE  pad'[i] \in Bins
  <2>1. pc[j] = "idle" /\ pc' = pc /\ \A k \in StreamIds : k # j => pad'[k] = pad[k]
    BY <1>4, PadMoves, Zenon DEF Others
  <2> QED BY <1>2, <2>1
<1>5. ASSUME NEW j \in StreamIds, PadRemoved(j) \/ ResetStream(j) PROVE pad'[i] \in Bins
  <2>1. /\ pc[j] = "idle" /\ pc' = pc
        /\ pad' = pad \/ pad' = [pad EXCEPT ![j] = NoPad]
    BY <1>5, Forgets, Zenon DEF Others
  <2>2. i # j BY <2>1
  <2> QED BY <1>1, <1>2, <2>1, <2>2
<1>6. ASSUME NEW j \in StreamIds, NEW both \in BOOLEAN, CreateDataChannel(j, both)
      PROVE  pad' = pad /\ pc' = pc
  BY <1>6, CreateEffect, Zenon
<1>7. AssociationUp => pad' = pad /\ pc' = pc BY Zenon DEF AssociationUp
<1>8. ASSUME NEW j \in StreamIds, PadAdded(j) \/ EmitClosed(j) PROVE pad' = pad /\ pc' = pc
  BY <1>8, PadAddedEffect, EmitClosedEffect, Zenon DEF Others
<1> QED BY <1>2, <1>3, <1>4, <1>5, <1>6, <1>7, <1>8, Frame, Zenon

(***************************************************************************)
(* The SCTP thread works on the pad it has taken up.                       *)
(***************************************************************************)
LEMMA StepExposing == TypeOK /\ Running /\ Exposing /\ [Next]_vars => Exposing'
<1> SUFFICES ASSUME TypeOK, Running, Exposing, [Next]_vars PROVE Exposing'
  OBVIOUS
<1>a. /\ pad \in [StreamIds -> Bins \cup {NoBin, NoPad}]
      /\ table \in [StreamIds -> Bins \cup {NoBin}]
      /\ made \in 0 .. MaxBins
  BY Zenon DEF TypeOK
<1>1. ASSUME sctp' = Idle PROVE Exposing' BY <1>1 DEF Exposing, SctpAt, Idle
<1>2. ASSUME pad' = pad, sctp' = sctp,
             \A i \in StreamIds : table'[i] # table[i] => table[i] = NoBin
      PROVE  Exposing'
  BY <1>2, Zenon DEF Exposing, SctpAt
<1>3. ASSUME NEW j \in StreamIds, NEW both \in BOOLEAN, CreateDataChannel(j, both)
      PROVE  Exposing'
  <2>1. /\ pad' = pad /\ sctp' = sctp /\ table[j] = NoBin
        /\ table' = table \/ table' = [table EXCEPT ![j] = made + 1]
    BY <1>3, CreateEffect
  <2> QED BY <1>2, <1>a, <2>1
<1>4. CASE AssociationUp BY <1>2, <1>4, AssociationUpEffect, Zenon
<1>5. ASSUME NEW j \in StreamIds, ExposePad(j) PROVE Exposing'
  <2>1. pad'[j] = NoBin BY <1>5, <1>a, ExposePadEffect
  <2> QED BY <1>5, <2>1, ExposePadEffect DEF Exposing, SctpAt, SctpGoes
<1>6. ASSUME NEW j \in StreamIds, PadAdded(j) PROVE Exposing'
  <2>1. pad[j] \in {NoBin, NoPad} /\ pad' = pad
    BY <1>6, PadAddedEffect, Zenon DEF Exposing
  <2>2. CASE sctp' = Idle BY <1>1, <2>2
  <2>3. CASE SctpGoes("linking", j, table'[j]) /\ table'[j] # NoBin
    BY <2>1, <2>3 DEF Exposing, SctpAt, SctpGoes
  <2>4. \/ sctp' = Idle
        \/ SctpGoes("linking", j, table'[j]) /\ table'[j] # NoBin
    BY <1>6, <1>a, PadAddedEffect
  <2> QED BY <2>2, <2>3, <2>4
<1>7. ASSUME NEW j \in StreamIds, LinkPad(j) \/ EmitClosed(j) PROVE Exposing'
  BY <1>1, <1>7, LinkPadEffect, EmitClosedEffect, Zenon
<1>8. ASSUME NEW j \in StreamIds, RemoteReset(j) PROVE Exposing'
  <2>1. pad'[j] = NoPad BY <1>8, <1>a, RemoteResetEffect
  <2> QED BY <1>8, <2>1, RemoteResetEffect DEF Exposing, SctpAt, SctpGoes
<1>9. ASSUME NEW j \in StreamIds, PadRemoved(j) PROVE Exposing'
  <2>1. sctp' = Idle \/ SctpGoes("closing", j, table[j])
    BY <1>9, PadRemovedEffect, Zenon
  <2> QED BY <2>1 DEF Exposing, SctpAt, SctpGoes, Idle
<1>10. ASSUME NEW j \in StreamIds, ResetStream(j) PROVE Exposing'
  <2>1. /\ sctp' = sctp
        /\ \/ pad' = pad /\ table' = table
           \/ /\ pad' = [pad EXCEPT ![j] = NoPad] /\ table' = [table EXCEPT ![j] = NoBin]
    BY <1>10, ResetStreamEffect, Zenon
  <2>2. \A i \in StreamIds : \/ pad'[i] = NoPad
                             \/ pad'[i] = pad[i] /\ table'[i] = table[i]
    BY <1>a, <2>1
  <2> QED BY <2>1, <2>2 DEF Exposing, SctpAt
<1>11. ASSUME NEW j \in StreamIds, Handler(j)
       PROVE  UNCHANGED <<pad, sctp, table>>
  BY <1>11, HandlerFrame, Zenon
<1> QED BY <1>2, <1>3, <1>4, <1>5, <1>6, <1>7, <1>8, <1>9, <1>10, <1>11, Frame, Zenon

(***************************************************************************)
(* Tables, pads and elements stay tied together.                           *)
(***************************************************************************)
LEMMA StepWiring == TypeOK /\ Running /\ Exposing /\ Wiring /\ [Next]_vars => Wiring'
<1> SUFFICES ASSUME TypeOK, Running, Exposing, Wiring, [Next]_vars PROVE Wiring'
  OBVIOUS
<1>a. /\ table \in [StreamIds -> Bins \cup {NoBin}]
      /\ pad \in [StreamIds -> Bins \cup {NoBin, NoPad}]
  BY Zenon DEF TypeOK
<1>b. PendingIsLocal /\ TableIsMade /\ PadIsLinked
  BY Zenon DEF Wiring
<1>1. ASSUME NEW i \in StreamIds, NEW both \in BOOLEAN, CreateDataChannel(i, both)
      PROVE  Wiring'
  <2> DEFINE new == made + 1
  <2>1. Own(i) /\ table[i] = NoBin /\ pad' = pad BY <1>1, CreateEffect
  <2>2. /\ new \in Bins /\ new \notin Made /\ new \in Made' /\ Made \subseteq Made'
        /\ id'[new] = i /\ \A b \in Made : id'[b] = id[b]
        /\ \/ Pending' = {new} \cup Pending /\ table' = table
           \/ Pending' = Pending /\ table' = [table EXCEPT ![i] = new]
           \/ Pending' = Pending /\ table' = table
    BY <1>1, CreateTables
  <2>3. pad[i] \notin Bins BY <1>b, <2>1 DEF PadIsLinked
  <2> HIDE DEF new, Bins
  <2>4. PendingIsLocal' BY <1>b, <2>1, <2>2 DEF PendingIsLocal
  <2>5. TableIsMade' BY <1>a, <1>b, <2>1, <2>2 DEF TableIsMade, PendingIsLocal
  <2>6. PadIsLinked' BY <1>a, <1>b, <2>1, <2>2, <2>3 DEF PadIsLinked
  <2> QED BY <2>4, <2>5, <2>6 DEF Wiring
<1>2. CASE AssociationUp
  <2>1. /\ Pending' = {} /\ UNCHANGED <<made, id, pad>>
        /\ \A i \in StreamIds : table'[i] # table[i] =>
             table[i] = NoBin /\ table'[i] \in Pending /\ id[table'[i]] = i
    BY <1>2, AssociationUpEffect
  <2>2. Made' = Made BY <2>1 DEF Made
  <2>3. \A i \in StreamIds : pad[i] \in Bins => table[i] # NoBin
    BY <1>b DEF PadIsLinked
  <2> HIDE DEF Bins
  <2>4. PendingIsLocal' BY <2>1 DEF PendingIsLocal
  <2>5. TableIsMade' BY <1>b, <2>1, <2>2 DEF TableIsMade, PendingIsLocal
  <2>6. PadIsLinked' BY <1>b, <2>1, <2>3 DEF PadIsLinked
  <2> QED BY <2>4, <2>5, <2>6 DEF Wiring
<1>3. ASSUME NEW i \in StreamIds, PadAdded(i) PROVE Wiring'
  <2> DEFINE new == made + 1
  <2>1. /\ Pending' = Pending
        /\ \/ table' = table /\ id' = id /\ Made' = Made
           \/ /\ table[i] = NoBin /\ table' = [table EXCEPT ![i] = new]
              /\ new \notin Made /\ new \in Made' /\ Made \subseteq Made'
              /\ id'[new] = i /\ \A b \in Made : id'[b] = id[b]
    BY <1>3, PadAddedTables
  <2>2. pad' = pad BY <1>3, PadAddedEffect, Zenon
  <2>3. \A j \in StreamIds : pad[j] \in Bins => table[j] # NoBin
    BY <1>b DEF PadIsLinked
  <2> HIDE DEF new, Bins
  <2>4. PendingIsLocal' BY <1>b, <2>1 DEF PendingIsLocal
  <2>5. TableIsMade' BY <1>a, <1>b, <2>1 DEF TableIsMade, PendingIsLocal
  <2>6. PadIsLinked' BY <1>a, <1>b, <2>1, <2>2, <2>3 DEF PadIsLinked
  <2> QED BY <2>4, <2>5, <2>6 DEF Wiring
<1>4. ASSUME NEW i \in StreamIds, ExposePad(i) \/ LinkPad(i) \/ RemoteReset(i)
      PROVE  Wiring'
  <2>1. /\ \A j \in StreamIds : j # i => pad'[j] = pad[j]
        /\ pad'[i] \in {NoBin, NoPad} \/ pad'[i] = table[i]
        /\ UNCHANGED <<pending, table, made, id>>
    BY <1>4, PadMoves DEF Others
  <2>2. Pending' = Pending /\ Made' = Made BY <2>1 DEF Pending, Made
  <2>3. PendingIsLocal' /\ TableIsMade'
    BY <1>b, <2>1, <2>2 DEF PendingIsLocal, TableIsMade
  <2>4. PadIsLinked' BY <1>b, <2>1 DEF PadIsLinked
  <2> QED BY <2>3, <2>4 DEF Wiring
<1>5. ASSUME NEW i \in StreamIds, PadRemoved(i) \/ ResetStream(i) PROVE Wiring'
  <2>1. /\ UNCHANGED <<pending, made, id>>
        /\ \/ pad' = pad /\ table' = table
           \/ pad' = [pad EXCEPT ![i] = NoPad] /\ table' = [table EXCEPT ![i] = NoBin]
    BY <1>5, Forgets, Zenon DEF Others
  <2>2. Pending' = Pending /\ Made' = Made BY <2>1 DEF Pending, Made
  <2>3. PendingIsLocal' BY <1>b, <2>1, <2>2 DEF PendingIsLocal
  <2>4. TableIsMade' BY <1>a, <1>b, <2>1, <2>2 DEF TableIsMade
  <2>5. PadIsLinked' BY <1>a, <1>b, <2>1 DEF PadIsLinked
  <2> QED BY <2>3, <2>4, <2>5 DEF Wiring
<1>6. CASE UNCHANGED <<pending, made, id, table, pad>>
  <2>1. Made' = Made /\ Pending' = Pending BY <1>6 DEF Made, Pending
  <2> QED BY <1>6, <1>b, <2>1, SMT DEF Wiring, PendingIsLocal, TableIsMade, PadIsLinked
<1>7. ASSUME NEW i \in StreamIds, Handler(i) \/ EmitClosed(i)
      PROVE  UNCHANGED <<pending, made, id, table, pad>>
  BY <1>7, HandlerFrame, EmitClosedEffect, Zenon DEF Others
<1> QED BY <1>1, <1>2, <1>3, <1>4, <1>5, <1>6, <1>7, Frame, Zenon

(***************************************************************************)
(* The handle of a stream stays the stream's channel.                      *)
(***************************************************************************)
LEMMA StepHandleBacked ==
    TypeOK /\ Running /\ Exposing /\ Wiring /\ HandleBacked /\ [Next]_vars => HandleBacked'
<1> SUFFICES ASSUME TypeOK, Running, Exposing, Wiring, HandleBacked, [Next]_vars,
                    NEW j \in StreamIds, handles'[j] # NoBin
             PROVE  table'[j] = handles'[j]
  BY DEF HandleBacked
<1>a. /\ table \in [StreamIds -> Bins \cup {NoBin}]
      /\ handles \in [StreamIds -> Bins \cup {NoBin}]
  BY Zenon DEF TypeOK
<1>b. handles[j] # NoBin => table[j] = handles[j] BY Zenon DEF HandleBacked
<1>1. ASSUME NEW i \in StreamIds, NEW both \in BOOLEAN, CreateDataChannel(i, both)
      PROVE  table'[j] = handles'[j]
  <2>1. /\ handles' = handles /\ table[i] = NoBin
        /\ table' = table \/ table' = [table EXCEPT ![i] = made + 1]
    BY <1>1, CreateEffect
  <2> QED BY <1>a, <1>b, <2>1
<1>2. CASE AssociationUp
  <2>1. handles' = handles /\ (table'[j] # table[j] => table[j] = NoBin)
    BY <1>2, AssociationUpEffect
  <2> QED BY <1>b, <2>1
<1>3. ASSUME NEW i \in StreamIds, PadAdded(i) PROVE table'[j] = handles'[j]
  <2>1. /\ handles' = handles
        /\ \/ table' = table
           \/ table[i] = NoBin /\ table' = [table EXCEPT ![i] = made + 1]
    BY <1>3, PadAddedEffect
  <2> QED BY <1>a, <1>b, <2>1
<1>4. ASSUME NEW i \in StreamIds, PadRemoved(i) \/ ResetStream(i)
      PROVE  table'[j] = handles'[j]
  <2>1. \/ UNCHANGED <<table, handles>>
        \/ /\ table' = [table EXCEPT ![i] = NoBin]
           /\ handles' = [handles EXCEPT ![i] = NoBin]
    BY <1>4, Forgets, Zenon
  <2> QED BY <1>a, <1>b, <2>1
<1>5. ASSUME NEW i \in StreamIds, Handler(i) PROVE table'[j] = handles'[j]
  <2>1. table' = table /\ pad[i] = table[i]
    BY <1>5, HandlerFrame, HandlerEffect DEF Wiring, PadIsLinked
  <2>2. CASE handles'[j] = handles[j] BY <1>b, <2>1, <2>2
  <2>3. CASE j = i /\ handles'[i] = IF handles[i] = NoBin THEN pad[i] ELSE handles[i]
    BY <1>b, <2>1, <2>3
  <2> QED BY <1>5, <2>2, <2>3, HandlerEffect
<1>6. ASSUME NEW i \in StreamIds,
             ExposePad(i) \/ LinkPad(i) \/ RemoteReset(i) \/ EmitClosed(i)
      PROVE  UNCHANGED <<table, handles>>
  BY <1>6, ExposePadEffect, LinkPadEffect, RemoteResetEffect, EmitClosedEffect, Zenon
<1> QED BY <1>b, <1>1, <1>2, <1>3, <1>4, <1>5, <1>6, Frame, Zenon

\* A stream that stays in the table keeps its link, or its removal is under way.
LEMMA StreamStays ==
    ASSUME TypeOK, Running, Exposing, [Next]_vars, NEW i \in StreamIds, table'[i] # NoBin
    PROVE  /\ pad[i] \in Bins => pad'[i] = pad[i] \/ SctpAt("removing", i)'
           /\ SctpAt("removing", i) => SctpAt("removing", i)'
<1>a. /\ pad \in [StreamIds -> Bins \cup {NoBin, NoPad}]
      /\ table \in [StreamIds -> Bins \cup {NoBin}]
  BY Zenon DEF TypeOK
<1>1. ASSUME pad' = pad, sctp' = sctp
      PROVE  /\ pad[i] \in Bins => pad'[i] = pad[i] \/ SctpAt("removing", i)'
             /\ SctpAt("removing", i) => SctpAt("removing", i)'
  BY <1>1 DEF SctpAt
<1>2. ASSUME NEW j \in StreamIds, ExposePad(j) \/ LinkPad(j) \/ RemoteReset(j)
      PROVE  /\ pad[i] \in Bins => pad'[i] = pad[i] \/ SctpAt("removing", i)'
             /\ SctpAt("removing", i) => SctpAt("removing", i)'
  BY <1>2, PadMoves
<1>3. ASSUME NEW j \in StreamIds, PadRemoved(j) \/ ResetStream(j)
      PROVE  /\ pad[i] \in Bins => pad'[i] = pad[i] \/ SctpAt("removing", i)'
             /\ SctpAt("removing", i) => SctpAt("removing", i)'
  <2>1. /\ \/ pad' = pad /\ ResetStream(j)
           \/ pad' = [pad EXCEPT ![j] = NoPad] /\ table' = [table EXCEPT ![j] = NoBin]
        /\ ResetStream(j) => sctp' = sctp
        /\ \A k \in StreamIds : k # j /\ SctpAt("removing", k) => sctp' = sctp
    BY <1>3, Forgets, Zenon
  <2>2. CASE pad' = pad /\ ResetStream(j) BY <1>1, <2>1, <2>2
  <2>3. CASE pad' = [pad EXCEPT ![j] = NoPad] /\ table' = [table EXCEPT ![j] = NoBin]
    <3>1. i # j BY <1>a, <2>3
    <3>2. pad'[i] = pad[i] BY <1>a, <2>3, <3>1
    <3>3. SctpAt("removing", i) => SctpAt("removing", i)' BY <2>1, <3>1 DEF SctpAt
    <3> QED BY <3>2, <3>3
  <2> QED BY <2>1, <2>2, <2>3
<1>4. ASSUME NEW j \in StreamIds, PadAdded(j) \/ EmitClosed(j)
      PROVE  pad' = pad /\ ~SctpAt("removing", i)
  <2>1. pad' = pad /\ (SctpAt("adding", j) \/ SctpAt("closing", j))
    BY <1>4, PadAddedEffect, EmitClosedEffect, Zenon
  <2> QED BY <2>1 DEF SctpAt
<1>5. ASSUME NEW j \in StreamIds, NEW both \in BOOLEAN, CreateDataChannel(j, both)
      PROVE  UNCHANGED <<pad, sctp>>
  BY <1>5, CreateEffect, Zenon
<1>6. AssociationUp => UNCHANGED <<pad, sctp>> BY Zenon DEF AssociationUp
<1>7. ASSUME NEW j \in StreamIds, Handler(j) PROVE UNCHANGED <<pad, sctp>>
  BY <1>7, HandlerFrame, Zenon
<1> QED BY <1>1, <1>2, <1>3, <1>4, <1>5, <1>6, <1>7, Frame, Zenon

(***************************************************************************)
(* The handshake stays in order.                                           *)
(***************************************************************************)
LEMMA StepHandshake ==
    /\ TypeOK /\ Running /\ Exposing /\ Wiring /\ HandleBacked /\ Handshake
    /\ [Next]_vars
    => Handshake'
<1> SUFFICES ASSUME TypeOK, Running, Exposing, Wiring, HandleBacked, Handshake,
                    [Next]_vars
             PROVE  Handshake'
  OBVIOUS
<1>a. /\ table \in [StreamIds -> Bins \cup {NoBin}]
      /\ handles \in [StreamIds -> Bins \cup {NoBin}]
      /\ pad \in [StreamIds -> Bins \cup {NoBin, NoPad}]
  BY Zenon DEF TypeOK
<1>b. PendingIsLocal /\ TableIsMade /\ PadIsLinked BY Zenon DEF Wiring
<1>c. NegotiatedIsMade /\ UnlinkedIsSilent /\ AckIsFirst /\ EmitHasHandle
  BY Zenon DEF Handshake
<1>d. \A i \in StreamIds : pc[i] # "idle" => pad[i] \in Bins BY Zenon DEF Running
\* A channel of the table before and after the step, not negotiated by it.
<1>e. ASSUME NEW j \in StreamIds, table'[j] # NoBin, table'[j] = table[j],
             pad'[j] # table'[j], ~SctpAt("removing", j)'
      PROVE  table'[j] \notin negotiated
  <2>1. ~SctpAt("removing", j) BY <1>e, StreamStays
  <2>2. table[j] \in Bins BY <1>a, <1>e
  <2>3. pad[j] # table[j] BY <1>e, <2>2, StreamStays
  <2> QED BY <1>c, <1>e, <2>1, <2>3 DEF UnlinkedIsSilent
<1>1. ASSUME NEW i \in StreamIds, NEW both \in BOOLEAN, CreateDataChannel(i, both)
      PROVE  Handshake'
  <2> DEFINE new == made + 1
  <2>1. UNCHANGED <<pad, pc, handles, negotiated>> BY <1>1, CreateEffect
  <2>2. /\ new \notin Made /\ Made \subseteq Made'
        /\ Pending' = {new} \cup Pending \/ Pending' = Pending
        /\ table' = table \/ table' = [table EXCEPT ![i] = new]
    BY <1>1, CreateTables
  <2> HIDE DEF new, Bins
  <2>3. NegotiatedIsMade' BY <1>c, <2>1, <2>2 DEF NegotiatedIsMade
  <2>4. new \notin negotiated BY <1>c, <2>2 DEF NegotiatedIsMade
  <2>5. \A j \in StreamIds : table'[j] = table[j] \/ table'[j] = new
    BY <1>a, <2>2
  <2>6. UnlinkedIsSilent' BY <1>e, <2>1, <2>4, <2>5 DEF UnlinkedIsSilent
  <2>7. AckIsFirst' /\ EmitHasHandle' BY <1>c, <2>1 DEF AckIsFirst, EmitHasHandle
  <2> QED BY <2>3, <2>6, <2>7 DEF Handshake
<1>2. CASE AssociationUp
  <2>1. /\ Pending' = {} /\ UNCHANGED <<made, pad, pc, handles, negotiated>>
        /\ \A i \in StreamIds : table'[i] # table[i] => table'[i] \in Pending
    BY <1>2, AssociationUpEffect
  <2>2. Made' = Made BY <2>1 DEF Made
  <2>3. NegotiatedIsMade' BY <1>c, <2>1, <2>2 DEF NegotiatedIsMade
  <2>4. UnlinkedIsSilent'
    <3>1. \A j \in StreamIds : table'[j] # table[j] => table'[j] \notin negotiated
      BY <1>c, <2>1 DEF NegotiatedIsMade
    <3> QED BY <1>e, <2>1, <3>1 DEF UnlinkedIsSilent
  <2>5. AckIsFirst' /\ EmitHasHandle' BY <1>c, <2>1 DEF AckIsFirst, EmitHasHandle
  <2> QED BY <2>3, <2>4, <2>5 DEF Handshake
<1>3. ASSUME NEW i \in StreamIds, PadAdded(i) PROVE Handshake'
  <2> DEFINE new == made + 1
  <2>1. UNCHANGED <<pad, pc, handles, negotiated>>
    BY <1>3, PadAddedEffect, Zenon DEF Others
  <2>2. /\ Pending' = Pending
        /\ \/ table' = table /\ Made' = Made
           \/ /\ new \notin Made /\ Made \subseteq Made'
              /\ table' = [table EXCEPT ![i] = new]
    BY <1>3, PadAddedTables, Zenon
  <2> HIDE DEF new, Bins
  <2>3. NegotiatedIsMade' BY <1>c, <2>1, <2>2 DEF NegotiatedIsMade
  <2>4. \A j \in StreamIds : table'[j] = table[j] \/ table'[j] \notin negotiated
    BY <1>a, <1>c, <2>2 DEF NegotiatedIsMade
  <2>5. UnlinkedIsSilent' BY <1>e, <2>1, <2>4 DEF UnlinkedIsSilent
  <2>6. AckIsFirst' /\ EmitHasHandle' BY <1>c, <2>1 DEF AckIsFirst, EmitHasHandle
  <2> QED BY <2>3, <2>5, <2>6 DEF Handshake
<1>4. ASSUME NEW i \in StreamIds, ExposePad(i) \/ LinkPad(i) \/ RemoteReset(i)
      PROVE  Handshake'
  <2>1. /\ pc[i] = "idle" /\ \A j \in StreamIds : j # i => pad'[j] = pad[j]
        /\ UNCHANGED <<pending, pc, negotiated, table, made, handles>>
    BY <1>4, PadMoves DEF Others
  <2>2. Pending' = Pending /\ Made' = Made BY <2>1 DEF Pending, Made
  <2>3. NegotiatedIsMade' BY <1>c, <2>1, <2>2 DEF NegotiatedIsMade
  <2>4. UnlinkedIsSilent' BY <1>e, <2>1 DEF UnlinkedIsSilent
  <2>5. AckIsFirst' /\ EmitHasHandle' BY <1>c, <2>1 DEF AckIsFirst, EmitHasHandle
  <2> QED BY <2>3, <2>4, <2>5 DEF Handshake
<1>5. ASSUME NEW i \in StreamIds, PadRemoved(i) \/ ResetStream(i) PROVE Handshake'
  <2>1. /\ pc[i] = "idle" /\ UNCHANGED <<made, pending, pc, negotiated>>
        /\ \/ UNCHANGED <<pad, table, handles>>
           \/ /\ pad' = [pad EXCEPT ![i] = NoPad] /\ table' = [table EXCEPT ![i] = NoBin]
              /\ handles' = [handles EXCEPT ![i] = NoBin]
    BY <1>5, Forgets, Zenon DEF Others
  <2>2. Pending' = Pending /\ Made' = Made BY <2>1 DEF Pending, Made
  <2>3. NegotiatedIsMade' BY <1>c, <2>1, <2>2 DEF NegotiatedIsMade
  <2>4. \A j \in StreamIds : table'[j] = table[j] \/ table'[j] = NoBin
    BY <1>a, <2>1
  <2>5. UnlinkedIsSilent' BY <1>e, <2>1, <2>4 DEF UnlinkedIsSilent
  <2>6. \A j \in StreamIds : j # i => pad'[j] = pad[j] /\ handles'[j] = handles[j]
    BY <1>a, <2>1
  <2>7. AckIsFirst' /\ EmitHasHandle' BY <1>c, <2>1, <2>6 DEF AckIsFirst, EmitHasHandle
  <2> QED BY <2>3, <2>5, <2>7 DEF Handshake
<1>6. ASSUME NEW i \in StreamIds, Handler(i) PROVE Handshake'
  <2>1. UNCHANGED <<pending, made, table, pad, sctp>> BY <1>6, HandlerFrame, Zenon
  <2>2. Pending' = Pending /\ Made' = Made BY <2>1 DEF Pending, Made
  <2>3. pad[i] \in Bins /\ table[i] = pad[i] /\ table[i] # NoBin
    <3>1. pad[i] \in Bins BY <1>6, HandlerEffect
    <3> QED BY <1>b, <3>1 DEF PadIsLinked
  <2>4. \A j \in StreamIds : j # i => /\ pc'[j] = pc[j] /\ handles'[j] = handles[j]
                                     /\ pad[j] # pad[i] /\ table[j] # pad[i]
    <3>1. \A j \in StreamIds : j # i => table[j] # pad[i]
      BY <2>3, <1>b DEF TableIsMade
    <3>2. \A j \in StreamIds : pad[j] = pad[i] => table[j] = pad[i]
      BY <2>3, <1>b DEF PadIsLinked
    <3> QED BY <1>6, <3>1, <3>2, HandlerEffect
  <2>5. \/ negotiated' = negotiated \/ negotiated' = negotiated \ {pad[i]}
        \/ negotiated' = negotiated \cup {pad[i]}
    BY <1>6, HandlerEffect
  <2>6. pc'[i] = "ack" => pad[i] \notin negotiated'
    <3>1. pc[i] = "ack" => pad[i] \notin negotiated BY <1>c DEF AckIsFirst
    <3> QED BY <1>6, <3>1, HandlerEffect
  <2>7. pc'[i] = "emit" => handles'[i] = pad[i]
    <3>1. pc[i] = "emit" => handles[i] = pad[i] BY <1>c DEF EmitHasHandle
    <3>2. handles[i] # NoBin => handles[i] = pad[i] BY <2>3 DEF HandleBacked
    <3> QED BY <1>6, <3>1, <3>2, HandlerEffect
  <2>8. NegotiatedIsMade'
    <3>1. pad[i] \in Made /\ pad[i] \notin Pending BY <2>3, <1>b DEF TableIsMade
    <3> QED BY <1>c, <2>2, <2>5, <3>1 DEF NegotiatedIsMade
  <2>9. UnlinkedIsSilent' BY <1>e, <2>1, <2>3, <2>4, <2>5 DEF UnlinkedIsSilent
  <2>10. AckIsFirst' BY <1>c, <2>1, <2>4, <2>5, <2>6 DEF AckIsFirst
  <2>11. EmitHasHandle' BY <1>c, <2>1, <2>4, <2>7 DEF EmitHasHandle
  <2> QED BY <2>8, <2>9, <2>10, <2>11 DEF Handshake
<1>7. CASE UNCHANGED <<pending, made, table, pad, pc, handles, negotiated>>
  <2>1. Pending' = Pending /\ Made' = Made BY <1>7 DEF Pending, Made
  <2>2. NegotiatedIsMade' BY <1>c, <1>7, <2>1 DEF NegotiatedIsMade
  <2>3. UnlinkedIsSilent' BY <1>e, <1>7 DEF UnlinkedIsSilent
  <2>4. AckIsFirst' /\ EmitHasHandle' BY <1>c, <1>7 DEF AckIsFirst, EmitHasHandle
  <2> QED BY <2>2, <2>3, <2>4 DEF Handshake
<1>8. ASSUME NEW i \in StreamIds, EmitClosed(i)
      PROVE  UNCHANGED <<pending, made, table, pad, pc, handles, negotiated>>
  BY <1>8, EmitClosedEffect, Zenon DEF Others
<1> QED BY <1>1, <1>2, <1>3, <1>4, <1>5, <1>6, <1>7, <1>8, Frame, Zenon

(***************************************************************************)
(* The receiver stays in place.                                            *)
(***************************************************************************)
LEMMA StepReceiverReady ==
    /\ TypeOK /\ Running /\ Exposing /\ Wiring /\ HandleBacked /\ Handshake
    /\ ReceiverReady /\ [Next]_vars
    => ReceiverReady'
<1> SUFFICES ASSUME TypeOK, Running, Exposing, Wiring, HandleBacked, Handshake,
                    ReceiverReady, [Next]_vars, NEW j \in StreamIds,
                    pad'[j] \in Bins, pc'[j] = "idle", pad'[j] \in negotiated'
             PROVE  handles'[j] = pad'[j]
  BY DEF ReceiverReady
<1>a. /\ handles \in [StreamIds -> Bins \cup {NoBin}]
      /\ pad \in [StreamIds -> Bins \cup {NoBin, NoPad}]
  BY Zenon DEF TypeOK
<1>b. PadIsLinked /\ TableIsMade BY Zenon DEF Wiring
<1>c. NegotiatedIsMade /\ UnlinkedIsSilent /\ AckIsFirst /\ EmitHasHandle
  BY Zenon DEF Handshake
<1>d. pad[j] \in Bins /\ pc[j] = "idle" /\ pad[j] \in negotiated => handles[j] = pad[j]
  BY Zenon DEF ReceiverReady
<1>1. ASSUME NEW i \in StreamIds, ExposePad(i) \/ LinkPad(i) \/ RemoteReset(i)
      PROVE  handles'[j] = pad'[j]
  <2>1. /\ \A k \in StreamIds : k # i => pad'[k] = pad[k]
        /\ \/ pad'[i] \in {NoBin, NoPad}
           \/ pad[i] = NoBin /\ table[i] # NoBin /\ pad'[i] = table[i]
        /\ ~SctpAt("removing", i)
        /\ UNCHANGED <<pc, handles, negotiated>>
    BY <1>1, PadMoves DEF Others
  <2>2. pad[i] = NoBin /\ table[i] # NoBin => table[i] \notin negotiated
    BY <1>c, <2>1 DEF UnlinkedIsSilent
  <2>3. j # i BY <2>1, <2>2
  <2> QED BY <1>d, <2>1, <2>3
<1>2. ASSUME NEW i \in StreamIds, PadRemoved(i) \/ ResetStream(i)
      PROVE  handles'[j] = pad'[j]
  <2>1. /\ \/ UNCHANGED <<pad, handles>>
           \/ /\ pad' = [pad EXCEPT ![i] = NoPad]
              /\ handles' = [handles EXCEPT ![i] = NoBin]
        /\ UNCHANGED <<pc, negotiated>>
    BY <1>2, Forgets, Zenon DEF Others
  <2>2. UNCHANGED <<pad, handles>> \/ j # i BY <1>a, <2>1
  <2> QED BY <1>a, <1>d, <2>1, <2>2
<1>3. ASSUME NEW i \in StreamIds, Handler(i) PROVE handles'[j] = pad'[j]
  <2>1. pad' = pad /\ pad[i] \in Bins BY <1>3, HandlerFrame, HandlerEffect
  <2>2. table[i] = pad[i] /\ table[j] = pad[j] /\ table[i] # NoBin
    BY <1>b, <2>1 DEF PadIsLinked
  <2>3. CASE j = i
    <3>1. pc[i] = "ack" => pad[i] \notin negotiated BY <1>c DEF AckIsFirst
    <3>2. pc[i] = "emit" => handles[i] = pad[i] BY <1>c DEF EmitHasHandle
    <3> QED BY <1>3, <1>d, <2>1, <2>3, <3>1, <3>2, HandlerEffect
  <2>4. CASE j # i
    <3>1. pad[j] # pad[i] BY <2>2, <2>4, <1>b DEF TableIsMade
    <3>2. pc'[j] = pc[j] /\ handles'[j] = handles[j] BY <1>3, <2>4, HandlerEffect
    <3>3. pad[j] \in negotiated
      <4>1. \/ negotiated' = negotiated \/ negotiated' = negotiated \ {pad[i]}
            \/ negotiated' = negotiated \cup {pad[i]}
        BY <1>3, HandlerEffect
      <4> QED BY <2>1, <3>1, <4>1
    <3> QED BY <1>d, <2>1, <3>2, <3>3
  <2> QED BY <2>3, <2>4
<1>4. ASSUME NEW i \in StreamIds, NEW both \in BOOLEAN, CreateDataChannel(i, both)
      PROVE  UNCHANGED <<pad, pc, handles, negotiated>>
  BY <1>4, CreateEffect, Zenon
<1>5. AssociationUp => UNCHANGED <<pad, pc, handles, negotiated>>
  BY Zenon DEF AssociationUp
<1>6. ASSUME NEW i \in StreamIds, PadAdded(i) \/ EmitClosed(i)
      PROVE  UNCHANGED <<pad, pc, handles, negotiated>>
  BY <1>6, PadAddedEffect, EmitClosedEffect, Zenon DEF Others
<1>7. CASE UNCHANGED <<pad, pc, handles, negotiated>> BY <1>d, <1>7
<1> QED BY <1>1, <1>2, <1>3, <1>4, <1>5, <1>6, <1>7, Frame, Zenon

(***************************************************************************)
(* What was announced as closed, or is about to be, does not come back.    *)
(***************************************************************************)
LEMMA StepClosedIsGone ==
    /\ TypeOK /\ Running /\ Exposing /\ Wiring /\ ClosedIsGone /\ LeavingIsGone
    /\ [Next]_vars
    => ClosedIsGone'
<1> SUFFICES ASSUME TypeOK, Running, Exposing, Wiring, ClosedIsGone, LeavingIsGone,
                    [Next]_vars
             PROVE  ClosedIsGone'
  OBVIOUS
<1> DEFINE A == \A b \in Bins : closed[b] # 0 => b \in Made /\ b \notin Pending
           B == \A i \in StreamIds : table[i] # NoBin => closed[table[i]] = 0
<1>a. table \in [StreamIds -> Bins \cup {NoBin}] /\ closed \in [Bins -> Nat]
  BY Zenon DEF TypeOK
<1>b. PendingIsLocal /\ TableIsMade BY Zenon DEF Wiring
<1>c. A /\ B BY Zenon DEF ClosedIsGone
<1>1. ASSUME NEW i \in StreamIds, NEW both \in BOOLEAN, CreateDataChannel(i, both)
      PROVE  ClosedIsGone'
  <2> DEFINE new == made + 1
  <2>1. closed' = closed BY <1>1, CreateEffect
  <2>2. /\ new \in Bins /\ new \notin Made /\ Made \subseteq Made'
        /\ Pending' = {new} \cup Pending \/ Pending' = Pending
        /\ table' = table \/ table' = [table EXCEPT ![i] = new]
    BY <1>1, CreateTables
  <2> HIDE DEF new, Bins
  <2>3. A' BY <1>c, <2>1, <2>2
  <2>4. closed[new] = 0 BY <1>c, <2>2
  <2>5. B' BY <1>a, <1>c, <2>1, <2>2, <2>4
  <2> QED BY <2>3, <2>5 DEF ClosedIsGone
<1>2. CASE AssociationUp
  <2>1. /\ Pending' = {} /\ UNCHANGED <<made, closed>>
        /\ \A i \in StreamIds : table'[i] # table[i] => table'[i] \in Pending
    BY <1>2, AssociationUpEffect
  <2>2. Made' = Made BY <2>1 DEF Made
  <2>3. A' BY <1>c, <2>1, <2>2
  <2>4. \A b \in Pending : b \in Bins /\ closed[b] = 0
    <3>1. Pending \subseteq Bins
      <4>1. pending \in Seq(Bins) BY Zenon DEF TypeOK
      <4> HIDE DEF Bins
      <4>2. \A k \in DOMAIN pending : pending[k] \in Bins BY <4>1
      <4> QED BY <4>2 DEF Pending, Range
    <3> QED BY <1>c, <3>1
  <2>5. B' BY <1>c, <2>1, <2>4
  <2> QED BY <2>3, <2>5 DEF ClosedIsGone
<1>3. ASSUME NEW i \in StreamIds, PadAdded(i) PROVE ClosedIsGone'
  <2> DEFINE new == made + 1
  <2>1. closed' = closed BY <1>3, PadAddedEffect, Zenon
  <2>2. /\ Pending' = Pending
        /\ \/ table' = table /\ Made' = Made
           \/ /\ new \in Bins /\ new \notin Made /\ Made \subseteq Made'
              /\ table' = [table EXCEPT ![i] = new]
    BY <1>3, PadAddedTables, Zenon
  <2> HIDE DEF new, Bins
  <2>3. A' BY <1>c, <2>1, <2>2
  <2>4. B' BY <1>a, <1>c, <2>1, <2>2
  <2> QED BY <2>3, <2>4 DEF ClosedIsGone
<1>4. ASSUME NEW i \in StreamIds, PadRemoved(i) PROVE ClosedIsGone'
  <2>1. /\ table' = [table EXCEPT ![i] = NoBin] /\ UNCHANGED <<made, pending, closed>>
    BY <1>4, PadRemovedEffect, Zenon DEF Others
  <2>2. Pending' = Pending /\ Made' = Made BY <2>1 DEF Pending, Made
  <2>3. A' BY <1>c, <2>1, <2>2
  <2>4. B' BY <1>a, <1>c, <2>1
  <2> QED BY <2>3, <2>4 DEF ClosedIsGone
<1>5. ASSUME NEW i \in StreamIds, EmitClosed(i) PROVE ClosedIsGone'
  <2> DEFINE b == sctp.channel
  <2>1. /\ closed' = [closed EXCEPT ![b] = closed[b] + 1]
        /\ UNCHANGED <<made, pending, table>>
        /\ b \in Made /\ b \notin Pending /\ \A j \in StreamIds : table[j] # b
    BY <1>5, EmitClosedEffect DEF Others, LeavingIsGone
  <2>2. Pending' = Pending /\ Made' = Made BY <2>1 DEF Pending, Made
  <2> HIDE DEF b
  <2>3. A' BY <1>a, <1>c, <2>1, <2>2
  <2>4. B' BY <1>a, <1>c, <2>1
  <2> QED BY <2>3, <2>4 DEF ClosedIsGone
<1>6. ASSUME NEW i \in StreamIds, ResetStream(i) PROVE ClosedIsGone'
  <2>1. /\ UNCHANGED <<made, pending>>
        /\ \/ UNCHANGED <<table, closed>>
           \/ /\ table' = [table EXCEPT ![i] = NoBin]
              /\ closed' = IF table[i] = NoBin THEN closed
                           ELSE [closed EXCEPT ![table[i]] = closed[table[i]] + 1]
    BY <1>6, ResetStreamEffect, Zenon DEF Others
  <2>2. Pending' = Pending /\ Made' = Made BY <2>1 DEF Pending, Made
  <2>3. CASE UNCHANGED <<table, closed>> BY <1>c, <2>2, <2>3 DEF ClosedIsGone
  <2>4. CASE /\ table' = [table EXCEPT ![i] = NoBin]
             /\ closed' = IF table[i] = NoBin THEN closed
                          ELSE [closed EXCEPT ![table[i]] = closed[table[i]] + 1]
    <3>1. table[i] # NoBin => table[i] \in Made /\ table[i] \notin Pending
      BY <1>b DEF TableIsMade
    <3>2. A' BY <1>a, <1>c, <2>2, <2>4, <3>1
    <3>3. B'
      <4> SUFFICES ASSUME NEW j \in StreamIds, table'[j] # NoBin
                   PROVE  closed'[table'[j]] = 0
        OBVIOUS
      <4>1. j # i /\ table'[j] = table[j] BY <1>a, <2>4
      <4>2. table[i] # NoBin => table[j] # table[i] BY <1>b, <4>1 DEF TableIsMade
      <4>3. closed[table[j]] = 0 BY <1>c, <4>1
      <4>4. table[j] \in Bins BY <1>a, <4>1
      <4> QED BY <1>a, <2>4, <4>1, <4>2, <4>3, <4>4
    <3> QED BY <3>2, <3>3 DEF ClosedIsGone
  <2> QED BY <2>1, <2>3, <2>4
<1>7. CASE UNCHANGED <<pending, made, table, closed>>
  <2>1. Pending' = Pending /\ Made' = Made BY <1>7 DEF Pending, Made
  <2> QED BY <1>7, <1>c, <2>1 DEF ClosedIsGone
<1>8. ASSUME NEW i \in StreamIds, Handler(i)
      PROVE  UNCHANGED <<pending, made, table, closed>>
  BY <1>8, HandlerFrame, Zenon
<1>9. ASSUME NEW i \in StreamIds, ExposePad(i) \/ LinkPad(i) \/ RemoteReset(i)
      PROVE  UNCHANGED <<pending, made, table, closed>>
  BY <1>9, PadMoves, Zenon DEF Others
<1> QED BY <1>1, <1>2, <1>3, <1>4, <1>5, <1>6, <1>7, <1>8, <1>9, Frame, Zenon

LEMMA StepLeavingIsGone ==
    /\ TypeOK /\ Running /\ Exposing /\ Wiring /\ ClosedIsGone /\ LeavingIsGone
    /\ [Next]_vars
    => LeavingIsGone'
<1> SUFFICES ASSUME TypeOK, Running, Exposing, Wiring, ClosedIsGone, LeavingIsGone,
                    [Next]_vars
             PROVE  LeavingIsGone'
  OBVIOUS
<1>a. /\ table \in [StreamIds -> Bins \cup {NoBin}]
      /\ closed \in [Bins -> Nat]
  BY Zenon DEF TypeOK
<1>b. TableIsMade BY Zenon DEF Wiring
<1>1. ASSUME \A i \in StreamIds : ~SctpAt("closing", i)' PROVE LeavingIsGone'
  BY <1>1 DEF LeavingIsGone
<1> DEFINE c == sctp.channel
\* A step that leaves the SCTP thread where it is must not touch the leaving channel.
<1>2. ASSUME sctp' = sctp, Made \subseteq Made',
             c \in Made /\ c \notin Pending => c \notin Pending',
             c \in Made => \A j \in StreamIds :
               table'[j] = table[j] \/ table'[j] = NoBin \/ table'[j] \notin Made
               \/ table'[j] \in Pending,
             c \in Made /\ (\A j \in StreamIds : table[j] # c) => closed'[c] = closed[c]
      PROVE  LeavingIsGone'
  <2> SUFFICES ASSUME NEW i \in StreamIds, SctpAt("closing", i)'
               PROVE  /\ c \in Made' /\ c \notin Pending' /\ closed'[c] = 0
                      /\ \A j \in StreamIds : table'[j] # c
    BY <1>2 DEF LeavingIsGone
  <2>1. SctpAt("closing", i) BY <1>2 DEF SctpAt
  <2>2. c \in Made /\ c \notin Pending /\ closed[c] = 0 /\ \A j \in StreamIds : table[j] # c
    BY <2>1 DEF LeavingIsGone
  <2>3. c # NoBin BY <2>2 DEF Made
  <2> HIDE DEF c, Bins
  <2> QED BY <1>2, <2>2, <2>3
<1> HIDE DEF c
<1>3. ASSUME NEW i \in StreamIds, NEW both \in BOOLEAN, CreateDataChannel(i, both)
      PROVE  LeavingIsGone'
  <2>1. sctp' = sctp /\ closed' = closed BY <1>3, CreateEffect
  <2>2. /\ made + 1 \notin Made /\ Made \subseteq Made'
        /\ Pending' = {made + 1} \cup Pending \/ Pending' = Pending
        /\ table' = table \/ table' = [table EXCEPT ![i] = made + 1]
    BY <1>3, CreateTables
  <2>3. \A j \in StreamIds : table'[j] = table[j] \/ table'[j] \notin Made
    BY <1>a, <2>2
  <2> QED BY <1>2, <2>1, <2>2, <2>3
<1>4. CASE AssociationUp
  <2>1. /\ Pending' = {} /\ UNCHANGED <<made, sctp, closed>>
        /\ \A i \in StreamIds : table'[i] # table[i] => table'[i] \in Pending
    BY <1>4, AssociationUpEffect
  <2>2. Made' = Made BY <2>1 DEF Made
  <2> QED BY <1>2, <2>1, <2>2
<1>5. ASSUME NEW i \in StreamIds, PadRemoved(i) PROVE LeavingIsGone'
  <2>1. /\ table' = [table EXCEPT ![i] = NoBin] /\ UNCHANGED <<made, pending, closed>>
        /\ \/ table[i] = NoBin /\ sctp' = Idle
           \/ table[i] # NoBin /\ SctpGoes("closing", i, table[i])
    BY <1>5, PadRemovedEffect, Zenon DEF Others
  <2>2. Pending' = Pending /\ Made' = Made BY <2>1 DEF Pending, Made
  <2>3. CASE sctp' = Idle BY <1>1, <2>3 DEF SctpAt, Idle
  <2>4. CASE table[i] # NoBin /\ SctpGoes("closing", i, table[i])
    <3>1. /\ table[i] \in Made /\ table[i] \notin Pending /\ closed[table[i]] = 0
          /\ \A j \in StreamIds : j # i => table[j] # table[i]
      BY <1>b, <2>4 DEF TableIsMade, ClosedIsGone
    <3>2. \A j \in StreamIds : table'[j] # table[i] BY <1>a, <2>1, <2>4, <3>1
    <3>3. sctp'.channel = table[i] BY <2>4 DEF SctpGoes
    <3> QED BY <2>1, <2>2, <3>1, <3>2, <3>3 DEF LeavingIsGone
  <2> QED BY <2>1, <2>3, <2>4
<1>6. ASSUME NEW i \in StreamIds, EmitClosed(i) \/ PadAdded(i) PROVE LeavingIsGone'
  <2>1. \/ sctp' = Idle \/ SctpGoes("linking", i, table[i])
        \/ SctpGoes("linking", i, made + 1)
    BY <1>6, EmitClosedEffect, PadAddedEffect, Zenon
  <2> QED BY <1>1, <2>1 DEF SctpAt, SctpGoes, Idle
<1>7. ASSUME NEW i \in StreamIds, ExposePad(i) \/ LinkPad(i) \/ RemoteReset(i)
      PROVE  LeavingIsGone'
  BY <1>1, <1>7, PadMoves
<1>8. ASSUME NEW i \in StreamIds, ResetStream(i) PROVE LeavingIsGone'
  <2>1. /\ UNCHANGED <<made, pending, sctp>>
        /\ \/ UNCHANGED <<table, closed>>
           \/ /\ table' = [table EXCEPT ![i] = NoBin]
              /\ closed' = IF table[i] = NoBin THEN closed
                           ELSE [closed EXCEPT ![table[i]] = closed[table[i]] + 1]
    BY <1>8, ResetStreamEffect, Zenon DEF Others
  <2>2. Pending' = Pending /\ Made' = Made BY <2>1 DEF Pending, Made
  <2>3. \A j \in StreamIds : table'[j] = table[j] \/ table'[j] = NoBin BY <1>a, <2>1
  <2>4. c \in Made /\ (\A j \in StreamIds : table[j] # c) => closed'[c] = closed[c]
    <3>1. c \in Made => c \in Bins
      <4>1. made \in 0 .. MaxBins /\ MaxBins \in Nat BY ConstantsAssumption, Zenon DEF TypeOK
      <4> QED BY <4>1 DEF Made
    <3> QED BY <1>a, <2>1, <3>1
  <2> QED BY <1>2, <2>1, <2>2, <2>3, <2>4
<1>9. CASE UNCHANGED <<pending, made, table, closed, sctp>>
  <2>1. Pending' = Pending /\ Made' = Made BY <1>9 DEF Pending, Made
  <2> QED BY <1>2, <1>9, <2>1
<1>10. ASSUME NEW i \in StreamIds, Handler(i)
       PROVE  UNCHANGED <<pending, made, table, closed, sctp>>
  BY <1>10, HandlerFrame, Zenon
<1> QED BY <1>3, <1>4, <1>5, <1>6, <1>7, <1>8, <1>9, <1>10, Frame, Zenon

(***************************************************************************)
(* Closing: who starts it, who runs the job, who holds the mutex over it.  *)
(***************************************************************************)

\* A step of the SCTP thread, or of a worker over a stream.
Session(i) ==
    \/ ExposePad(i) \/ PadAdded(i) \/ LinkPad(i)
    \/ RemoteReset(i) \/ PadRemoved(i) \/ EmitClosed(i) \/ ResetStream(i)

\* It leaves the elements as they are; only a worker has the mutex to give back.
LEMMA SessionFrame ==
    ASSUME NEW i \in StreamIds, Session(i)
    PROVE  /\ UNCHANGED <<pending, pc, opened, state, negotiated, opening, jobs>>
           /\ (mutex' = mutex \/ ResetStream(i))
  BY ExposePadEffect, PadAddedEffect, LinkPadEffect, RemoteResetEffect, PadRemovedEffect,
     EmitClosedEffect, ResetStreamEffect, Zenon DEF Session, Others

\* A channel that becomes CLOSING exists, and its job is queued in the same step.
LEMMA ClosingStarts ==
    ASSUME TypeOK, Running, Wiring, [Next]_vars, NEW b \in Bins,
           state'[b] = "CLOSING", state[b] # "CLOSING"
    PROVE  b \in Made /\ jobs'[b] > 0
<1>a. /\ state \in [Bins -> {"CONNECTING", "OPEN", "CLOSING", "CLOSED"}]
      /\ jobs \in [Bins -> Nat]
  BY Zenon DEF TypeOK
<1>b. \A i \in StreamIds : table[i] # NoBin => table[i] \in Made
  BY Zenon DEF Wiring, TableIsMade
<1>c. \A i \in StreamIds : pad[i] \in Bins => pad[i] \in Made
  BY <1>b DEF Wiring, PadIsLinked
<1>1. ASSUME NEW i \in StreamIds, pad[i] \in Bins, Reset(pad[i])
      PROVE  b \in Made /\ jobs'[b] > 0
  <2>1. b = pad[i] BY <1>1, <1>a DEF Reset
  <2> QED BY <1>1, <1>a, <1>c, <2>1 DEF Reset
<1>2. ASSUME NEW i \in StreamIds, DestroyDataChannel(i)
      PROVE  b \in Made /\ jobs'[b] > 0
  <2>1. /\ table[i] # NoBin
        /\ state' = [state EXCEPT ![table[i]] = "CLOSING"]
        /\ jobs' = [jobs EXCEPT ![table[i]] = jobs[table[i]] + 1]
    BY <1>2, SMT DEF DestroyDataChannel
  <2>2. b = table[i] BY <1>a, <2>1
  <2> QED BY <1>a, <1>b, <2>1, <2>2
<1>3. ASSUME NEW i \in StreamIds, HandleInvalid(i) PROVE b \in Made /\ jobs'[b] > 0
  BY <1>1, <1>3, Zenon DEF HandleInvalid, Receive
<1>4. ASSUME NEW i \in StreamIds, PushAck(i) PROVE b \in Made /\ jobs'[b] > 0
  <2>1. pad[i] \in Bins BY <1>4 DEF PushAck, Running
  <2>2. Reset(pad[i]) \/ state' = state BY <1>4, SMT DEF PushAck
  <2> QED BY <1>1, <2>1, <2>2
<1>5. ASSUME NEW i \in StreamIds, HandleOpenRequest(i) \/ HandleAck(i) \/ AckPushed(i)
      PROVE  FALSE
  <2>1. \/ state' = state \/ state' = [state EXCEPT ![pad[i]] = "CONNECTING"]
        \/ state' = [state EXCEPT ![pad[i]] = "OPEN"]
    <3>1. CASE HandleOpenRequest(i) BY <3>1, SMT DEF HandleOpenRequest
    <3>2. CASE HandleAck(i) BY <3>2, Zenon DEF HandleAck, Negotiate
    <3>3. CASE AckPushed(i) BY <3>3, Zenon DEF AckPushed, Negotiate
    <3> QED BY <1>5, <3>1, <3>2, <3>3
  <2> QED BY <2>1, <1>a
<1>6. ASSUME NEW i \in StreamIds, NegotiatedCb(i) \/ EmitOpened(i) PROVE state' = state
  BY <1>6, Zenon DEF NegotiatedCb, EmitOpened
<1>7. ASSUME NEW i \in StreamIds, NEW both \in BOOLEAN, CreateDataChannel(i, both)
      PROVE  state' = state
  BY <1>7, CreateEffect, Zenon
<1>8. ASSUME NEW c \in Bins, RequestOpen(c) PROVE FALSE
  <2>1. state' = state \/ state' = [state EXCEPT ![c] = "CONNECTING"]
    BY <1>8, Zenon DEF RequestOpen
  <2> QED BY <2>1, <1>a
<1>9. ASSUME NEW c \in Bins, PushOpen(c) \/ ResetStreamAsync(c) PROVE state' = state
  BY <1>9, Zenon DEF PushOpen, ResetStreamAsync
<1>10. AssociationUp => state[b] = "CLOSING" BY AssociationUpEffect, Zenon
<1>11. AssociationDown => state' = state BY Zenon DEF AssociationDown
<1>12. ASSUME NEW i \in StreamIds, PushBuffer(i) \/ Session(i)
       PROVE  state' = state
  BY <1>12, SessionFrame, Zenon DEF PushBuffer
<1>13. UNCHANGED vars => state' = state BY Zenon DEF vars
<1> QED BY <1>2, <1>3, <1>4, <1>5, <1>6, <1>7, <1>8, <1>9, <1>10, <1>11, <1>12, <1>13,
        Zenon DEF Next, Session

\* Only a worker that runs a job of a channel takes it off the queue.
LEMMA JobsStay ==
    ASSUME TypeOK, [Next]_vars, NEW b \in Bins, jobs[b] > 0
    PROVE  jobs'[b] > 0 \/ ResetStreamAsync(b)
<1>a. jobs \in [Bins -> Nat] BY Zenon DEF TypeOK
<1>1. ASSUME NEW c, jobs' = [jobs EXCEPT ![c] = jobs[c] + 1] PROVE jobs'[b] > 0
  BY <1>1, <1>a
<1>2. ASSUME NEW i \in StreamIds, DestroyDataChannel(i)
      PROVE  jobs' = [jobs EXCEPT ![table[i]] = jobs[table[i]] + 1]
  BY <1>2, SMT DEF DestroyDataChannel
<1>3. ASSUME NEW i \in StreamIds, HandleInvalid(i) \/ PushAck(i)
      PROVE  jobs' = jobs \/ jobs' = [jobs EXCEPT ![pad[i]] = jobs[pad[i]] + 1]
  BY <1>3, SMT DEF HandleInvalid, PushAck, Reset
<1>4. ASSUME NEW c \in Bins, c # b, ResetStreamAsync(c) PROVE jobs'[b] > 0
  <2>1. jobs' = [jobs EXCEPT ![c] = jobs[c] - 1] BY <1>4, Zenon DEF ResetStreamAsync
  <2> QED BY <1>4, <1>a, <2>1
<1>5. ASSUME NEW i \in StreamIds,
             HandleOpenRequest(i) \/ HandleAck(i) \/ AckPushed(i) \/ NegotiatedCb(i)
             \/ EmitOpened(i) \/ PushBuffer(i) \/ Session(i)
      PROVE  jobs' = jobs
  BY <1>5, SessionFrame, Zenon DEF HandleOpenRequest, HandleAck, AckPushed, NegotiatedCb,
     EmitOpened, PushBuffer
<1>6. ASSUME NEW i \in StreamIds, NEW both \in BOOLEAN, CreateDataChannel(i, both)
      PROVE  jobs' = jobs
  BY <1>6, CreateEffect, Zenon
<1>7. ASSUME NEW c \in Bins, RequestOpen(c) \/ PushOpen(c) PROVE jobs' = jobs
  BY <1>7, Zenon DEF RequestOpen, PushOpen
<1>8. AssociationUp \/ AssociationDown \/ UNCHANGED vars => jobs' = jobs
  BY Zenon DEF AssociationUp, AssociationDown, vars
<1>9. jobs' = jobs => jobs'[b] > 0 OBVIOUS
<1> QED BY <1>1, <1>2, <1>3, <1>4, <1>5, <1>6, <1>7, <1>8, <1>9, Zenon DEF Next, Session

\* The worker that resets a stream holds the mutex until the stream is gone.
LEMMA MutexStays ==
    ASSUME [Next]_vars, NEW i \in StreamIds, mutex = i
    PROVE  mutex' = i \/ ResetStream(i)
<1>a. mutex # Free BY ConstantsAssumption
<1>1. ASSUME NEW j \in StreamIds, Handler(j) PROVE mutex' = mutex
  BY <1>1, HandlerFrame, Zenon
<1>2. ASSUME NEW j \in StreamIds, \/ PushBuffer(j) \/ DestroyDataChannel(j)
                                  \/ Session(j) /\ ~ResetStream(j)
      PROVE  mutex' = mutex
  BY <1>2, SessionFrame, Zenon DEF PushBuffer, DestroyDataChannel
<1>3. ASSUME NEW j \in StreamIds, NEW both \in BOOLEAN, CreateDataChannel(j, both)
      PROVE  mutex' = mutex
  BY <1>3, CreateEffect, Zenon
<1>4. ASSUME NEW b \in Bins, RequestOpen(b) \/ PushOpen(b) PROVE mutex' = mutex
  BY <1>4, Zenon DEF RequestOpen, PushOpen
<1>5. AssociationUp \/ AssociationDown \/ UNCHANGED vars => mutex' = mutex
  BY Zenon DEF AssociationUp, AssociationDown, vars
<1>6. ASSUME NEW b \in Bins, ResetStreamAsync(b) PROVE FALSE
  BY <1>a, <1>6, Zenon DEF ResetStreamAsync
<1>7. ASSUME NEW j \in StreamIds, ResetStream(j) PROVE j = i
  BY <1>7, Zenon DEF ResetStream
<1> QED BY <1>1, <1>2, <1>3, <1>4, <1>5, <1>6, <1>7, Zenon
        DEF Next, Handler, Session

\* Which elements a step may give another state, and what it then leaves alone.
LEMMA StateMoves ==
    ASSUME TypeOK, Running, Wiring, OpeningIsLocal, [Next]_vars, NEW b \in Bins,
           state'[b] # state[b]
    PROVE  /\ b \in Made
           /\ \/ Own(id[b])
              \/ \E i \in StreamIds : table[i] = b /\ (pad[i] = b \/ state[b] # "CLOSED")
           /\ UNCHANGED <<pad, sctp>>
<1> DEFINE Goal == /\ b \in Made
                   /\ \/ Own(id[b])
                      \/ \E i \in StreamIds :
                           table[i] = b /\ (pad[i] = b \/ state[b] # "CLOSED")
                   /\ UNCHANGED <<pad, sctp>>
<1>a. state \in [Bins -> {"CONNECTING", "OPEN", "CLOSING", "CLOSED"}]
  BY Zenon DEF TypeOK
<1>b. \A i \in StreamIds : table[i] # NoBin => table[i] \in Made
  BY Zenon DEF Wiring, TableIsMade
<1>1. ASSUME NEW i \in StreamIds, Handler(i) PROVE Goal
  <2>1. pad[i] \in Bins
    BY <1>1, Zenon DEF Handler, HandleInvalid, HandleOpenRequest, HandleAck, PushAck,
       AckPushed, NegotiatedCb, EmitOpened, Receive, Running
  <2>2. table[i] = pad[i] /\ pad[i] \in Made BY <1>b, <2>1 DEF Wiring, PadIsLinked
  <2>3. state' = state \/ \E s : state' = [state EXCEPT ![pad[i]] = s]
    <3>1. CASE HandleInvalid(i) BY <3>1, Zenon DEF HandleInvalid, Reset
    <3>2. CASE HandleOpenRequest(i) BY <3>2, Zenon DEF HandleOpenRequest
    <3>3. CASE HandleAck(i) BY <3>3, Zenon DEF HandleAck, Negotiate
    <3>4. CASE PushAck(i) BY <3>4, Zenon DEF PushAck, Reset
    <3>5. CASE AckPushed(i) BY <3>5, Zenon DEF AckPushed, Negotiate
    <3>6. CASE NegotiatedCb(i) \/ EmitOpened(i)
      BY <3>6, Zenon DEF NegotiatedCb, EmitOpened
    <3> QED BY <1>1, <3>1, <3>2, <3>3, <3>4, <3>5, <3>6 DEF Handler
  <2>4. b = pad[i] BY <1>a, <2>1, <2>3
  <2>5. UNCHANGED <<pad, sctp>> BY <1>1, HandlerFrame, Zenon
  <2> QED BY <2>2, <2>4, <2>5
<1>2. ASSUME NEW i \in StreamIds, DestroyDataChannel(i) PROVE Goal
  <2>1. /\ table[i] # NoBin /\ state[table[i]] \in {"CONNECTING", "OPEN"}
        /\ state' = [state EXCEPT ![table[i]] = "CLOSING"]
        /\ UNCHANGED <<pad, sctp>>
    BY <1>2, SMT DEF DestroyDataChannel
  <2>2. b = table[i] BY <1>a, <2>1
  <2> QED BY <1>b, <2>1, <2>2
<1>3. ASSUME NEW c \in Bins, RequestOpen(c) PROVE Goal
  <2>1. /\ opening[c] = "request" /\ UNCHANGED <<pad, sctp>>
        /\ state' = state \/ state' = [state EXCEPT ![c] = "CONNECTING"]
    BY <1>3, Zenon DEF RequestOpen
  <2>2. b = c BY <1>a, <2>1
  <2>3. b \in Made /\ Own(id[b]) BY <2>1, <2>2 DEF OpeningIsLocal
  <2> QED BY <2>1, <2>3
<1>4. CASE AssociationUp
  <2>1. b \in Pending /\ UNCHANGED <<pad, sctp>> BY <1>4, AssociationUpEffect
  <2>2. b \in Made /\ Own(id[b]) BY <2>1 DEF Wiring, PendingIsLocal
  <2> QED BY <2>1, <2>2
<1>5. ASSUME NEW c \in Bins, PushOpen(c) \/ ResetStreamAsync(c) PROVE state' = state
  BY <1>5, Zenon DEF PushOpen, ResetStreamAsync
<1>6. ASSUME NEW i \in StreamIds, PushBuffer(i) \/ Session(i) PROVE state' = state
  BY <1>6, SessionFrame, Zenon DEF PushBuffer
<1>7. ASSUME NEW i \in StreamIds, NEW both \in BOOLEAN, CreateDataChannel(i, both)
      PROVE  state' = state
  BY <1>7, CreateEffect, Zenon
<1>8. AssociationDown \/ UNCHANGED vars => state' = state
  BY Zenon DEF AssociationDown, vars
<1> QED BY <1>1, <1>2, <1>3, <1>4, <1>5, <1>6, <1>7, <1>8, Zenon
        DEF Next, Handler, Session

\* Elements are made one by one.
LEMMA MadeGrows ==
    ASSUME TypeOK, [Next]_vars
    PROVE  Made \subseteq Made' /\ \A b \in Made : b \in Bins => id'[b] = id[b]
<1>1. ASSUME NEW i \in StreamIds, NEW both \in BOOLEAN, CreateDataChannel(i, both)
      PROVE  Made \subseteq Made' /\ \A b \in Made : id'[b] = id[b]
  BY <1>1, CreateTables, Zenon
<1>2. ASSUME NEW i \in StreamIds, PadAdded(i)
      PROVE  Made \subseteq Made' /\ \A b \in Made : id'[b] = id[b]
  BY <1>2, PadAddedTables, Zenon
<1>3. CASE UNCHANGED <<made, id>> BY <1>3 DEF Made
<1>4. ASSUME NEW i \in StreamIds,
             \/ ExposePad(i) \/ LinkPad(i) \/ RemoteReset(i) \/ PadRemoved(i)
             \/ EmitClosed(i) \/ ResetStream(i) \/ Handler(i)
      PROVE  UNCHANGED <<made, id>>
  BY <1>4, ExposePadEffect, LinkPadEffect, RemoteResetEffect, PadRemovedEffect,
     EmitClosedEffect, ResetStreamEffect, HandlerFrame, Zenon
<1>5. AssociationUp => UNCHANGED <<made, id>> BY Zenon DEF AssociationUp
<1> QED BY <1>1, <1>2, <1>3, <1>4, <1>5, Frame, Zenon

\* A channel has left its first state only once it has been made.
LEMMA StepStartedIsMade ==
    /\ TypeOK /\ Running /\ Wiring /\ OpeningIsLocal /\ StartedIsMade /\ [Next]_vars
    => StartedIsMade'
<1> SUFFICES ASSUME TypeOK, Running, Wiring, OpeningIsLocal, StartedIsMade, [Next]_vars,
                    NEW b \in Bins, state'[b] # "CLOSED"
             PROVE  b \in Made'
  BY DEF StartedIsMade
<1>1. b \in Made BY StateMoves DEF StartedIsMade
<1> QED BY <1>1, MadeGrows

\* Only local channels ask for their stream to be opened.
LEMMA StepOpeningIsLocal == TypeOK /\ OpeningIsLocal /\ [Next]_vars => OpeningIsLocal'
<1> SUFFICES ASSUME TypeOK, OpeningIsLocal, [Next]_vars, NEW b \in Bins, opening'[b] # "no"
             PROVE  b \in Made' /\ Own(id'[b])
  BY DEF OpeningIsLocal, Own
<1>a. opening \in [Bins -> {"no", "request", "push"}] BY Zenon DEF TypeOK
<1>1. ASSUME opening[b] # "no" PROVE b \in Made' /\ Own(id'[b])
  BY <1>1, MadeGrows DEF OpeningIsLocal
<1>2. ASSUME NEW i \in StreamIds, NEW both \in BOOLEAN, CreateDataChannel(i, both)
      PROVE  b \in Made' /\ Own(id'[b])
  <2>1. Own(i) /\ opening' \in {opening, [opening EXCEPT ![made + 1] = "request"]}
    BY <1>2, CreateEffect
  <2>2. made + 1 \in Made' /\ id'[made + 1] = i BY <1>2, CreateTables
  <2>3. opening[b] # "no" \/ b = made + 1 BY <1>a, <2>1
  <2> QED BY <1>1, <2>1, <2>2, <2>3
<1>3. ASSUME NEW c \in Bins, RequestOpen(c) \/ PushOpen(c) PROVE opening[b] # "no"
  <2>1. /\ opening[c] # "no"
        /\ \E s : opening' = [opening EXCEPT ![c] = s]
    BY <1>3, SMT DEF RequestOpen, PushOpen
  <2> QED BY <1>a, <2>1
<1>4. CASE opening' = opening BY <1>1, <1>4
<1>5. ASSUME NEW i \in StreamIds, Session(i) \/ Handler(i) PROVE opening' = opening
  BY <1>5, SessionFrame, HandlerFrame, Zenon
<1>6. ASSUME NEW i \in StreamIds, PushBuffer(i) \/ DestroyDataChannel(i)
      PROVE  opening' = opening
  BY <1>6, Zenon DEF PushBuffer, DestroyDataChannel
<1>7. ASSUME NEW c \in Bins, ResetStreamAsync(c) PROVE opening' = opening
  BY <1>7, Zenon DEF ResetStreamAsync
<1>8. AssociationUp \/ AssociationDown \/ UNCHANGED vars => opening' = opening
  BY Zenon DEF AssociationUp, AssociationDown, vars
<1> QED BY <1>1, <1>2, <1>3, <1>4, <1>5, <1>6, <1>7, <1>8, Zenon
        DEF Next, Handler, Session

\* A channel of the peer's that is new in the table is a fresh element.
LEMMA RemoteIsFresh ==
    ASSUME TypeOK, Running, Exposing, Wiring, StartedIsMade, [Next]_vars,
           NEW i \in StreamIds, ~Own(i), table'[i] # NoBin, table'[i] # table[i]
    PROVE  state'[table'[i]] = "CLOSED"
<1>a. table \in [StreamIds -> Bins \cup {NoBin}] BY Zenon DEF TypeOK
<1>1. ASSUME NEW j \in StreamIds, NEW both \in BOOLEAN, CreateDataChannel(j, both)
      PROVE  FALSE
  <2>1. /\ Own(j)
        /\ table' = table \/ table' = [table EXCEPT ![j] = made + 1]
    BY <1>1, CreateEffect
  <2> QED BY <1>a, <2>1
<1>2. ASSUME AssociationUp PROVE FALSE
  <2>1. table'[i] \in Pending /\ id[table'[i]] = i BY <1>2, AssociationUpEffect
  <2> QED BY <2>1 DEF Wiring, PendingIsLocal
<1>3. ASSUME NEW j \in StreamIds, PadAdded(j) PROVE state'[table'[i]] = "CLOSED"
  <2>1. state' = state BY <1>3, PadAddedEffect, Zenon DEF Others
  <2>2. \/ table' = table
        \/ /\ made + 1 \in Bins /\ made + 1 \notin Made
           /\ table' = [table EXCEPT ![j] = made + 1]
    BY <1>3, PadAddedTables, Zenon
  <2>3. table'[i] \in Bins /\ table'[i] \notin Made BY <1>a, <2>2
  <2> QED BY <2>1, <2>3 DEF StartedIsMade
<1>4. ASSUME NEW j \in StreamIds, PadRemoved(j) \/ ResetStream(j) PROVE FALSE
  <2>1. table' = table \/ table' = [table EXCEPT ![j] = NoBin] BY <1>4, Forgets, Zenon
  <2> QED BY <1>a, <2>1
<1>5. ASSUME NEW j \in StreamIds,
             \/ ExposePad(j) \/ LinkPad(j) \/ RemoteReset(j) \/ EmitClosed(j) \/ Handler(j)
      PROVE  FALSE
  BY <1>5, ExposePadEffect, LinkPadEffect, RemoteResetEffect, EmitClosedEffect,
     HandlerFrame, Zenon
<1> QED BY <1>1, <1>2, <1>3, <1>4, <1>5, Frame, Zenon

\* An unlinked channel of the peer's does not move.
LEMMA StepRemoteWaits ==
    /\ TypeOK /\ Running /\ Exposing /\ Wiring /\ StartedIsMade /\ OpeningIsLocal
    /\ RemoteWaits /\ [Next]_vars
    => RemoteWaits'
<1> SUFFICES ASSUME TypeOK, Running, Exposing, Wiring, StartedIsMade, OpeningIsLocal,
                    RemoteWaits, [Next]_vars, NEW i \in StreamIds, table'[i] # NoBin,
                    ~Own(i), pad'[i] # table'[i], ~SctpAt("removing", i)'
             PROVE  state'[table'[i]] = "CLOSED"
  BY DEF RemoteWaits, Own
<1> DEFINE b == table[i]
<1>1. CASE table'[i] # b BY <1>1, RemoteIsFresh
<1>2. CASE table'[i] = b
  <2>1. b \in Bins /\ id[b] = i
    <3>1. table \in [StreamIds -> Bins \cup {NoBin}] BY Zenon DEF TypeOK
    <3> QED BY <1>2, <3>1 DEF Wiring, TableIsMade
  <2>2. pad[i] # b /\ ~SctpAt("removing", i) BY <1>2, <2>1, StreamStays
  <2>3. state[b] = "CLOSED" BY <1>2, <2>2 DEF RemoteWaits
  <2>4. ASSUME state'[b] # state[b] PROVE FALSE
    <3>1. \E j \in StreamIds : table[j] = b /\ pad[j] = b
      BY <2>1, <2>3, <2>4, StateMoves
    <3>2. \A j \in StreamIds : table[j] = b => j = i
      BY <1>2, <2>1 DEF Wiring, TableIsMade
    <3> QED BY <2>2, <3>1, <3>2
  <2> QED BY <1>2, <2>3, <2>4
<1> QED BY <1>1, <1>2

\* The worker's pad is there until the worker, or the SCTP thread, removes it.
LEMMA StepWorkerHasPad ==
    /\ TypeOK /\ Running /\ Exposing /\ WorkerHasPad /\ [Next]_vars => WorkerHasPad'
<1> SUFFICES ASSUME TypeOK, Running, Exposing, WorkerHasPad, [Next]_vars,
                    NEW i \in StreamIds, mutex' = i
             PROVE  pad'[i] # NoPad \/ SctpAt("removing", i)'
  BY DEF WorkerHasPad
<1>a. i # Free BY ConstantsAssumption
<1>b. mutex = i => pad[i] # NoPad \/ SctpAt("removing", i) BY DEF WorkerHasPad
<1>1. ASSUME NEW c \in Bins, ResetStreamAsync(c)
      PROVE  pad'[i] # NoPad \/ SctpAt("removing", i)'
  <2>1. pad' = pad /\ \E j \in StreamIds : mutex' = IF pad[j] = NoPad THEN Free ELSE j
    BY <1>1, Zenon DEF ResetStreamAsync
  <2> QED BY <1>a, <2>1
<1>2. CASE UNCHANGED <<mutex, pad, sctp>> BY <1>2, <1>b DEF SctpAt
<1>3. ASSUME NEW j \in StreamIds, ExposePad(j) \/ LinkPad(j) \/ RemoteReset(j)
      PROVE  pad'[i] # NoPad \/ SctpAt("removing", i)'
  BY <1>3, <1>b, PadMoves
<1>4. ASSUME NEW j \in StreamIds, PadRemoved(j) \/ ResetStream(j) PROVE FALSE
  BY <1>4, <1>a, PadRemovedEffect, ResetStreamEffect, Zenon
<1>5. ASSUME NEW j \in StreamIds, PadAdded(j) \/ EmitClosed(j)
      PROVE  pad'[i] # NoPad \/ SctpAt("removing", i)'
  <2>1. /\ UNCHANGED <<mutex, pad>>
        /\ SctpAt("adding", j) \/ SctpAt("closing", j)
    BY <1>5, PadAddedEffect, EmitClosedEffect, Zenon
  <2>2. ~SctpAt("removing", i) BY <2>1 DEF SctpAt
  <2> QED BY <1>b, <2>1, <2>2
<1>6. ASSUME NEW j \in StreamIds, Handler(j) PROVE UNCHANGED <<mutex, pad, sctp>>
  BY <1>6, HandlerFrame, Zenon
<1>7. ASSUME NEW j \in StreamIds, NEW both \in BOOLEAN, CreateDataChannel(j, both)
      PROVE  UNCHANGED <<mutex, pad, sctp>>
  BY <1>7, CreateEffect, Zenon
<1>8. ASSUME NEW c \in Bins, RequestOpen(c) \/ PushOpen(c)
      PROVE  UNCHANGED <<mutex, pad, sctp>>
  BY <1>8, Zenon DEF RequestOpen, PushOpen
<1>9. ASSUME NEW j \in StreamIds, PushBuffer(j) \/ DestroyDataChannel(j)
      PROVE  UNCHANGED <<mutex, pad, sctp>>
  BY <1>9, Zenon DEF PushBuffer, DestroyDataChannel
<1>10. AssociationUp \/ AssociationDown \/ UNCHANGED vars => UNCHANGED <<mutex, pad, sctp>>
  BY Zenon DEF AssociationUp, AssociationDown, vars
<1> QED BY <1>1, <1>2, <1>3, <1>4, <1>5, <1>6, <1>7, <1>8, <1>9, <1>10, Zenon
        DEF Next, Handler

LEMMA StepClosing ==
    TypeOK /\ Running /\ Exposing /\ Wiring /\ Closing /\ [Next]_vars => Closing'
<1> SUFFICES ASSUME TypeOK, Running, Exposing, Wiring, Closing, [Next]_vars
             PROVE  Closing'
  OBVIOUS
<1>1. StartedIsMade /\ OpeningIsLocal /\ RemoteWaits /\ WorkerHasPad
  BY Zenon DEF Closing
<1> QED BY <1>1, StepStartedIsMade, StepOpeningIsLocal, StepRemoteWaits,
        StepWorkerHasPad, Zenon DEF Closing

(***************************************************************************)
(* A remote channel that is closing keeps its job or its worker, or the    *)
(* SCTP thread is about to forget it.                                      *)
(***************************************************************************)
LEMMA StepRemoteCloseInFlight ==
    /\ TypeOK /\ Running /\ Exposing /\ Wiring /\ Closing /\ RemoteCloseInFlight
    /\ [Next]_vars
    => RemoteCloseInFlight'
<1> SUFFICES ASSUME TypeOK, Running, Exposing, Wiring, Closing, RemoteCloseInFlight,
                    [Next]_vars, NEW i \in StreamIds,
                    table'[i] # NoBin, ~Own(i), state'[table'[i]] = "CLOSING"
             PROVE  jobs'[table'[i]] > 0 \/ mutex' = i \/ SctpAt("removing", i)'
  BY DEF RemoteCloseInFlight, Own
<1>a. table \in [StreamIds -> Bins \cup {NoBin}] BY Zenon DEF TypeOK
<1>b. StartedIsMade /\ RemoteWaits /\ WorkerHasPad BY Zenon DEF Closing
<1>1. table'[i] = table[i] BY <1>b, RemoteIsFresh
<1> DEFINE b == table[i]
<1>2. b \in Bins /\ b # NoBin /\ ~Removed(b) /\ id[b] = i
  <2>1. b \in Bins BY <1>a, <1>1
  <2>2. id[b] = i BY <1>1, Zenon DEF Wiring, TableIsMade
  <2> QED BY <1>1, <2>1, <2>2 DEF Removed
<1>3. SctpAt("removing", i) => SctpAt("removing", i)' BY StreamStays
<1>4. CASE state[b] # "CLOSING"
  <2>1. b \in Bins /\ state'[b] = "CLOSING" BY <1>1, <1>2
  <2> QED BY <1>1, <1>4, <2>1, ClosingStarts
<1>5. CASE state[b] = "CLOSING" /\ jobs[b] > 0
  <2>1. CASE jobs'[b] > 0 BY <1>1, <2>1
  <2>2. CASE ResetStreamAsync(b)
    <3>1. PICK j \in StreamIds : /\ Removed(b) \/ j = id[b]
                                /\ mutex' = IF pad[j] = NoPad THEN Free ELSE j
      BY <2>2, Zenon DEF ResetStreamAsync
    <3>2. j = i BY <1>2, <3>1
    <3>3. pad[i] = NoPad => SctpAt("removing", i)
      <4>1. NoPad # b BY <1>2
      <4> QED BY <1>b, <1>2, <1>5, <4>1 DEF RemoteWaits
    <3> QED BY <1>3, <3>1, <3>2, <3>3
  <2> QED BY <1>2, <1>5, <2>1, <2>2, JobsStay
<1>6. CASE mutex = i
  <2>1. ASSUME ResetStream(i) PROVE SctpAt("removing", i)
    <3>1. pad[i] = NoPad
      <4>1. table' = [table EXCEPT ![i] = NoBin] \/ pad[i] = NoPad
        BY <2>1, ResetStreamEffect, Zenon
      <4> QED BY <1>a, <4>1
    <3> QED BY <1>b, <1>6, <3>1 DEF WorkerHasPad
  <2> QED BY <1>3, <1>6, <2>1, MutexStays
<1>7. state[b] = "CLOSING" => jobs[b] > 0 \/ mutex = i \/ SctpAt("removing", i)
  BY <1>2 DEF RemoteCloseInFlight
<1> QED BY <1>3, <1>4, <1>5, <1>6, <1>7


(***************************************************************************)
(* The theorems.                                                           *)
(***************************************************************************)

\* The initial states satisfy the inductive invariant ...
LEMMA InitIInv == Init => IInv
<1> SUFFICES ASSUME Init PROVE IInv OBVIOUS
<1>1. TypeOK BY InitType
<1>2. /\ \A i \in StreamIds : table[i] = NoBin /\ handles[i] = NoBin
                              /\ pad[i] = NoPad /\ pc[i] = "idle"
      /\ \A b \in Bins : state[b] = "CLOSED" /\ closed[b] = 0 /\ opening[b] = "no"
      /\ negotiated = {} /\ mutex = Free
  BY DEF Init
<1>3. \A i \in StreamIds, l \in {"adding", "linking", "removing", "closing"} : ~SctpAt(l, i)
  BY DEF Init, SctpAt, Idle
<1>4. Pending = {}
  <2>1. pending = <<>> BY Zenon DEF Init
  <2> QED BY <2>1 DEF Pending, Range
<1>5. Running /\ HandleBacked BY <1>2 DEF Running, HandleBacked
<1>6. Exposing /\ LeavingIsGone BY <1>3 DEF Exposing, LeavingIsGone
<1>7. Wiring BY <1>2, <1>4 DEF Wiring, PendingIsLocal, TableIsMade, PadIsLinked
<1>8. Handshake
  BY <1>2 DEF Handshake, NegotiatedIsMade, UnlinkedIsSilent, AckIsFirst, EmitHasHandle
<1>9. ReceiverReady /\ RemoteCloseInFlight BY <1>2 DEF ReceiverReady, RemoteCloseInFlight
<1>10. Closing
  <2>1. \A i \in StreamIds : mutex # i BY <1>2, ConstantsAssumption
  <2> QED BY <1>2, <2>1 DEF Closing, StartedIsMade, OpeningIsLocal, RemoteWaits,
          WorkerHasPad
<1>11. ClosedIsGone BY <1>2 DEF ClosedIsGone
<1> QED BY <1>1, <1>5, <1>6, <1>7, <1>8, <1>9, <1>10, <1>11 DEF IInv

\* ... and every step keeps it, by the lemmas on its parts.
LEMMA StepIInv == IInv /\ [Next]_vars => IInv'
<1> SUFFICES ASSUME IInv, [Next]_vars PROVE IInv' OBVIOUS
<1>1. /\ TypeOK /\ Running /\ Exposing /\ Wiring /\ HandleBacked /\ Handshake
      /\ ReceiverReady /\ Closing /\ RemoteCloseInFlight /\ ClosedIsGone /\ LeavingIsGone
  BY Zenon DEF IInv
<1>2. TypeOK' BY <1>1, StepType
<1>3. Running' BY <1>1, StepRunning
<1>4. Exposing' BY <1>1, StepExposing
<1>5. Wiring' BY <1>1, StepWiring
<1>6. HandleBacked' BY <1>1, StepHandleBacked
<1>7. Handshake' BY <1>1, StepHandshake
<1>8. ReceiverReady' BY <1>1, StepReceiverReady
<1>9. Closing' BY <1>1, StepClosing
<1>10. RemoteCloseInFlight' BY <1>1, StepRemoteCloseInFlight
<1>11. ClosedIsGone' /\ LeavingIsGone' BY <1>1, StepClosedIsGone, StepLeavingIsGone
<1> QED
  BY <1>2, <1>3, <1>4, <1>5, <1>6, <1>7, <1>8, <1>9, <1>10, <1>11, Zenon DEF IInv

\* The inductive invariant holds in every reachable state.
THEOREM InductiveInvariant == Spec => []IInv
<1>1. Init => IInv BY InitIInv
<1>2. IInv /\ [Next]_vars => IInv' BY StepIInv
<1> QED BY <1>1, <1>2, PTL DEF Spec

(***************************************************************************)
(* Whatever the streams, the role and the number of channels, messages and *)
(* association changes, every variable keeps its type.                     *)
(***************************************************************************)
THEOREM TypeInvariant == Spec => []TypeOK
<1>1. IInv => TypeOK BY Zenon DEF IInv
<1> QED BY <1>1, InductiveInvariant, PTL

(***************************************************************************)
(* The raw pointer of a KmsWebRtcDataChannel never dangles while the       *)
(* session hands it out: its element is the stream's channel               *)
(* (data_channel_negotiated_cb, pad_removed).                              *)
(***************************************************************************)
THEOREM HandlesAreBacked == Spec => []HandleBacked
<1>1. IInv => HandleBacked BY Zenon DEF IInv
<1> QED BY <1>1, InductiveInvariant, PTL

(***************************************************************************)
(* A negotiated channel is ready to receive before its streaming thread    *)
(* takes the next message (new_data_callback).                             *)
(***************************************************************************)
THEOREM ReceiversAreReady == Spec => []ReceiverReady
<1>1. IInv => ReceiverReady BY Zenon DEF IInv
<1> QED BY <1>1, InductiveInvariant, PTL

(***************************************************************************)
(* A closing channel of the peer's has a job queued, or its stream is      *)
(* being reset, or its pad is gone already and pad_removed waits for the   *)
(* session mutex to forget it (KMS_WEBRTC_DATA_CHANNEL_RESET,              *)
(* reset_stream_async, pad_removed).                                       *)
(***************************************************************************)
THEOREM RemoteClosesAreInFlight == Spec => []RemoteCloseInFlight
<1>1. IInv => RemoteCloseInFlight BY Zenon DEF IInv
<1> QED BY <1>1, InductiveInvariant, PTL

\* A step that opens or closes a channel finds it not yet closed.
LEMMA StepEvents ==
    IInv /\ [Next]_vars =>
      \A b \in Bins : opened'[b] # opened[b] \/ closed'[b] # closed[b] => closed[b] = 0
<1> SUFFICES ASSUME IInv, [Next]_vars, NEW b \in Bins,
                    opened'[b] # opened[b] \/ closed'[b] # closed[b]
             PROVE  closed[b] = 0
  OBVIOUS
<1>1. /\ TypeOK /\ Running /\ Exposing
      /\ \A i \in StreamIds : pad[i] \in Bins => table[i] = pad[i]
      /\ \A i \in StreamIds : table[i] # NoBin => closed[table[i]] = 0
      /\ LeavingIsGone
  BY Zenon DEF IInv, Wiring, PadIsLinked, ClosedIsGone
<1>2. opened \in [Bins -> Nat] /\ closed \in [Bins -> Nat] BY <1>1, Zenon DEF TypeOK
<1>3. ASSUME NEW i \in StreamIds, ResetStream(i) PROVE closed[b] = 0
  <2>1. /\ opened' = opened
        /\ \/ closed' = closed
           \/ table[i] # NoBin /\ closed' = [closed EXCEPT ![table[i]] = closed[table[i]] + 1]
    BY <1>3, ResetStreamEffect, Zenon DEF Others
  <2>2. table[i] # NoBin /\ b = table[i] BY <1>2, <2>1
  <2> QED BY <1>1, <2>2
<1>4. ASSUME NEW i \in StreamIds, EmitClosed(i) PROVE closed[b] = 0
  <2>1. /\ opened' = opened /\ SctpAt("closing", i)
        /\ closed' = [closed EXCEPT ![sctp.channel] = closed[sctp.channel] + 1]
    BY <1>4, EmitClosedEffect, Zenon DEF Others
  <2>2. b = sctp.channel BY <1>2, <2>1
  <2> QED BY <1>1, <2>1, <2>2 DEF LeavingIsGone
<1>5. ASSUME NEW i \in StreamIds, Handler(i) PROVE closed[b] = 0
  <2>1. closed' = closed BY <1>5, HandlerFrame, Zenon
  <2>2. pad[i] \in Bins /\ table[i] # NoBin /\ table[i] = pad[i]
    BY <1>1, <1>5, HandlerEffect
  <2>3. opened' = opened \/ opened' = [opened EXCEPT ![pad[i]] = opened[pad[i]] + 1]
    BY <1>5, Zenon DEF Handler, HandleInvalid, HandleOpenRequest, HandleAck, PushAck,
       AckPushed, NegotiatedCb, EmitOpened
  <2>4. b = pad[i] BY <1>2, <2>1, <2>2, <2>3
  <2> QED BY <1>1, <2>2, <2>4
<1>6. ASSUME NEW i \in StreamIds, NEW both \in BOOLEAN, CreateDataChannel(i, both)
      PROVE  UNCHANGED <<opened, closed>>
  BY <1>6, CreateEffect, Zenon
<1>7. AssociationUp => UNCHANGED <<opened, closed>> BY Zenon DEF AssociationUp
<1>8. ASSUME NEW i \in StreamIds,
             ExposePad(i) \/ PadAdded(i) \/ LinkPad(i) \/ RemoteReset(i) \/ PadRemoved(i)
      PROVE  UNCHANGED <<opened, closed>>
  BY <1>8, ExposePadEffect, PadAddedEffect, LinkPadEffect, RemoteResetEffect,
     PadRemovedEffect, Zenon DEF Others
<1> QED BY <1>3, <1>4, <1>5, <1>6, <1>7, <1>8, Frame, Zenon

(***************************************************************************)
(* At most one "data-channel-closed" of a channel, and nothing after it    *)
(* (pad_removed, data_channel_negotiated_cb).                              *)
(***************************************************************************)
THEOREM EventsAreInOrder == Spec => EventsInOrder
<1>1. IInv /\ [Next]_vars =>
        [\A b \in Bins :
           opened'[b] # opened[b] \/ closed'[b] # closed[b] => closed[b] = 0]_vars
  BY StepEvents
<1> QED BY <1>1, InductiveInvariant, PTL DEF Spec, EventsInOrder

==================================================================================
