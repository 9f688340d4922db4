------------------------------ MODULE PlayerProofs ------------------------------
(***************************************************************************)
(* Theorems about the player, for every number of streams, of buffers, of  *)
(* ticks and of calls: its type invariant, that no buffer is refused for   *)
(* its time stamp, and that streams which play together share a base time, *)
(* which is not older than the last interruption.                          *)
(***************************************************************************)
EXTENDS Player, TLAPS

(* What the appsink's data says of the buffer that comes next.  A stream    *)
(* that prerolls has just forgotten both its base and the last time stamp   *)
(* it took; one that is ready has handed over its next buffer already, or   *)
(* will stamp it after the last one.                                        *)
Stamps ==
    \A s \in Streams :
        /\ pts[s].last >= NoTime
        /\ sink[s] = "prerolling" =>
             pts[s].base = NoTime /\ pts[s].lastOrig = NoTime /\ HasBuffer(s)
        /\ sink[s] = "ready" /\ pts[s].base = NoTime => pts[s].lastOrig = pos[s]
        /\ sink[s] = "ready" /\ pts[s].base # NoTime =>
             /\ pts[s].lastOrig # NoTime /\ pts[s].lastOrig < pos[s]
             /\ pts[s].last < pts[s].base + pos[s] - pts[s].offset

(* Who has taken the base time.  While a stream prerolls nobody has, so     *)
(* that it may forget the base time.                                        *)
Prerolls(s) == sink[s] \in {"waiting", "prerolling"}

Bases ==
    /\ \A s \in Streams : sink[s] \notin {"ready", "ended"} => shared[s] = NoTime
    /\ \A s \in Streams : sink[s] = "ready" =>
         /\ shared[s] \in {NoTime, base_time}
         /\ shared[s] = NoTime <=> pts[s].base = NoTime
    /\ \A r, s \in Streams : Prerolls(r) /\ sink[s] = "ready" => shared[s] = NoTime

IInv == TypeOK /\ Stamps /\ Bases /\ NothingLost

-----------------------------------------------------------------------------

(* Nothing has been stamped yet. *)
LEMMA InitHolds == Init => IInv
<1> SUFFICES ASSUME Init PROVE IInv
    OBVIOUS
<1>1. Flags
    BY DEF Init, Flags
<1>2. Calling /\ Stamping
    BY ConstantsAssumption DEF Init, Calling, Stamping, NewPts, NoTime
<1>3. Stamps
    BY DEF Init, Stamps, NewPts, NoTime
<1>4. Bases
    BY DEF Init, Bases, Prerolls
<1>5. NothingLost
    BY DEF Init, NothingLost
<1> QED  BY <1>1, <1>2, <1>3, <1>4, <1>5 DEF IInv, TypeOK

(* Push leaves alone a buffer that was pushed before. *)
LEMMA PushAgain ==
    ASSUME NEW s \in Streams, NEW d, NEW from, NEW offset, NothingLost,
           Push(s, d, from, offset), d.lastOrig = pos[s], pos[s] # NoTime
    PROVE  NothingLost' /\ pts' = [pts EXCEPT ![s] = d]
  BY DEF Push, NothingLost

(* Whether a buffer is lost is a Boolean. *)
LEMMA PushTold ==
    ASSUME NEW s \in Streams, NEW d, NEW from, NEW offset, Push(s, d, from, offset)
    PROVE  lost' \in BOOLEAN
  BY DEF Push

(* KmsPtsData keeps its type when the data of one appsink is changed, when  *)
(* a buffer is taken, when a base time is taken, and when it is reset.      *)
PtsData == [base : Int, offset : NoTime .. End + 1, last : Int, lastOrig : NoTime .. End]

(* The data of one appsink is exchanged. *)
LEMMA PtsChanged ==
    ASSUME NEW s \in Streams, NEW d \in PtsData, pts \in [Streams -> PtsData],
           pts' = [pts EXCEPT ![s] = d]
    PROVE  pts' \in [Streams -> PtsData]
  OBVIOUS

(* process_sample pushed a buffer. *)
LEMMA PtsTaken ==
    ASSUME NEW d \in PtsData, NEW stamp \in Int, NEW orig \in NoTime .. End
    PROVE  [d EXCEPT !.last = stamp, !.lastOrig = orig] \in PtsData
  BY DEF PtsData

(* The first sample sets base and offset. *)
LEMMA PtsBased ==
    ASSUME NEW d \in PtsData, NEW from \in Int, NEW offset \in NoTime .. End + 1
    PROVE  [d EXCEPT !.base = from, !.offset = offset] \in PtsData
  BY DEF PtsData

(* kms_pts_data_reset. *)
LEMMA PtsForgotten ==
    ASSUME NEW d \in PtsData
    PROVE  PtsDataReset(d) \in PtsData
<1>1. NoTime \in Int /\ NoTime \in NoTime .. End
    BY ConstantsAssumption DEF NoTime
<1>2. [d EXCEPT !.base = NoTime] \in PtsData
    BY <1>1 DEF PtsData
<1>3. [[d EXCEPT !.base = NoTime] EXCEPT !.lastOrig = NoTime] \in PtsData
    BY <1>1, <1>2 DEF PtsData
<1>4. PtsDataReset(d) = [[d EXCEPT !.base = NoTime] EXCEPT !.lastOrig = NoTime]
    BY DEF PtsDataReset
<1> QED  BY <1>3, <1>4

(* The invariant gives KmsPtsData its type. *)
LEMMA PtsTyped ==
    ASSUME IInv
    PROVE  pts \in [Streams -> PtsData]
  BY DEF IInv, TypeOK, Stamping, PtsData

(* Steps of the application, the loop and the clock that touch no stream: a *)
(* call goes on, a mark is set, an end is told, time passes.                *)
Quiet == UNCHANGED <<sink, pos, pts, shared, base_time, lost>>

(* Such a step keeps what is said of the streams. *)
LEMMA QuietKeeps ==
    ASSUME IInv, Quiet
    PROVE  Stamps' /\ Bases' /\ NothingLost'
  BY DEF IInv, Quiet, Stamps, Bases, NothingLost, Prerolls, HasBuffer

(* They keep the invariant. *)
LEMMA ControlStep ==
    ASSUME IInv,
           \/ Play \/ Started \/ Stop \/ Stopped \/ Seek \/ Pause \/ PauseSeek
           \/ PauseNoSeek \/ PauseAgain \/ PausePipelineAgain \/ Paused
           \/ EmitEos \/ EosTold \/ Tick
    PROVE  IInv'
<1> USE DEF TypeOK, control, ending, base, history
<1>1. CASE Play \/ Stop \/ Seek
  <2>1. Flags'
    BY <1>1 DEF IInv, Flags, Play, Stop, Seek, Call, MarkReset
  <2>2. Calling' /\ Stamping' /\ Quiet
    BY <1>1, ConstantsAssumption
    DEF IInv, Calling, Stamping, Quiet, Play, Stop, Seek, Call, MarkReset
  <2> QED  BY <2>1, <2>2, QuietKeeps DEF IInv, TypeOK
<1>2. CASE Pause \/ PauseSeek \/ PauseAgain
  <2>1. Flags'
    BY <1>2 DEF IInv, Flags, Pause, PauseSeek, PauseAgain, Call, Step, MarkReset
  <2>2. Calling' /\ Stamping' /\ Quiet
    BY <1>2, ConstantsAssumption
    DEF IInv, Calling, Stamping, Quiet, Pause, PauseSeek, PauseAgain, Call, Step, MarkReset
  <2> QED  BY <2>1, <2>2, QuietKeeps DEF IInv, TypeOK
<1>3. CASE Started \/ Stopped \/ Paused
  <2>1. Flags'
    BY <1>3 DEF IInv, Flags, Started, Stopped, Paused, ChangeState, Step
  <2>2. Calling' /\ Stamping' /\ Quiet
    BY <1>3, ConstantsAssumption
    DEF IInv, Calling, Stamping, Quiet, Started, Stopped, Paused, ChangeState, Step
  <2> QED  BY <2>1, <2>2, QuietKeeps DEF IInv, TypeOK
<1>4. CASE PauseNoSeek \/ PausePipelineAgain
  <2>1. Flags'
    BY <1>4 DEF IInv, Flags, PauseNoSeek, PausePipelineAgain, Step
  <2>2. Calling' /\ Stamping' /\ Quiet
    BY <1>4, ConstantsAssumption
    DEF IInv, Calling, Stamping, Quiet, PauseNoSeek, PausePipelineAgain, Step
  <2> QED  BY <2>1, <2>2, QuietKeeps DEF IInv, TypeOK
<1>5. CASE EmitEos \/ EosTold \/ Tick
  <2>1. Flags'
    BY <1>5 DEF IInv, Flags, EmitEos, EosTold, Tick, MarkReset
  <2>2. Calling' /\ Stamping' /\ Quiet
    BY <1>5, ConstantsAssumption
    DEF IInv, Calling, Stamping, Quiet, EmitEos, EosTold, Tick, MarkReset
  <2> QED  BY <2>1, <2>2, QuietKeeps DEF IInv, TypeOK
<1> QED  BY <1>1, <1>2, <1>3, <1>4, <1>5

(* Without streams there is nothing to say of them. *)
LEMMA NullStep ==
    ASSUME IInv, StopNull \/ EosNull
    PROVE  IInv'
<1>1. /\ SetNull /\ UNCHANGED <<base, now, lost>>
    BY DEF StopNull, EosNull, history, base
<1>2. TypeOK'
  <2>1. Flags'
    BY <1>1 DEF IInv, TypeOK, Flags, StopNull, EosNull, base
  <2>2. Calling'
    BY <1>1 DEF IInv, TypeOK, Calling, SetNull, StopNull, EosNull, Step, control, ending
  <2>3. Stamping'
    BY <1>1, ConstantsAssumption DEF IInv, TypeOK, Stamping, SetNull, NewPts, NoTime, base
  <2> QED  BY <2>1, <2>2, <2>3 DEF TypeOK
<1>3. Stamps'
    BY <1>1 DEF SetNull, Stamps, NewPts, NoTime
<1>4. Bases' /\ NothingLost'
    BY <1>1 DEF IInv, SetNull, Bases, NothingLost, Prerolls
<1> QED  BY <1>2, <1>3, <1>4 DEF IInv

(* A seek or a pause makes streams wait for a buffer; those that stay ready *)
(* are as they were, or had not begun.                                      *)
LEMMA TypesAfterSeek ==
    ASSUME IInv, SeekDone \/ PauseSeekDone
    PROVE  Flags' /\ Calling'
<1>1. Flags'
    BY DEF IInv, TypeOK, Flags, SeekDone, PauseSeekDone, Seeked, base
<1>2. Calling'
    BY DEF IInv, TypeOK, Calling, SeekDone, PauseSeekDone, Seeked, Step, ending
<1> QED  BY <1>1, <1>2

LEMMA SeekStep ==
    ASSUME IInv, SeekDone \/ PauseSeekDone
    PROVE  IInv'
<1>1. PICK t \in SeekResults :
          Seeked("seeking", "idle", t) \/ Seeked("pauseSeeking", "pauseSeeked", t)
    BY DEF SeekDone, PauseSeekDone
<1>2. UNCHANGED <<pts, base_time, lost>>
    BY <1>1 DEF Seeked, base
<1>3. CASE t = NoTime
  <2>1. Quiet
    BY <1>1, <1>2, <1>3 DEF Seeked, Quiet
  <2>2. TypeOK'
    BY <1>1, <1>3, TypesAfterSeek DEF IInv, TypeOK, Stamping, Seeked, base
  <2> QED  BY <2>1, <2>2, QuietKeeps DEF IInv
<1>4. CASE t # NoTime
  <2>1. Flush(t) /\ t \in 0 .. End
    BY <1>1, <1>4, ConstantsAssumption DEF Seeked, SeekResults, NoTime
  <2>2. TypeOK'
    BY <1>1, <2>1, TypesAfterSeek, ConstantsAssumption
    DEF IInv, TypeOK, Stamping, Seeked, Flush, base, NoTime
  <2>3. \A s \in Streams : sink'[s] \in {"none", "waiting"} /\ shared'[s] = NoTime
    BY <2>1 DEF Flush
  <2>4. Stamps'
    BY <1>2, <2>3 DEF IInv, Stamps
  <2>5. Bases' /\ NothingLost'
    BY <1>2, <2>3 DEF IInv, Bases, NothingLost
  <2> QED  BY <2>2, <2>4, <2>5 DEF IInv
<1> QED  BY <1>3, <1>4

LEMMA PauseStep ==
    ASSUME IInv, PausePipeline
    PROVE  IInv'
<1> DEFINE ready == {s \in Streams : sink[s] = "ready" /\ pipeline = "PLAYING"}
<1>1. PICK again \in SUBSET ready :
          /\ {s \in ready : pts[s].base # NoTime} \subseteq again
          /\ sink' = [s \in Streams |-> IF s \in again THEN "waiting" ELSE sink[s]]
          /\ shared' = [s \in Streams |-> IF s \in again THEN NoTime ELSE shared[s]]
    BY DEF PausePipeline
<1>2. UNCHANGED <<pos, pts, base_time, lost>>
    BY DEF PausePipeline, base
<1>3. TypeOK'
  <2>1. Flags'
    BY DEF IInv, TypeOK, Flags, PausePipeline, base
  <2>2. Calling'
    BY DEF IInv, TypeOK, Calling, PausePipeline, Step, ending
  <2>3. Stamping'
    BY <1>1, ConstantsAssumption DEF IInv, TypeOK, Stamping, PausePipeline, base, NoTime
  <2> QED  BY <2>1, <2>2, <2>3 DEF TypeOK
<1>4. Stamps'
    BY <1>1, <1>2 DEF IInv, Stamps, HasBuffer
<1>5. ASSUME NEW r \in Streams, NEW s \in Streams, Prerolls(r)', sink'[s] = "ready"
      PROVE  shared'[s] = NoTime
  <2>1. sink[s] = "ready" /\ s \notin again /\ shared'[s] = shared[s]
    BY <1>1, <1>5
  <2>2. CASE pipeline = "PLAYING"
    BY <1>1, <2>1, <2>2 DEF IInv, Bases
  <2>3. CASE pipeline # "PLAYING"
    BY <1>1, <1>5, <2>1, <2>3 DEF IInv, Bases, Prerolls
  <2> QED  BY <2>2, <2>3
<1>6. Bases'
    BY <1>1, <1>2, <1>5 DEF IInv, Bases
<1> QED  BY <1>2, <1>3, <1>4, <1>6 DEF IInv, NothingLost

LEMMA PadsStep ==
    ASSUME IInv, PadsAdded
    PROVE  IInv'
<1>1. TypeOK'
  <2>1. Flags'
    BY DEF IInv, TypeOK, Flags, PadsAdded, base, history
  <2>2. Calling'
    BY DEF IInv, TypeOK, Calling, PadsAdded, control, ending
  <2>3. Stamping'
    BY DEF IInv, TypeOK, Stamping, PadsAdded, base, history
  <2> QED  BY <2>1, <2>2, <2>3 DEF TypeOK
<1>2. Stamps' /\ Bases' /\ NothingLost'
    BY DEF IInv, PadsAdded, Stamps, Bases, NothingLost, history, base
<1> QED  BY <1>1, <1>2 DEF IInv

(* The base times are forgotten while no stream has taken one. *)
LEMMA PrerollResetStep ==
    ASSUME IInv, NEW s \in Streams, PrerollReset(s)
    PROVE  IInv'
<1> USE DEF PrerollReset, HasBuffer
<1>1. TypeOK'
  <2>1. Flags'
    BY DEF IInv, TypeOK, Flags, ForgetBaseTime, base
  <2>2. Calling'
    BY DEF IInv, TypeOK, Calling, control, ending
  <2>3. Stamping'
    <3>1. base_time' \in NoTime .. MaxTime /\ base_time_preroll' \in NoTime .. MaxTime
      BY ConstantsAssumption DEF IInv, TypeOK, Stamping, ForgetBaseTime, NoTime, base
    <3>2. PtsDataReset(pts[s]) \in PtsData
      BY PtsTyped, PtsForgotten
    <3>3. pts' \in [Streams -> PtsData]
      BY <3>2, PtsTyped, PtsChanged
    <3> QED  BY <3>1, <3>3 DEF IInv, TypeOK, Stamping, PtsData
  <2> QED  BY <2>1, <2>2, <2>3 DEF TypeOK
<1>2. Stamps'
    BY DEF IInv, TypeOK, Stamping, Stamps, PtsDataReset, NoTime
<1>3. \A r \in Streams : sink'[r] = "ready" => shared'[r] = NoTime
    BY DEF IInv, TypeOK, Stamping, Bases, Prerolls
<1>4. Bases'
    BY <1>3 DEF IInv, TypeOK, Stamping, Bases, Prerolls, PtsDataReset
<1> QED  BY <1>1, <1>2, <1>4 DEF IInv, NothingLost

(* The preroll is pushed: its time is after the last one, and its original  *)
(* time was forgotten.                                                      *)
LEMMA PrerollPushStep ==
    ASSUME IInv, NEW s \in Streams, PrerollPush(s)
    PROVE  IInv'
<1> DEFINE t == Take(base_time_preroll)
           stamp == BaseAfter(t, pts[s].last) + pos[s] - pos[s]
<1>1. t \in 0 .. MaxTime
    BY ConstantsAssumption DEF IInv, TypeOK, Stamping, Take, NoTime
<1>2. /\ pts[s].last \in Int /\ pts[s].last >= NoTime /\ pos[s] \in 0 .. End
      /\ pts[s].base = NoTime /\ pts[s].lastOrig = NoTime
    BY ConstantsAssumption DEF IInv, TypeOK, Stamping, Stamps, PrerollPush, HasBuffer
<1>3. /\ stamp \in Nat
      /\ pts[s].last # NoTime => stamp > pts[s].last
    BY <1>1, <1>2 DEF BaseAfter, Later, NoTime
<1>4. /\ NothingLost'
      /\ pts' = [pts EXCEPT ![s] = [pts[s] EXCEPT !.last = stamp, !.lastOrig = pos[s]]]
  <2>1. Push(s, pts[s], BaseAfter(t, pts[s].last), pos[s])
    BY DEF PrerollPush
  <2>2. pts[s].last # NoTime => ~(stamp <= pts[s].last)
    BY <1>2, <1>3
  <2>3. NothingLost
    BY DEF IInv
  <2> HIDE DEF t
  <2> QED  BY <1>2, <2>1, <2>2, <2>3 DEF Push, NothingLost
<1>5. TypeOK'
  <2>1. Flags'
    BY PushTold DEF IInv, TypeOK, Flags, PrerollPush
  <2>2. Calling'
    BY DEF IInv, TypeOK, Calling, PrerollPush, control, ending
  <2>3. Stamping'
    <3> HIDE DEF t, stamp
    <3>1. pos[s] \in NoTime .. End /\ stamp \in Int
      BY <1>2, <1>3, ConstantsAssumption DEF NoTime
    <3>2. pts' \in [Streams -> PtsData]
      BY <1>4, <3>1, PtsTyped, PtsTaken, PtsChanged
    <3>3. base_time_preroll' = t
      BY DEF PrerollPush, t
    <3>4. base_time_preroll' \in NoTime .. MaxTime
      BY <1>1, <3>3, ConstantsAssumption DEF NoTime
    <3> QED  BY <3>2, <3>4 DEF IInv, TypeOK, Stamping, PtsData, PrerollPush
  <2> QED  BY <2>1, <2>2, <2>3 DEF TypeOK
<1>6. Stamps'
    BY <1>2, <1>3, <1>4 DEF IInv, TypeOK, Stamping, Stamps, PrerollPush, HasBuffer, NoTime
<1>7. Bases'
    BY <1>2, <1>4 DEF IInv, TypeOK, Stamping, Bases, Prerolls, PrerollPush
<1> QED  BY <1>4, <1>5, <1>6, <1>7 DEF IInv

(* The first sample is the buffer of the preroll: it is not pushed again,   *)
(* and those that follow it are stamped after it.                           *)
LEMMA FirstSampleStep ==
    ASSUME IInv, NEW s \in Streams, FirstSample(s)
    PROVE  IInv'
<1> DEFINE t == Take(base_time)
           from == BaseAfter(t, pts[s].last)
<1>1. /\ t \in 0 .. MaxTime
      /\ base_time # NoTime => t = base_time
    BY ConstantsAssumption DEF IInv, TypeOK, Stamping, Take, NoTime
<1>2. /\ pts[s].last \in Int /\ pts[s].last >= NoTime /\ pos[s] \in 0 .. End
      /\ pts[s].lastOrig = pos[s] /\ sink[s] = "ready"
    BY ConstantsAssumption DEF IInv, TypeOK, Stamping, Stamps, FirstSample, Playing, HasBuffer
<1>3. from \in Nat /\ from > pts[s].last
    BY <1>1, <1>2 DEF BaseAfter, Later, NoTime
<1>4. /\ NothingLost'
      /\ pts' = [pts EXCEPT ![s] = [pts[s] EXCEPT !.base = from, !.offset = pos[s]]]
  <2> HIDE DEF t, from
  <2>1. Push(s, [pts[s] EXCEPT !.base = from, !.offset = pos[s]], from, pos[s])
    BY DEF FirstSample, t, from
  <2>2. /\ [pts[s] EXCEPT !.base = from, !.offset = pos[s]].lastOrig = pos[s]
        /\ pos[s] # NoTime
    BY <1>2 DEF IInv, TypeOK, Stamping, NoTime
  <2> QED  BY <2>1, <2>2, PushAgain DEF IInv
<1> HIDE DEF t, from
<1>5. /\ base_time' = t /\ shared' = [shared EXCEPT ![s] = t]
      /\ pos' = [pos EXCEPT ![s] = @ + 1] /\ sink' = sink
    BY DEF FirstSample, t
<1>6. TypeOK'
  <2>1. Flags'
    BY PushTold DEF IInv, TypeOK, Flags, FirstSample
  <2>2. Calling'
    BY DEF IInv, TypeOK, Calling, FirstSample, control, ending
  <2>3. Stamping'
    <3>1. pos[s] \in NoTime .. End + 1 /\ from \in Int
      BY <1>2, <1>3, ConstantsAssumption DEF NoTime
    <3>2. pts' \in [Streams -> PtsData]
      BY <1>4, <3>1, PtsTyped, PtsBased, PtsChanged
    <3>3. pos' \in [Streams -> 0 .. End + 1] /\ shared' \in [Streams -> NoTime .. MaxTime]
      BY <1>1, <1>2, <1>5, ConstantsAssumption DEF IInv, TypeOK, Stamping, NoTime
    <3> QED  BY <1>1, <1>5, <3>2, <3>3
             DEF IInv, TypeOK, Stamping, PtsData, FirstSample, NoTime
  <2> QED  BY <2>1, <2>2, <2>3 DEF TypeOK
<1>7. Stamps'
    BY <1>2, <1>3, <1>4, <1>5 DEF IInv, TypeOK, Stamping, Stamps, HasBuffer, NoTime
<1>8. Bases'
    BY <1>1, <1>2, <1>3, <1>4, <1>5
    DEF IInv, TypeOK, Stamping, Bases, Prerolls, FirstSample, Playing, NoTime
<1> QED  BY <1>4, <1>6, <1>7, <1>8 DEF IInv

LEMMA NextSampleStep ==
    ASSUME IInv, NEW s \in Streams, NextSample(s)
    PROVE  IInv'
<1> DEFINE stamp == pts[s].base + pos[s] - pts[s].offset
<1>1. /\ pts[s].base # NoTime /\ sink[s] = "ready" /\ pos[s] \in 0 .. End
    BY ConstantsAssumption DEF IInv, TypeOK, Stamping, NextSample, Playing, Begun, HasBuffer
<1>2. /\ pts[s].last >= NoTime /\ pts[s].last < stamp
      /\ pts[s].lastOrig # NoTime /\ pts[s].lastOrig < pos[s]
    BY <1>1 DEF IInv, Stamps
<1>3. /\ pts[s].last \in Int /\ pts[s].base \in Int /\ pts[s].offset \in NoTime .. End + 1
      /\ pts[s].lastOrig \in NoTime .. End
    BY DEF IInv, TypeOK, Stamping
<1>4. stamp \in Int
    BY <1>1, <1>3, ConstantsAssumption DEF NoTime
<1>5. /\ NothingLost'
      /\ pts' = [pts EXCEPT ![s] = [pts[s] EXCEPT !.last = stamp, !.lastOrig = pos[s]]]
  <2>1. Push(s, pts[s], pts[s].base, pts[s].offset)
    BY DEF NextSample
  <2>2. /\ ~(pos[s] < pts[s].lastOrig) /\ pos[s] # pts[s].lastOrig
        /\ ~(stamp <= pts[s].last)
    BY <1>1, <1>2, <1>3, <1>4, ConstantsAssumption DEF NoTime
  <2>3. NothingLost
    BY DEF IInv
  <2> QED  BY <2>1, <2>2, <2>3 DEF Push, NothingLost
<1> HIDE DEF stamp
<1>6. TypeOK'
  <2>1. Flags'
    BY PushTold DEF IInv, TypeOK, Flags, NextSample, base
  <2>2. Calling'
    BY DEF IInv, TypeOK, Calling, NextSample, control, ending
  <2>3. Stamping'
    <3>1. pos[s] \in NoTime .. End
      BY <1>1, ConstantsAssumption DEF NoTime
    <3>2. pts' \in [Streams -> PtsData]
      BY <1>4, <1>5, <3>1, PtsTyped, PtsTaken, PtsChanged
    <3>3. pos' \in [Streams -> 0 .. End + 1]
      BY <1>1, ConstantsAssumption DEF IInv, TypeOK, Stamping, NextSample
    <3> QED  BY <3>2, <3>3 DEF IInv, TypeOK, Stamping, PtsData, NextSample, base
  <2> QED  BY <2>1, <2>2, <2>3 DEF TypeOK
<1>7. Stamps'
    BY <1>1, <1>2, <1>3, <1>4, <1>5, ConstantsAssumption
    DEF stamp,  IInv, TypeOK, Stamping, Stamps, NextSample, HasBuffer, NoTime
<1>8. Bases'
    BY <1>1, <1>5 DEF IInv, TypeOK, Stamping, Bases, Prerolls, NextSample, base
<1> QED  BY <1>5, <1>6, <1>7, <1>8 DEF IInv

LEMMA StreamEndsStep ==
    ASSUME IInv, NEW s \in Streams, StreamEnds(s)
    PROVE  IInv'
<1>1. TypeOK'
  <2>1. Flags'
    BY DEF IInv, TypeOK, Flags, StreamEnds, base, history
  <2>2. Calling'
    BY DEF IInv, TypeOK, Calling, StreamEnds, control
  <2>3. Stamping'
    BY DEF IInv, TypeOK, Stamping, StreamEnds, base, history
  <2> QED  BY <2>1, <2>2, <2>3 DEF TypeOK
<1>2. Stamps'
    BY DEF IInv, TypeOK, Stamping, StreamEnds, Stamps, HasBuffer
<1>3. Bases' /\ NothingLost'
    BY DEF IInv, TypeOK, Stamping, StreamEnds, Bases, Prerolls, NothingLost, history, base
<1> QED  BY <1>1, <1>2, <1>3 DEF IInv

-----------------------------------------------------------------------------
(* The theorems. *)

(* IInv is an invariant of the player. *)
THEOREM InductiveInvariant == Spec => []IInv
<1>1. IInv /\ [Next]_vars => IInv'
  <2> SUFFICES ASSUME IInv, [Next]_vars PROVE IInv'
    OBVIOUS
  <2>1. CASE Application
    BY <2>1, ControlStep, NullStep, SeekStep, PauseStep DEF Application
  <2>2. CASE PadsAdded
    BY <2>2, PadsStep
  <2>3. ASSUME NEW s \in Streams, Stream(s) PROVE IInv'
    BY <2>3, PrerollResetStep, PrerollPushStep, FirstSampleStep, NextSampleStep,
       StreamEndsStep DEF Stream
  <2>4. CASE Loop \/ Tick
    BY <2>4, ControlStep, NullStep DEF Loop
  <2>5. CASE UNCHANGED vars
    <3>1. TypeOK'
      BY <2>5 DEF IInv, TypeOK, Flags, Calling, Stamping, vars, control, ending, base, history
    <3>2. Quiet
      BY <2>5 DEF Quiet, vars, control, ending, base, history
    <3> QED  BY <3>1, <3>2, QuietKeeps DEF IInv
  <2> QED  BY <2>1, <2>2, <2>3, <2>4, <2>5 DEF Next
<1> QED  BY InitHolds, <1>1, PTL DEF Spec

(* The player's variables keep their types. *)
THEOREM TypeInvariant == Spec => []TypeOK
<1>1. IInv => TypeOK  BY DEF IInv
<1> QED  BY InductiveInvariant, <1>1, PTL

(* process_sample refuses no buffer of a file whose time stamps increase,   *)
(* whatever was played, paused, sought and stopped.                         *)
THEOREM NothingIsLost == Spec => []NothingLost
<1>1. IInv => NothingLost  BY DEF IInv
<1> QED  BY InductiveInvariant, <1>1, PTL

(* Streams that play together took one base time. *)
THEOREM BaseIsShared == Spec => []SharedBase
<1>1. IInv => SharedBase
    BY DEF IInv, Bases, SharedBase
<1> QED  BY InductiveInvariant, <1>1, PTL

-----------------------------------------------------------------------------
(* The base time is not older than the last interruption. *)

(* An old base time is going to be forgotten: the mark stands and a stream  *)
(* is still to preroll, or the pause is about to seek.                      *)
Awaited ==
    \/ reset /\ \E s \in Streams : sink[s] \in {"none", "waiting"}
    \/ app \in {"querying", "pauseSeeking"}
Forgotten == base_time # NoTime /\ base_time < since /\ ~missed => Awaited

(* A mark stands until what it was made for is done. *)
MarkStands == app \in Marked \/ loop = "nulling" => reset \/ missed

(* The file does not play in a pause from where the pipeline was paused on, *)
(* and a stream of a file that does not play has no base time.              *)
Held ==
    app \in {"querying", "pauseSeeking", "pauseSeeked", "pausedAgain", "paused"} =>
        pipeline # "PLAYING"
Silent == pipeline # "PLAYING" => \A s \in Streams : sink[s] = "ready" => shared[s] = NoTime

Fresh == since <= now /\ Forgotten /\ MarkStands /\ Held /\ Silent /\ FreshBase

LEMMA FreshInit == Init => Fresh
  BY DEF Init, Fresh, Forgotten, MarkStands, Held, Silent, FreshBase, Marked, NoTime

(* Nothing is interrupted and no stream begins.                             *)
LEMMA FreshControl ==
    ASSUME IInv, Fresh,
           \/ Play \/ Started \/ Stop \/ Stopped \/ Seek \/ Pause \/ PauseSeek
           \/ PauseNoSeek \/ PauseAgain \/ PausePipelineAgain \/ Paused
           \/ EmitEos \/ EosTold \/ Tick
    PROVE  Fresh'
<1> USE DEF control, ending, base, history
<1>1. CASE Play \/ Stop \/ Seek \/ Pause
  <2>1. UNCHANGED <<sink, shared, base_time, since, missed, now, loop>>
    BY <1>1 DEF Play, Stop, Seek, Pause, MarkReset
  <2>2. /\ app = "idle" /\ app' \in {"starting", "stopping", "seeking", "pausing"}
        /\ reset' \/ (reset' = reset /\ app' = "starting")
        /\ pipeline' \in {pipeline, "PLAYING"}
    BY <1>1 DEF Play, Stop, Seek, Pause, Call, MarkReset
  <2>3. Forgotten' /\ MarkStands'
    BY <2>1, <2>2 DEF Fresh, Forgotten, Awaited, MarkStands, Marked
  <2>4. Held' /\ Silent' /\ FreshBase' /\ (since <= now)'
    BY <2>1, <2>2 DEF Fresh, Held, Silent, FreshBase
  <2> QED  BY <2>3, <2>4 DEF Fresh
<1>2. CASE Started \/ Stopped \/ Paused
  <2>1. UNCHANGED <<sink, shared, base_time, since, missed, now, loop, reset, pipeline>>
    BY <1>2 DEF Started, Stopped, Paused, ChangeState
  <2>2. app \in {"starting", "stopped", "paused"} /\ app' = "idle"
    BY <1>2 DEF Started, Stopped, Paused, ChangeState, Step
  <2>3. Forgotten' /\ MarkStands'
    BY <2>1, <2>2 DEF Fresh, Forgotten, Awaited, MarkStands, Marked
  <2>4. Held' /\ Silent' /\ FreshBase' /\ (since <= now)'
    BY <2>1, <2>2 DEF Fresh, Held, Silent, FreshBase
  <2> QED  BY <2>3, <2>4 DEF Fresh
<1>3. CASE PauseSeek \/ PauseAgain
  <2>1. UNCHANGED <<sink, shared, base_time, since, missed, now, loop, pipeline>> /\ reset'
    BY <1>3 DEF PauseSeek, PauseAgain, MarkReset
  <2>2. \/ app = "querying" /\ app' = "pauseSeeking"
        \/ app = "pauseSeeked" /\ app' = "pausedAgain"
    BY <1>3 DEF PauseSeek, PauseAgain, Step
  <2>3. Forgotten' /\ MarkStands'
    BY <2>1, <2>2 DEF Fresh, Forgotten, Awaited, MarkStands
  <2>4. Held' /\ Silent' /\ FreshBase' /\ (since <= now)'
    BY <2>1, <2>2 DEF Fresh, Held, Silent, FreshBase
  <2> QED  BY <2>3, <2>4 DEF Fresh
<1>4. CASE PauseNoSeek
  <2>1. UNCHANGED <<sink, shared, since, now, pipeline>> /\ missed'
    BY <1>4 DEF PauseNoSeek
  <2>2. app = "querying" /\ app' = "pauseSeeked"
    BY <1>4 DEF PauseNoSeek, Step
  <2>3. Forgotten' /\ MarkStands' /\ FreshBase'
    BY <2>1 DEF Forgotten, MarkStands, FreshBase
  <2>4. Held' /\ Silent' /\ (since <= now)'
    BY <2>1, <2>2 DEF Fresh, Held, Silent
  <2> QED  BY <2>3, <2>4 DEF Fresh
<1>5. CASE PausePipelineAgain
  <2>1. UNCHANGED <<sink, shared, base_time, since, missed, now, loop, reset>>
    BY <1>5 DEF PausePipelineAgain
  <2>2. app = "pausedAgain" /\ app' = "paused" /\ pipeline' = "PAUSED"
    BY <1>5 DEF PausePipelineAgain, Step
  <2>3. Forgotten' /\ MarkStands'
    BY <2>1, <2>2 DEF Fresh, Forgotten, Awaited, MarkStands, Marked
  <2>4. Held' /\ Silent' /\ FreshBase' /\ (since <= now)'
    BY <2>1, <2>2 DEF Fresh, Held, Silent, FreshBase
  <2> QED  BY <2>3, <2>4 DEF Fresh
<1>6. CASE EmitEos \/ EosTold
  <2>1. UNCHANGED <<sink, shared, base_time, since, missed, now, app, pipeline>>
    BY <1>6 DEF EmitEos, EosTold, MarkReset
  <2>2. reset' \/ (reset' = reset /\ loop' = "idle")
    BY <1>6 DEF EmitEos, EosTold, MarkReset
  <2>3. Forgotten' /\ MarkStands'
    BY <2>1, <2>2 DEF Fresh, Forgotten, Awaited, MarkStands
  <2>4. Held' /\ Silent' /\ FreshBase' /\ (since <= now)'
    BY <2>1 DEF Fresh, Held, Silent, FreshBase
  <2> QED  BY <2>3, <2>4 DEF Fresh
<1>7. CASE Tick
  <2>1. UNCHANGED <<sink, shared, base_time, since, missed, app, loop, reset, pipeline>>
    BY <1>7 DEF Tick
  <2>2. (since <= now)'
    BY <1>7 DEF Tick, Fresh, IInv, TypeOK, Stamping
  <2>3. Forgotten' /\ MarkStands' /\ Held' /\ Silent' /\ FreshBase'
    BY <2>1 DEF Fresh, Forgotten, Awaited, MarkStands, Held, Silent, FreshBase
  <2> QED  BY <2>2, <2>3 DEF Fresh
<1> QED  BY <1>1, <1>2, <1>3, <1>4, <1>5, <1>6, <1>7

(* An interruption: the mark stands, and no stream has a base time.         *)
LEMMA Interrupted ==
    ASSUME IInv', now' = now, since' = now,
           \A s \in Streams : sink'[s] = "ready" => shared'[s] = NoTime
    PROVE  (since <= now)' /\ Silent' /\ FreshBase'
<1>1. (since <= now)'
    BY DEF IInv, TypeOK, Stamping
<1> QED  BY <1>1 DEF Silent, FreshBase

LEMMA FreshNull ==
    ASSUME IInv, IInv', Fresh, StopNull \/ EosNull
    PROVE  Fresh'
<1>1. /\ SetNull /\ UNCHANGED <<base_time, reset, missed, now>> /\ (reset \/ missed)
    BY DEF StopNull, EosNull, history, base, Step, Fresh, MarkStands, Marked
<1>2. \A s \in Streams : sink'[s] = "none"
    BY <1>1 DEF SetNull
<1>3. (since <= now)' /\ Silent' /\ FreshBase'
    BY <1>1, <1>2, Interrupted DEF SetNull
<1>4. Forgotten' /\ MarkStands'
    BY <1>1, <1>2, ConstantsAssumption DEF Forgotten, Awaited, MarkStands
<1>5. Held'
    BY <1>1 DEF Held, SetNull
<1> QED  BY <1>3, <1>4, <1>5 DEF Fresh

LEMMA FreshSeek ==
    ASSUME IInv, IInv', Fresh, SeekDone \/ PauseSeekDone
    PROVE  Fresh'
<1>1. PICK t \in SeekResults :
          \/ Seeked("seeking", "idle", t) /\ missed' = missed
          \/ Seeked("pauseSeeking", "pauseSeeked", t) /\ missed' = (missed \/ t = NoTime)
    BY DEF SeekDone, PauseSeekDone
<1>2. /\ UNCHANGED <<base_time, reset, now, pipeline, loop>> /\ (reset \/ missed)
      /\ \/ app = "seeking" /\ app' = "idle" /\ missed' = missed
         \/ app = "pauseSeeking" /\ app' = "pauseSeeked" /\ missed' = (missed \/ t = NoTime)
    BY <1>1 DEF Seeked, Step, base, ending, Fresh, MarkStands, Marked
<1>3. CASE t = NoTime
  <2>1. UNCHANGED <<sink, shared, since>>
    BY <1>1, <1>3 DEF Seeked
  <2>2. Forgotten' /\ MarkStands'
    BY <1>2, <1>3, <2>1 DEF Fresh, Forgotten, Awaited, MarkStands, Marked
  <2>3. missed => missed'
    BY <1>2
  <2>4. Held' /\ Silent' /\ FreshBase' /\ (since <= now)'
    BY <1>2, <2>1, <2>3 DEF Fresh, Held, Silent, FreshBase
  <2> QED  BY <2>2, <2>4 DEF Fresh
<1>4. CASE t # NoTime
  <2>1. Flush(t)
    BY <1>1, <1>4 DEF Seeked
  <2>2. \A s \in Streams : sink'[s] \in {"none", "waiting"}
    BY <2>1 DEF Flush
  <2>3. (since <= now)' /\ Silent' /\ FreshBase'
    BY <1>2, <2>1, <2>2, Interrupted DEF Flush
  <2>4. reset' \/ missed'
    BY <1>2
  <2>5. Forgotten' /\ MarkStands'
    BY <2>2, <2>4, ConstantsAssumption DEF Forgotten, Awaited, MarkStands
  <2>6. Held'
    BY <1>2 DEF Fresh, Held
  <2> QED  BY <2>3, <2>5, <2>6 DEF Fresh
<1> QED  BY <1>3, <1>4

LEMMA FreshPause ==
    ASSUME IInv, IInv', Fresh, PausePipeline
    PROVE  Fresh'
<1> DEFINE ready == {s \in Streams : sink[s] = "ready" /\ pipeline = "PLAYING"}
<1>1. PICK again \in SUBSET ready :
          /\ {s \in ready : pts[s].base # NoTime} \subseteq again
          /\ sink' = [s \in Streams |-> IF s \in again THEN "waiting" ELSE sink[s]]
          /\ shared' = [s \in Streams |-> IF s \in again THEN NoTime ELSE shared[s]]
    BY DEF PausePipeline
<1>2. /\ UNCHANGED <<base_time, reset, missed, now, loop>> /\ (reset \/ missed)
      /\ since' = now /\ pipeline' = "PAUSED"
    BY DEF PausePipeline, base, ending, Step, Fresh, MarkStands, Marked
<1>3. ASSUME NEW s \in Streams, sink'[s] = "ready"
      PROVE  shared'[s] = NoTime
  <2>1. s \notin again /\ sink[s] = "ready" /\ shared'[s] = shared[s]
    BY <1>1, <1>3
  <2>2. CASE pipeline = "PLAYING"
    BY <1>1, <2>1, <2>2 DEF IInv, Bases
  <2>3. CASE pipeline # "PLAYING"
    BY <2>1, <2>3 DEF Fresh, Silent
  <2> QED  BY <2>2, <2>3
<1>4. (since <= now)' /\ Silent' /\ FreshBase'
    BY <1>2, <1>3, Interrupted
<1>5. Awaited' \/ missed'
    BY <1>2 DEF PausePipeline, Step, Awaited
<1>6. Forgotten' /\ MarkStands' /\ Held'
    BY <1>2, <1>5 DEF Forgotten, MarkStands, Held
<1> QED  BY <1>4, <1>6 DEF Fresh

(* The streams. *)
LEMMA FreshStream ==
    ASSUME IInv, IInv', Fresh,
           PadsAdded \/ \E s \in Streams : Stream(s)
    PROVE  Fresh'
<1> USE DEF control, ending, base, history
<1>1. CASE PadsAdded
  <2>1. /\ \A s \in Streams : sink'[s] = "waiting"
        /\ UNCHANGED <<base_time, reset, missed, since, now, app, loop, pipeline>>
    BY <1>1 DEF PadsAdded
  <2>2. Forgotten' /\ MarkStands'
    BY <2>1, ConstantsAssumption DEF Fresh, Forgotten, Awaited, MarkStands
  <2>3. Held' /\ Silent' /\ FreshBase' /\ (since <= now)'
    BY <2>1 DEF Fresh, Held, Silent, FreshBase
  <2> QED  BY <2>2, <2>3 DEF Fresh
<1>2. ASSUME NEW s \in Streams, PrerollReset(s) PROVE Fresh'
  <2>1. /\ UNCHANGED <<since, now, app, loop, pipeline, shared>>
        /\ sink[s] = "waiting" /\ sink' = [sink EXCEPT ![s] = "prerolling"]
        /\ missed' = (loop = "nulling" \/ app \in Marked \/ (missed /\ ~reset))
        /\ IF reset THEN base_time' = NoTime ELSE UNCHANGED <<base_time, reset>>
    BY <1>2 DEF PrerollReset, ForgetBaseTime
  <2>2. Forgotten'
    BY <2>1 DEF Fresh, Forgotten, Awaited
  <2>3. MarkStands'
    BY <2>1 DEF MarkStands
  <2>4. \A r \in Streams : sink[r] = "ready" => shared[r] = NoTime
    BY <2>1 DEF IInv, Bases, Prerolls
  <2>5. Held' /\ Silent' /\ FreshBase' /\ (since <= now)'
    BY <2>1, <2>4 DEF Fresh, Held, Silent, FreshBase, IInv, TypeOK, Stamping
  <2> QED  BY <2>2, <2>3, <2>5 DEF Fresh
<1>3. ASSUME NEW s \in Streams, PrerollPush(s) PROVE Fresh'
  <2>1. /\ UNCHANGED <<since, now, app, loop, pipeline, shared, missed, reset, base_time>>
        /\ sink[s] = "prerolling" /\ sink' = [sink EXCEPT ![s] = "ready"]
    BY <1>3 DEF PrerollPush
  <2>2. shared[s] = NoTime
    BY <2>1 DEF IInv, Bases
  <2>3. Forgotten'
    <3>1. Awaited => Awaited'
      BY <2>1 DEF Awaited, IInv, TypeOK, Stamping
    <3> QED  BY <2>1, <3>1 DEF Fresh, Forgotten
  <2>4. MarkStands'
    BY <2>1 DEF Fresh, MarkStands
  <2>5. Held' /\ Silent' /\ FreshBase' /\ (since <= now)'
    BY <2>1, <2>2 DEF Fresh, Held, Silent, FreshBase, IInv, TypeOK, Stamping
  <2> QED  BY <2>3, <2>4, <2>5 DEF Fresh
<1>4. ASSUME NEW s \in Streams, FirstSample(s) PROVE Fresh'
  <2>1. /\ UNCHANGED <<since, now, app, loop, pipeline, sink, missed, reset>>
        /\ pipeline = "PLAYING" /\ \A r \in Streams : sink[r] \in {"ready", "ended"}
        /\ base_time' = Take(base_time) /\ shared' = [shared EXCEPT ![s] = Take(base_time)]
    BY <1>4 DEF FirstSample, Playing
  <2>2. ~Awaited
    BY <2>1 DEF Awaited, Fresh, Held
  <2>3. missed \/ base_time = NoTime \/ ~(base_time < since)
    BY <2>2 DEF Fresh, Forgotten
  <2>4. missed \/ Take(base_time) >= since
    <3>1. base_time = NoTime \/ ~(base_time < since) => Take(base_time) >= since
      BY ConstantsAssumption DEF Take, Fresh, IInv, TypeOK, Stamping, NoTime
    <3> QED  BY <2>3, <3>1
  <2>5. Take(base_time) >= since => ~(base_time' < since')
    BY <2>1, ConstantsAssumption DEF Take, IInv, TypeOK, Stamping, NoTime
  <2>6. Forgotten'
    BY <2>1, <2>4, <2>5 DEF Forgotten
  <2>7. FreshBase'
    BY <2>1, <2>4 DEF Fresh, FreshBase, IInv, TypeOK, Stamping
  <2>8. MarkStands' /\ Held' /\ Silent' /\ (since <= now)'
    BY <2>1 DEF Fresh, MarkStands, Held, Silent
  <2> QED  BY <2>6, <2>7, <2>8 DEF Fresh
<1>5. ASSUME NEW s \in Streams, NextSample(s) PROVE Fresh'
  <2>1. UNCHANGED <<since, now, app, loop, pipeline, sink, missed, reset, shared, base_time>>
    BY <1>5 DEF NextSample
  <2> QED  BY <2>1 DEF Fresh, Forgotten, Awaited, MarkStands, Held, Silent, FreshBase
<1>6. ASSUME NEW s \in Streams, StreamEnds(s) PROVE Fresh'
  <2>1. /\ UNCHANGED <<since, now, app, loop, pipeline, reset, shared, base_time>>
        /\ pipeline = "PLAYING"
        /\ sink[s] \in {"waiting", "ready"} /\ sink' = [sink EXCEPT ![s] = "ended"]
        /\ missed' = (missed \/ (reset /\ LastToPreroll(s)))
    BY <1>6 DEF StreamEnds
  <2>2. Awaited /\ ~missed' => Awaited'
    BY <2>1 DEF Awaited, LastToPreroll, IInv, TypeOK, Stamping
  <2>3. missed => missed'
    BY <2>1
  <2>4. Forgotten'
    BY <2>1, <2>2, <2>3 DEF Fresh, Forgotten
  <2>5. MarkStands'
    BY <2>1, <2>3 DEF Fresh, MarkStands
  <2>6. Held' /\ Silent' /\ FreshBase' /\ (since <= now)'
    BY <2>1, <2>3 DEF Fresh, Held, Silent, FreshBase, IInv, TypeOK, Stamping
  <2> QED  BY <2>4, <2>5, <2>6 DEF Fresh
<1> QED  BY <1>1, <1>2, <1>3, <1>4, <1>5, <1>6 DEF Stream

(* A stream plays from a base time not older than the last stop, pause or   *)
(* seek, unless no stream prerolled after it or one did too early           *)
(* (mark_reset_base_time, reset_base_time, get_or_generate_base_time).      *)
THEOREM BaseIsFresh == Spec => []FreshBase
<1>1. IInv /\ IInv' /\ Fresh /\ [Next]_vars => Fresh'
  <2> SUFFICES ASSUME IInv, IInv', Fresh, [Next]_vars PROVE Fresh'
    OBVIOUS
  <2>1. CASE Application
    BY <2>1, FreshControl, FreshNull, FreshSeek, FreshPause DEF Application
  <2>2. CASE PadsAdded \/ \E s \in Streams : Stream(s)
    BY <2>2, FreshStream
  <2>3. CASE Loop \/ Tick
    BY <2>3, FreshControl, FreshNull DEF Loop
  <2>4. CASE UNCHANGED vars
    BY <2>4 DEF vars, control, ending, base, history, Fresh, Forgotten, Awaited,
               MarkStands, Held, Silent, FreshBase
  <2> QED  BY <2>1, <2>2, <2>3, <2>4 DEF Next
<1>2. Fresh => FreshBase
    BY DEF Fresh
<1> QED  BY FreshInit, InductiveInvariant, <1>1, <1>2, PTL DEF Spec
=================================================================================
