----------------------------- MODULE RecorderProofs -----------------------------
(***************************************************************************)
(* Theorems about the recorder, for every set of callers and of media and  *)
(* a clock of any length.  Whatever the threads do, a stopped recorder     *)
(* stays stopped.  With one caller its pauses are cut exactly and a stop   *)
(* that completed leaves nothing of the recording.                         *)
(***************************************************************************)
EXTENDS MCRecorder, TLAPS

(* A stopped recorder is at rest: a transition that was still under way, or *)
(* playing, would let a report of the pipeline set another state.           *)
Stopped == stopped => uriState = "STOP" /\ transition = "COMPLETED" /\ ~playing

(* remove_pads waits for the link callback that holds the element lock.     *)
Linking == linking # None => ~generatePads

(* Times are of the past, and what is paused is no more than has passed.    *)
Clock ==
    /\ recorded <= now /\ pausedTime <= now /\ base <= now
    /\ pausedStart # NoTime => pausedTime <= pausedStart /\ pausedStart <= now
    /\ base = NoTime => recorded = 0

IInv == TypeOK /\ Stopped /\ Linking /\ Clock

-----------------------------------------------------------------------------

LEMMA InitHolds == Init => IInv
<1> SUFFICES ASSUME Init PROVE IInv
    OBVIOUS
<1>1. ControlOK /\ CallersOK /\ PadsOK /\ PipelineOK
    BY DEF Init, NewMuxer, ControlOK, CallersOK, PadsOK, PipelineOK
<1>2. TimesOK /\ Clock
  <2>1. /\ now = 0 /\ base = -1 /\ pausedTime = 0 /\ pausedStart = -1
        /\ recorded = 0 /\ MaxTime \in Nat
    BY ConstantsAssumption DEF Init, NoTime
  <2> QED  BY <2>1 DEF TimesOK, Clock, NoTime
<1>3. Stopped /\ Linking /\ early \in BOOLEAN
    BY DEF Init, Stopped, Linking
<1> QED  BY <1>1, <1>2, <1>3 DEF IInv, TypeOK

(* change_state is called with STOP, or by a recorder that was not stopped. *)
LEMMA StateChanges ==
    ASSUME IInv, NEW to \in {"STOP", "START", "PAUSE"},
           ~stopped \/ to = "STOP", StateChanged(to), UNCHANGED kind
    PROVE  ControlOK' /\ Stopped'
  BY DEF IInv, TypeOK, ControlOK, Stopped, StateChanged, kind

LEMMA ReportChanges ==
    ASSUME IInv, NEW to \in {"STOP", "START"}, AsyncStateChanged(to), UNCHANGED kind
    PROVE  ControlOK' /\ Stopped'
<1>1. CASE transition = IF to = "START" THEN "STARTING" ELSE "STOPPING"
  <2>1. ~stopped
    BY <1>1 DEF IInv, TypeOK, ControlOK, Stopped
  <2> QED  BY <1>1, <2>1, StateChanges DEF AsyncStateChanged
<1>2. CASE transition # IF to = "START" THEN "STARTING" ELSE "STOPPING"
    BY <1>2 DEF AsyncStateChanged, IInv, TypeOK, ControlOK, Stopped, control, kind
<1> QED  BY <1>1, <1>2

LEMMA MuxGoesDown ==
    ASSUME IInv, MuxToNull, UNCHANGED kind, eosTask' \in {"none", eosTask}
    PROVE  ControlOK' /\ Stopped' /\ PipelineOK'
<1>1. ControlOK' /\ Stopped'
  <2>1. CASE mux = "NULL"
    BY <2>1 DEF MuxToNull, IInv, TypeOK, ControlOK, Stopped, control, kind
  <2>2. CASE mux # "NULL"
    BY <2>2, ReportChanges DEF MuxToNull
  <2> QED  BY <2>1, <2>2
<1>2. PipelineOK'
    BY DEF MuxToNull, IInv, TypeOK, PipelineOK
<1> QED  BY <1>1, <1>2

LEMMA PadsGo ==
    ASSUME IInv, NEW pend, RemovePads(pend), linking = None, UNCHANGED linking
    PROVE  PadsOK' /\ Linking' /\ eos' \subseteq Media
  BY DEF IInv, TypeOK, PadsOK, PipelineOK, Linking, RemovePads, Unlinked, RemoveSrcs, Pads

LEMMA CallerMoves ==
    ASSUME IInv, NEW c \in Callers,
           NEW l \in {"idle", "startMux", "startDone", "stopEos", "stopNull",
                      "eosSent", "noneSent", "stopDown", "wait"},
           Goto(c, l)
    PROVE  CallersOK'
  BY DEF IInv, TypeOK, CallersOK, Goto

LEMMA TimesReset ==
    ASSUME IInv, ResetTimes, UNCHANGED now
    PROVE  TimesOK' /\ Clock' /\ early' \in BOOLEAN
<1>1. /\ now' = now /\ base' = -1 /\ pausedTime' = 0 /\ pausedStart' = -1
      /\ recorded' = 0 /\ MaxTime \in Nat
    BY ConstantsAssumption DEF ResetTimes, NoTime
<1>2. TimesOK' /\ Clock'
    BY <1>1 DEF IInv, TypeOK, TimesOK, Clock, NoTime
<1> QED  BY <1>2 DEF ResetTimes

LEMMA PauseCounted ==
    ASSUME IInv, CountPause, UNCHANGED <<now, base, recorded, early>>
    PROVE  TimesOK' /\ Clock' /\ early' \in BOOLEAN
<1>1. early' \in BOOLEAN
    BY DEF IInv, TypeOK
<1> QED  BY <1>1, ConstantsAssumption DEF IInv, TypeOK, TimesOK, Clock, CountPause, NoTime

(* What an action leaves alone stays as it was. *)
LEMMA Rest ==
    ASSUME IInv
    PROVE  /\ UNCHANGED <<kind, control>> => ControlOK' /\ Stopped'
           /\ UNCHANGED pc => CallersOK'
           /\ UNCHANGED <<pads, linking>> => PadsOK' /\ Linking'
           /\ UNCHANGED <<pipeline, eosTask>> => PipelineOK'
           /\ UNCHANGED <<now, times>> => TimesOK' /\ Clock' /\ early' \in BOOLEAN
  BY DEF IInv, TypeOK, ControlOK, Stopped, CallersOK, PadsOK, Linking, PipelineOK,
         TimesOK, Clock, Pads, kind, control, pads, pipeline, times

LEMMA Parts ==
    ASSUME early' \in BOOLEAN, ControlOK', Stopped', CallersOK', PadsOK', Linking',
           PipelineOK', TimesOK', Clock'
    PROVE  IInv'
  BY DEF IInv, TypeOK

LEMMA StartStep ==
    ASSUME IInv, NEW c \in Callers, StartBegin(c) \/ StartMux(c) \/ StartDone(c) \/ Pause(c)
    PROVE  IInv'
<1> USE DEF kind, control, pads, pipeline, times
<1>1. CASE StartBegin(c)
  <2>1. ControlOK' /\ Stopped'
    BY <1>1 DEF StartBegin, IInv, TypeOK, ControlOK, Stopped
  <2>2. CallersOK'
    BY <1>1, CallerMoves DEF StartBegin
  <2> QED  BY <1>1, <2>1, <2>2, Rest, Parts DEF StartBegin
<1>2. CASE StartMux(c)
  <2>1. CallersOK'
    BY <1>2, CallerMoves DEF StartMux
  <2>2. PipelineOK'
    BY <1>2 DEF StartMux, IInv, TypeOK, PipelineOK
  <2> QED  BY <1>2, <2>1, <2>2, Rest, Parts DEF StartMux
<1>3. CASE StartDone(c)
  <2>1. ControlOK' /\ Stopped'
    <3>1. CASE playing
        <4>1. ~stopped
            BY <3>1 DEF IInv, Stopped
        <4> QED  BY <1>3, <3>1, <4>1, StateChanges DEF StartDone
    <3>2. CASE ~playing
        BY <1>3, <3>2, Rest DEF StartDone
    <3> QED  BY <3>1, <3>2
  <2>2. CallersOK'
    BY <1>3, CallerMoves DEF StartDone
  <2>3. PadsOK' /\ Linking'
    BY <1>3 DEF StartDone, IInv, TypeOK, PadsOK, Linking, Pads
  <2>4. TimesOK' /\ Clock' /\ early' \in BOOLEAN
    BY <1>3, PauseCounted DEF StartDone
  <2> QED  BY <1>3, <2>1, <2>2, <2>3, <2>4, Rest, Parts DEF StartDone
<1>4. CASE Pause(c)
  <2>1. ControlOK' /\ Stopped'
    BY <1>4, StateChanges DEF Pause
  <2>2. TimesOK' /\ Clock'
    BY <1>4, ConstantsAssumption DEF Pause, IInv, TypeOK, TimesOK, Clock, NoTime
  <2>3. early' \in BOOLEAN
    BY <1>4 DEF Pause, IInv, TypeOK
  <2> QED  BY <1>4, <2>1, <2>2, <2>3, Rest, Parts DEF Pause
<1> QED  BY <1>1, <1>2, <1>3, <1>4

LEMMA StopStep ==
    ASSUME IInv, NEW c \in Callers,
           \/ StopIdle(c) \/ StopBegin(c) \/ SendEos(c) \/ SendNoEos(c)
           \/ ReportNull(c) \/ StopPads(c) \/ StopDown(c)
           \/ WaitOver(c) \/ WaitTimeout(c)
    PROVE  IInv'
<1> USE DEF kind, control, pads, pipeline, times
<1>1. CASE StopIdle(c)
  <2>1. ControlOK' /\ Stopped'
    BY <1>1, StateChanges DEF StopIdle
  <2>2. CallersOK'
    BY <1>1, CallerMoves DEF StopIdle
  <2>3. PadsOK' /\ Linking' /\ eos' \subseteq Media
    BY <1>1, PadsGo DEF StopIdle, ElementFree
  <2>4. PipelineOK'
    BY <1>1, <2>3 DEF StopIdle, IInv, TypeOK, PipelineOK
  <2>5. TimesOK' /\ Clock' /\ early' \in BOOLEAN
    BY <1>1, TimesReset DEF StopIdle
  <2> QED  BY <2>1, <2>2, <2>3, <2>4, <2>5, Parts
<1>2. CASE StopBegin(c)
  <2>1. ControlOK' /\ Stopped'
    BY <1>2 DEF StopBegin, IInv, TypeOK, ControlOK, Stopped
  <2>2. CallersOK'
    BY <1>2, CallerMoves DEF StopBegin
  <2> QED  BY <1>2, <2>1, <2>2, Rest, Parts DEF StopBegin
<1>3. CASE SendEos(c)
  <2>1. CallersOK'
    BY <1>3, CallerMoves DEF SendEos
  <2>2. PipelineOK'
    BY <1>3 DEF SendEos, IInv, TypeOK, PipelineOK, PadsOK
  <2> QED  BY <1>3, <2>1, <2>2, Rest, Parts DEF SendEos
<1>4. CASE SendNoEos(c)
  <2>1. CallersOK'
    BY <1>4, CallerMoves DEF SendNoEos
  <2> QED  BY <1>4, <2>1, Rest, Parts DEF SendNoEos
<1>5. CASE ReportNull(c)
  <2>1. CallersOK'
    BY <1>5, CallerMoves DEF ReportNull
  <2>2. ControlOK' /\ Stopped' /\ PipelineOK'
    BY <1>5, MuxGoesDown DEF ReportNull
  <2> QED  BY <1>5, <2>1, <2>2, Rest, Parts DEF ReportNull
<1>6. CASE StopPads(c)
  <2> DEFINE sent == pc[c] = "eosSent"
  <2>1. ControlOK' /\ Stopped' /\ CallersOK'
    <3>1. CASE playing
      <4>1. ~stopped
        BY <3>1 DEF IInv, Stopped
      <4>2. ControlOK' /\ Stopped'
        BY <1>6, <3>1, <4>1 DEF StopPads, IInv, TypeOK, ControlOK, Stopped
      <4>3. CallersOK'
        BY <1>6, <3>1, CallerMoves DEF StopPads
      <4> QED  BY <4>2, <4>3
    <3>2. CASE ~playing
      <4>1. StateChanged("STOP") /\ Goto(c, "wait")
        BY <1>6, <3>2 DEF StopPads
      <4> QED  BY <1>6, <4>1, StateChanges, CallerMoves DEF StopPads
    <3> QED  BY <3>1, <3>2
  <2>2. PadsOK' /\ Linking' /\ eos' \subseteq Media
    BY <1>6, PadsGo DEF StopPads, ElementFree
  <2>3. PipelineOK'
    BY <1>6, <2>2 DEF StopPads, IInv, TypeOK, PipelineOK
  <2>4. TimesOK' /\ Clock' /\ early' \in BOOLEAN
    BY <1>6, TimesReset DEF StopPads
  <2> QED  BY <2>1, <2>2, <2>3, <2>4, Parts
<1>7. CASE StopDown(c)
  <2>1. CallersOK'
    BY <1>7, CallerMoves DEF StopDown
  <2>2. ControlOK' /\ Stopped' /\ PipelineOK'
    BY <1>7, MuxGoesDown DEF StopDown
  <2> QED  BY <1>7, <2>1, <2>2, Rest, Parts DEF StopDown
<1>8. CASE WaitOver(c) \/ WaitTimeout(c)
  <2>1. CallersOK'
    BY <1>8, CallerMoves DEF WaitOver, WaitTimeout
  <2> QED  BY <1>8, <2>1, Rest, Parts DEF WaitOver, WaitTimeout
<1> QED  BY <1>1, <1>2, <1>3, <1>4, <1>5, <1>6, <1>7, <1>8

LEMMA PipelineStep ==
    ASSUME IInv, \/ PipelinePlays \/ PipelineEos
                 \/ OnEos \/ ReleasePending \/ EosDown
    PROVE  IInv'
<1> USE DEF kind, control, pads, pipeline, times
<1>1. CASE PipelinePlays
  <2>1. ControlOK' /\ Stopped'
    BY <1>1, ReportChanges DEF PipelinePlays
  <2>2. PipelineOK'
    BY <1>1 DEF PipelinePlays, IInv, TypeOK, PipelineOK
  <2> QED  BY <1>1, <2>1, <2>2, Rest, Parts DEF PipelinePlays
<1>2. CASE PipelineEos \/ OnEos
  <2>1. PipelineOK'
    BY <1>2 DEF PipelineEos, OnEos, IInv, TypeOK, PipelineOK
  <2> QED  BY <1>2, <2>1, Rest, Parts DEF PipelineEos, OnEos
<1>3. CASE ReleasePending
  <2>1. ControlOK' /\ Stopped'
    BY <1>3 DEF ReleasePending, IInv, TypeOK, ControlOK, Stopped
  <2>2. PadsOK' /\ Linking'
    BY <1>3 DEF ReleasePending, RemoveSrcs, IInv, TypeOK, PadsOK, Linking, Pads
  <2>3. PipelineOK'
    BY <1>3 DEF ReleasePending, RemoveSrcs, IInv, TypeOK, PipelineOK
  <2> QED  BY <1>3, <2>1, <2>2, <2>3, Rest, Parts DEF ReleasePending
<1>4. CASE EosDown
  <2>1. ControlOK' /\ Stopped' /\ PipelineOK'
    BY <1>4, MuxGoesDown DEF EosDown
  <2> QED  BY <1>4, <2>1, Rest, Parts DEF EosDown
<1> QED  BY <1>1, <1>2, <1>3, <1>4

LEMMA PadStep ==
    ASSUME IInv, NEW m \in Media,
           LinkBegin(m) \/ Unlink(m) \/ RecvEos(m) \/ RecvSample(m)
    PROVE  IInv'
<1> USE DEF kind, control, pads, pipeline, times
<1>1. CASE LinkBegin(m)
  <2>1. PadsOK' /\ Linking'
    BY <1>1 DEF LinkBegin, IInv, TypeOK, PadsOK, Linking, Pads
  <2> QED  BY <1>1, <2>1, Rest, Parts DEF LinkBegin
<1>2. CASE Unlink(m)
  <2>1. PadsOK' /\ Linking'
    BY <1>2 DEF Unlink, Unlinked, RemoveSrcs, IInv, TypeOK, PadsOK, Linking, Pads
  <2>2. PipelineOK'
    BY <1>2 DEF Unlink, Unlinked, RemoveSrcs, IInv, TypeOK, PipelineOK
  <2> QED  BY <1>2, <2>1, <2>2, Rest, Parts DEF Unlink
<1>3. CASE RecvEos(m)
  <2>1. PipelineOK'
    BY <1>3 DEF RecvEos, IInv, TypeOK, PipelineOK
  <2> QED  BY <1>3, <2>1, Rest, Parts DEF RecvEos
<1>4. CASE RecvSample(m)
  <2>1. TimesOK' /\ Clock'
    BY <1>4, ConstantsAssumption DEF RecvSample, IInv, TypeOK, TimesOK, Clock, NoTime
  <2>2. early' \in BOOLEAN
    BY <1>4 DEF RecvSample
  <2> QED  BY <1>4, <2>1, <2>2, Rest, Parts DEF RecvSample
<1> QED  BY <1>1, <1>2, <1>3, <1>4

LEMMA LinkDoneStep ==
    ASSUME IInv, LinkDone
    PROVE  IInv'
<1> USE DEF kind, control, pads, pipeline, times
<1>1. PadsOK' /\ Linking'
    BY DEF LinkDone, AddSrc, IInv, TypeOK, PadsOK, Linking, Pads
<1>2. PipelineOK'
    BY DEF LinkDone, AddSrc, IInv, TypeOK, PadsOK, PipelineOK
<1> QED  BY <1>1, <1>2, Rest, Parts DEF LinkDone

LEMMA TickStep ==
    ASSUME IInv, Tick
    PROVE  IInv'
<1> USE DEF kind, control, pads, pipeline, times
<1>1. TimesOK' /\ Clock'
    BY ConstantsAssumption DEF Tick, IInv, TypeOK, TimesOK, Clock, NoTime
<1> QED  BY <1>1, Rest, Parts DEF Tick, IInv, TypeOK

LEMMA InvariantStep == IInv /\ [Next]_vars => IInv'
<1> SUFFICES ASSUME IInv, [Next]_vars PROVE IInv'
    OBVIOUS
<1>1. CASE \E c \in Callers : CallerStep(c)
    BY <1>1, StartStep, StopStep DEF CallerStep
<1>2. CASE MediaStep
    BY <1>2, PipelineStep, PadStep, LinkDoneStep DEF MediaStep
<1>3. CASE Tick
    BY <1>3, TickStep
<1>4. CASE UNCHANGED vars
    BY <1>4, Rest, Parts DEF vars
<1> QED  BY <1>1, <1>2, <1>3, <1>4 DEF Next

(* The invariant is kept by every step of every thread. *)
THEOREM InductiveInvariant == Spec => []IInv
BY InitHolds, InvariantStep, PTL DEF Spec

(* Every variable of the recorder keeps its type. *)
THEOREM TypeInvariant == Spec => []TypeOK
BY InductiveInvariant, PTL DEF IInv

(* kms_recorder_endpoint_stopped is final: neither a report of the pipeline *)
(* nor the rest of an operation under way takes the state from STOP.        *)
THEOREM StopIsFinal == Spec => []FinalStop
<1>1. IInv => FinalStop
    BY DEF IInv, Stopped, FinalStop
<1> QED  BY <1>1, InductiveInvariant, PTL

-----------------------------------------------------------------------------
(* One caller. *)

At == pc[Caller]
Others == \A c \in Callers \ {Caller} : pc[c] = "idle"

(* The recorder has not been stopped and no stop is under way. *)
Going == ~stopped /\ transition # "STOPPING"

(* With one caller nothing but a stop that began ends the recording.        *)
Place ==
    /\ At = "startMux" => ~stopped /\ transition = "STARTING"
    /\ At = "startDone" => Going
    /\ At \in {"stopEos", "stopNull", "eosSent", "noneSent", "stopDown", "wait"} => ~Going
    /\ eosTask = "down" => ~Going

(* The pipeline plays when the recorder takes it to play.                   *)
Pipe ==
    /\ transition = "STOPPING" => playing /\ mux = "PLAYING"
    /\ Going /\ playing => mux = "PLAYING"
    /\ Going /\ ~playing => mux # "PLAYING"
    /\ Going /\ ~playing /\ mux = "PREROLL" =>
         transition = "STARTING" /\ At \in {"startDone", "idle"}

(* A pause is being counted while the recorder is paused from playing.      *)
Pausing ==
    /\ Going /\ uriState = "START" => playing
    /\ Going /\ uriState = "PAUSE" /\ playing => pausedStart # NoTime
    /\ Going /\ pausedStart # NoTime => uriState = "PAUSE" /\ playing

(* The time not paused since the first buffer is what was recorded.         *)
Unpaused == IF pausedStart = NoTime THEN now ELSE pausedStart
Cut ==
    Going /\ base # NoTime /\ ~early =>
        recorded >= 0 /\ recorded = Unpaused - base - pausedTime

SInv == IInv /\ Others /\ Place /\ Pipe /\ Pausing /\ Cut

LEMMA SoloParts ==
    ASSUME IInv', Others', Place', Pipe', Pausing', Cut'
    PROVE  SInv'
  BY DEF SInv

LEMMA CallerAt ==
    ASSUME SInv, NEW l, Goto(Caller, l)
    PROVE  At' = l /\ Others'
  BY CallerAssumption DEF SInv, IInv, TypeOK, CallersOK, Goto, At, Others

(* Nothing is asked of a recorder that is stopped or being stopped.         *)
LEMMA Halted ==
    ASSUME SInv, ~Going'
    PROVE  Pausing' /\ Cut' /\ (transition' # "STOPPING" => Pipe')
  BY DEF Pausing, Cut, Pipe

LEMMA Same ==
    ASSUME SInv, UNCHANGED <<control, pc, mux, now, times>>,
           eosTask' = "down" => ~Going
    PROVE  Others' /\ Place' /\ Pipe' /\ Pausing' /\ Cut'
  BY DEF SInv, Others, Place, Pipe, Pausing, Cut, Unpaused, Going, At, control, times

(* Taken down at the end of a stop, the pipeline ends it.                   *)
LEMMA DownStops ==
    ASSUME SInv, ~Going, MuxToNull
    PROVE  /\ stopped' /\ transition' = "COMPLETED" /\ mux' = "NULL"
           /\ eos' = {}
           /\ stopped => UNCHANGED control
           /\ ~stopped => ~sentEos'
<1>1. CASE stopped
  <2>1. UNCHANGED control
    BY <1>1 DEF SInv, IInv, Stopped, MuxToNull, AsyncStateChanged
  <2> QED  BY <1>1, <2>1 DEF SInv, IInv, Stopped, MuxToNull, control
<1>2. CASE ~stopped
  <2>1. transition = "STOPPING" /\ mux = "PLAYING"
    BY <1>2 DEF SInv, Going, Pipe
  <2>2. StateChanged("STOP")
    BY <2>1 DEF MuxToNull, AsyncStateChanged
  <2> QED  BY <1>2, <2>2 DEF MuxToNull, StateChanged
<1> QED  BY <1>1, <1>2

LEMMA SoloStart ==
    ASSUME SInv, IInv',
           StartBegin(Caller) \/ StartMux(Caller) \/ StartDone(Caller) \/ Pause(Caller)
    PROVE  SInv'
<1> USE DEF control, pads, pipeline, times
<1>1. CASE StartBegin(Caller)
  <2>1. At' = "startMux" /\ Others' /\ At = "idle"
    BY <1>1, CallerAt DEF StartBegin, At
  <2>2. Going /\ Going' /\ transition' = "STARTING" /\ transition = "COMPLETED"
    BY <1>1 DEF StartBegin, Going
  <2>3. Place' /\ Pipe' /\ Pausing'
    BY <1>1, <2>1, <2>2 DEF StartBegin, SInv, Place, Pipe, Pausing, Going
  <2>4. Cut'
    BY <1>1, <2>2 DEF StartBegin, SInv, Cut, Unpaused
  <2> QED  BY <2>1, <2>3, <2>4, SoloParts
<1>2. CASE StartMux(Caller)
  <2>1. At' = "startDone" /\ Others' /\ At = "startMux"
    BY <1>2, CallerAt DEF StartMux, At
  <2>2. Going /\ Going' /\ transition = "STARTING"
    BY <1>2, <2>1 DEF StartMux, SInv, Place, Going
  <2>3. Place' /\ Pipe' /\ Pausing'
    BY <1>2, <2>1, <2>2 DEF StartMux, SInv, IInv, TypeOK, PipelineOK, Place, Pipe, Pausing, Going
  <2>4. Cut'
    BY <1>2, <2>2 DEF StartMux, SInv, Cut, Unpaused
  <2> QED  BY <2>1, <2>3, <2>4, SoloParts
<1>3. CASE StartDone(Caller)
  <2>1. At' = "idle" /\ Others' /\ At = "startDone"
    BY <1>3, CallerAt DEF StartDone, At
  <2>2. Going
    BY <2>1 DEF SInv, Place
  <2>3. /\ Going' /\ playing' = playing /\ transition' \in {"COMPLETED", transition}
        /\ IF playing THEN uriState' = "START" ELSE UNCHANGED <<uriState, transition>>
    BY <1>3, <2>2 DEF StartDone, StateChanged, Going, SInv, IInv, TypeOK, ControlOK
  <2>4. pausedStart' = NoTime
    BY <1>3 DEF StartDone, CountPause
  <2>5. Place' /\ Pipe'
    BY <1>3, <2>1, <2>2, <2>3 DEF StartDone, SInv, Place, Pipe, Going
  <2>6. Pausing'
    BY <1>3, <2>2, <2>3, <2>4 DEF StartDone, SInv, Pausing
  <2>7. Cut'
    <3> SUFFICES ASSUME base' # NoTime, ~early'
                 PROVE  recorded' >= 0 /\ recorded' = Unpaused' - base' - pausedTime'
        BY DEF Cut
    <3>1. recorded >= 0 /\ recorded = Unpaused - base - pausedTime
        BY <1>3, <2>2 DEF StartDone, SInv, Cut
    <3>2. recorded' = recorded /\ base' = base /\ now' = now /\ CountPause
        BY <1>3 DEF StartDone
    <3>3. TimesOK
        BY DEF SInv, IInv, TypeOK
    <3> QED  BY <2>4, <3>1, <3>2, <3>3, ConstantsAssumption DEF TimesOK, CountPause, Unpaused, NoTime
  <2> QED  BY <2>1, <2>5, <2>6, <2>7, SoloParts
<1>4. CASE Pause(Caller)
  <2>1. At' = At /\ Others' /\ At = "idle"
    BY <1>4 DEF Pause, SInv, Others, At
  <2>2. Going /\ Going' /\ transition = "COMPLETED" /\ transition' = "COMPLETED" /\ uriState # "PAUSE"
    BY <1>4 DEF Pause, StateChanged, Going, SInv, IInv, TypeOK, ControlOK
  <2>3. uriState' = "PAUSE" /\ playing' = playing
    BY <1>4 DEF Pause, StateChanged
  <2>4. pausedStart = NoTime /\ (playing <=> mux = "PLAYING")
    BY <2>2 DEF SInv, IInv, TypeOK, ControlOK, Pausing, Pipe
  <2>5. Place' /\ Pipe'
    BY <1>4, <2>1, <2>2, <2>3 DEF Pause, SInv, Place, Pipe, Going
  <2>6. now # NoTime
    BY DEF SInv, IInv, TypeOK, TimesOK, NoTime
  <2>7. Pausing'
    BY <1>4, <2>2, <2>3, <2>4, <2>6 DEF Pause, SInv, Pausing
  <2>8. Cut'
    <3> SUFFICES ASSUME base' # NoTime, ~early'
                 PROVE  recorded' >= 0 /\ recorded' = Unpaused' - base' - pausedTime'
        BY DEF Cut
    <3>1. recorded >= 0 /\ recorded = now - base - pausedTime
        BY <1>4, <2>2, <2>4 DEF Pause, SInv, Cut, Unpaused
    <3>2. Unpaused' = now
        BY <1>4, <2>4, <2>6 DEF Pause, Unpaused
    <3> QED  BY <1>4, <3>1, <3>2 DEF Pause
  <2> QED  BY <2>1, <2>5, <2>7, <2>8, SoloParts
<1> QED  BY <1>1, <1>2, <1>3, <1>4

LEMMA SoloStop ==
    ASSUME SInv, IInv',
           \/ StopIdle(Caller) \/ StopBegin(Caller) \/ SendEos(Caller)
           \/ SendNoEos(Caller) \/ ReportNull(Caller) \/ StopPads(Caller)
           \/ StopDown(Caller) \/ WaitOver(Caller) \/ WaitTimeout(Caller)
    PROVE  SInv'
<1> USE DEF control, pads, pipeline, times
<1> DEFINE Halting == {"stopEos", "stopNull", "eosSent", "noneSent", "stopDown", "wait"}
<1>1. CASE StopIdle(Caller)
  <2>1. At' = "wait" /\ Others'
    BY <1>1, CallerAt DEF StopIdle
  <2>2. ~Going' /\ transition' = "COMPLETED"
    BY <1>1 DEF StopIdle, StateChanged, Going
  <2> QED  BY <2>1, <2>2, Halted, SoloParts DEF Place
<1>2. CASE StopBegin(Caller)
  <2>1. At' = "stopEos" /\ Others'
    BY <1>2, CallerAt DEF StopBegin
  <2>2. ~Going' /\ Going /\ playing
    BY <1>2 DEF StopBegin, StopRefused, Going
  <2>3. Pipe'
    BY <1>2, <2>2 DEF StopBegin, SInv, Pipe
  <2> QED  BY <2>1, <2>2, <2>3, Halted, SoloParts DEF Place
<1>3. CASE SendEos(Caller) \/ SendNoEos(Caller)
  <2>1. At' \in Halting /\ Others' /\ At = "stopEos"
    BY <1>3, CallerAt DEF SendEos, SendNoEos, At
  <2>2. ~Going /\ ~Going'
    BY <1>3, <2>1 DEF SendEos, SendNoEos, SInv, Place, Going
  <2>3. Pipe'
    BY <1>3, <2>2 DEF SendEos, SendNoEos, SInv, Pipe
  <2> QED  BY <2>1, <2>2, <2>3, Halted, SoloParts DEF Place
<1>4. CASE ReportNull(Caller) \/ StopDown(Caller)
  <2>1. At' \in Halting /\ Others' /\ At \in {"stopNull", "stopDown"}
    BY <1>4, CallerAt DEF ReportNull, StopDown, At
  <2>2. ~Going /\ MuxToNull
    BY <1>4, <2>1 DEF ReportNull, StopDown, SInv, Place
  <2>3. ~Going' /\ transition' # "STOPPING"
    BY <2>2, DownStops DEF Going
  <2> QED  BY <2>1, <2>3, Halted, SoloParts DEF Place
<1>5. CASE StopPads(Caller)
  <2>1. At' \in Halting /\ Others' /\ At \in {"eosSent", "noneSent"}
    <3>1. At' \in Halting /\ Others'
        <4>1. Goto(Caller, "wait") \/ Goto(Caller, "stopDown")
            BY <1>5 DEF StopPads
        <4> QED  BY <4>1, CallerAt
    <3> QED  BY <1>5, <3>1 DEF StopPads, At
  <2>2. ~Going
    BY <2>1 DEF SInv, Place
  <2>3. CASE playing
    <3>1. ~Going' /\ Pipe'
        BY <1>5, <2>2, <2>3 DEF StopPads, SInv, Pipe, Going
    <3> QED  BY <2>1, <3>1, Halted, SoloParts DEF Place
  <2>4. CASE ~playing
    <3>1. ~Going' /\ transition' # "STOPPING"
        BY <1>5, <2>4 DEF StopPads, StateChanged, Going
    <3> QED  BY <2>1, <3>1, Halted, SoloParts DEF Place
  <2> QED  BY <2>3, <2>4
<1>6. CASE WaitOver(Caller) \/ WaitTimeout(Caller)
  <2>1. At' = "idle" /\ Others' /\ At = "wait"
    BY <1>6, CallerAt DEF WaitOver, WaitTimeout, At
  <2>2. ~Going /\ ~Going'
    BY <1>6, <2>1 DEF WaitOver, WaitTimeout, SInv, Place, Going
  <2>3. Pipe'
    BY <1>6, <2>2 DEF WaitOver, WaitTimeout, SInv, Pipe
  <2> QED  BY <2>1, <2>2, <2>3, Halted, SoloParts DEF Place
<1> QED  BY <1>1, <1>2, <1>3, <1>4, <1>5, <1>6

LEMMA SoloMedia ==
    ASSUME SInv, IInv', MediaStep
    PROVE  SInv'
<1> USE DEF control, pads, pipeline, times
<1>1. CASE PipelinePlays
  <2>1. At' = At /\ Others' /\ mux = "PREROLL" /\ mux' = "PLAYING"
    BY <1>1 DEF PipelinePlays, SInv, Others, At
  <2>2. transition # "STOPPING"
    BY <2>1 DEF SInv, Pipe
  <2>3. CASE stopped
    <3>1. UNCHANGED control
        BY <1>1, <2>3 DEF PipelinePlays, AsyncStateChanged, SInv, IInv, Stopped
    <3>2. ~Going' /\ transition' # "STOPPING" /\ Place'
        BY <1>1, <2>1, <2>2, <2>3, <3>1 DEF PipelinePlays, SInv, Going, Place
    <3> QED  BY <2>1, <3>2, Halted, SoloParts
  <2>4. CASE ~stopped
    <3>1. Going /\ ~playing /\ transition = "STARTING" /\ At \in {"startDone", "idle"}
        BY <2>1, <2>2, <2>4 DEF SInv, IInv, TypeOK, ControlOK, Going, Pipe
    <3>2. StateChanged("START")
        BY <1>1, <3>1 DEF PipelinePlays, AsyncStateChanged
    <3>3. Going' /\ playing' /\ uriState' = "START" /\ transition' = "COMPLETED"
        BY <3>1, <3>2 DEF StateChanged, Going, SInv, IInv, TypeOK, ControlOK
    <3>4. Place' /\ Pipe'
        BY <1>1, <2>1, <3>1, <3>3 DEF PipelinePlays, SInv, Place, Pipe, Going
    <3>5. Pausing'
        BY <1>1, <3>1, <3>3 DEF PipelinePlays, SInv, Pausing
    <3>6. Cut'
        BY <1>1, <3>1 DEF PipelinePlays, SInv, Cut, Unpaused
    <3> QED  BY <2>1, <3>4, <3>5, <3>6, SoloParts
  <2> QED  BY <2>3, <2>4
<1>2. CASE PipelineEos \/ OnEos
  <2>1. eosTask' = "down" => ~Going
    BY <1>2 DEF PipelineEos, OnEos, Going
  <2> QED  BY <1>2, <2>1, Same, SoloParts DEF PipelineEos, OnEos
<1>3. CASE ReleasePending
  <2>1. eosTask' = "down" => ~Going
    BY <1>3 DEF ReleasePending, Going
  <2> QED  BY <1>3, <2>1, SoloParts
         DEF ReleasePending, SInv, Others, Place, Pipe, Pausing, Cut, Unpaused, Going, At
<1>4. CASE EosDown
  <2>1. ~Going /\ MuxToNull
    BY <1>4 DEF EosDown, SInv, Place
  <2>2. ~Going' /\ transition' # "STOPPING"
    BY <2>1, DownStops DEF Going
  <2>3. Place' /\ Others'
    BY <1>4, <2>1, <2>2 DEF EosDown, SInv, Place, Others, At, Going
  <2> QED  BY <2>2, <2>3, Halted, SoloParts
<1>5. ASSUME NEW m \in Media, LinkBegin(m) \/ Unlink(m) \/ RecvEos(m)
      PROVE  SInv'
  <2>1. eosTask' = "down" => ~Going
    BY <1>5 DEF LinkBegin, Unlink, RecvEos, SInv, Place
  <2> QED  BY <1>5, <2>1, Same, SoloParts DEF LinkBegin, Unlink, RecvEos
<1>6. ASSUME NEW m \in Media, RecvSample(m)
      PROVE  SInv'
  <2>1. Others' /\ Place' /\ Pipe' /\ Pausing'
    BY <1>6 DEF RecvSample, SInv, Others, Place, Pipe, Pausing, Going, At
  <2>2. Cut'
    <3> SUFFICES ASSUME ~early'
                 PROVE  recorded' >= 0 /\ recorded' = Unpaused' - base' - pausedTime'
        BY DEF Cut
    <3>1. ~(pausedTime > 0) /\ pausedStart = NoTime
        BY <1>6 DEF RecvSample
    <3>2. recorded = 0 /\ base' = now /\ UNCHANGED <<now, recorded, pausedTime, pausedStart>>
        BY <1>6 DEF RecvSample, SInv, IInv, Clock
    <3>3. TimesOK
        BY DEF SInv, IInv, TypeOK
    <3> QED  BY <3>1, <3>2, <3>3, ConstantsAssumption DEF TimesOK, Unpaused, NoTime
  <2> QED  BY <2>1, <2>2, SoloParts
<1>7. CASE LinkDone
  <2>1. eosTask' = "down" => ~Going
    BY <1>7 DEF LinkDone, SInv, Place
  <2> QED  BY <1>7, <2>1, Same, SoloParts DEF LinkDone
<1> QED  BY <1>1, <1>2, <1>3, <1>4, <1>5, <1>6, <1>7 DEF MediaStep

LEMMA SoloTick ==
    ASSUME SInv, IInv', Tick
    PROVE  SInv'
<1> USE DEF control, pads, pipeline, times
<1>1. Others' /\ Place' /\ Pipe' /\ Pausing'
    BY DEF Tick, SInv, Others, Place, Pipe, Pausing, Going, At
<1>2. Cut'
  <2> SUFFICES ASSUME Going', base' # NoTime, ~early'
               PROVE  recorded' >= 0 /\ recorded' = Unpaused' - base' - pausedTime'
    BY DEF Cut
  <2>1. Going /\ base # NoTime /\ recorded >= 0 /\ recorded = Unpaused - base - pausedTime
    BY DEF Tick, SInv, Cut, Going
  <2>2. /\ now' = now + 1 /\ UNCHANGED <<base, pausedTime, pausedStart>>
        /\ recorded' = IF pausedStart = NoTime THEN recorded + 1 ELSE recorded
    BY <2>1 DEF Tick, SInv, IInv, TypeOK, ControlOK, Pausing
  <2>3. TimesOK
    BY DEF SInv, IInv, TypeOK
  <2> QED  BY <2>1, <2>2, <2>3, ConstantsAssumption DEF TimesOK, Unpaused, NoTime
<1> QED  BY <1>1, <1>2, SoloParts

LEMMA SoloInit == Init => SInv
<1> SUFFICES ASSUME Init PROVE SInv
    OBVIOUS
<1> QED  BY InitHolds, CallerAssumption
         DEF Init, SInv, Others, Place, Pipe, Pausing, Cut, Unpaused, Going, At

LEMMA SoloStep ==
    ASSUME SInv, CallerStep(Caller) \/ MediaStep \/ Tick
    PROVE  SInv'
<1>1. IInv'
    BY CallerAssumption, InvariantStep DEF SInv, Next
<1> QED  BY <1>1, SoloStart, SoloStop, SoloMedia, SoloTick DEF CallerStep

LEMMA Stutter == SInv /\ UNCHANGED vars => SInv'
<1> SUFFICES ASSUME SInv, UNCHANGED vars PROVE SInv'
    OBVIOUS
<1>1. IInv'
    BY InvariantStep DEF SInv
<1>2. eosTask' = "down" => ~Going
    BY DEF vars, SInv, Place
<1> QED  BY <1>1, <1>2, Same, SoloParts DEF vars, pipeline

(* For one caller, whatever it calls when, every buffer recv_sample takes is *)
(* stamped with the time recorded before it, and with the pause that is     *)
(* being ended when started() has not counted it yet.                       *)
THEOREM PausesAreExact == Callers = {Caller} => (Spec => []PausesAreCut)
<1> SUFFICES ASSUME Callers = {Caller} PROVE Spec => []PausesAreCut
    OBVIOUS
<1>1. SInv /\ [Next]_vars => SInv'
    BY SoloStep, Stutter DEF Next
<1>2. SInv => PausesAreCut
  <2> SUFFICES ASSUME SInv, ~early, base # NoTime, Recording
               PROVE  Stamp(now) = recorded + Uncounted
    BY DEF PausesAreCut
  <2>1. Going /\ (transition = "COMPLETED" => pausedStart = NoTime)
    BY DEF SInv, IInv, Stopped, Going, Pausing, Recording
  <2>2. /\ recorded >= 0 /\ recorded = Unpaused - base - pausedTime /\ TimesOK
        /\ pausedStart # NoTime => pausedStart <= now
    BY <2>1 DEF SInv, IInv, TypeOK, Cut, Clock
  <2>3. pausedStart # NoTime => transition = "STARTING"
    BY <2>1 DEF Recording
  <2> QED  BY <2>2, <2>3, ConstantsAssumption DEF Stamp, Uncounted, Unpaused, TimesOK, NoTime
<1> QED  BY <1>1, <1>2, SoloInit, PTL DEF Spec

-----------------------------------------------------------------------------
(* One caller, and end-of-stream is not accepted: only a stop ends sources. *)

Clean ==
    /\ ~acceptEos
    /\ stopped => mux = "NULL" /\ ~sentEos
    /\ Going \/ At \in {"stopEos", "stopNull", "noneSent"} =>
         eos = {} /\ eosTask = "none" /\ ~sentEos
    /\ At \in {"stopEos", "stopNull"} => ~stopped
    /\ At = "noneSent" => stopped
    /\ At # "stopDown"
    /\ ~Going /\ At \in {"wait", "idle"} => generatePads /\ linked = {}

(* Sources that have not ended do not end by being removed.                 *)
LEMMA NoneEnds ==
    ASSUME eos = {}, NEW ms, RemoveSrcs(ms)
    PROVE  eos' = {}
  BY DEF RemoveSrcs

LEMMA CleanStart ==
    ASSUME SInv, Clean, SInv',
           StartBegin(Caller) \/ StartMux(Caller) \/ StartDone(Caller) \/ Pause(Caller)
    PROVE  Clean'
<1> USE DEF kind, control, pads, pipeline, times
<1>1. CASE StartBegin(Caller)
  <2>1. At' = "startMux" /\ Going /\ Going'
    BY <1>1, CallerAt DEF StartBegin, Going
  <2> QED  BY <1>1, <2>1 DEF StartBegin, Clean
<1>2. CASE StartMux(Caller)
  <2>1. At' = "startDone" /\ At = "startMux"
    BY <1>2, CallerAt DEF StartMux, At
  <2>2. Going /\ Going'
    BY <1>2, <2>1 DEF StartMux, SInv, Place, Going
  <2> QED  BY <1>2, <2>1, <2>2 DEF StartMux, Clean, Going
<1>3. CASE StartDone(Caller)
  <2>1. At' = "idle" /\ At = "startDone"
    BY <1>3, CallerAt DEF StartDone, At
  <2>2. Going
    BY <2>1 DEF SInv, Place
  <2>3. Going' /\ sentEos' = sentEos /\ ~stopped'
    BY <1>3, <2>2 DEF StartDone, StateChanged, Going
  <2> QED  BY <1>3, <2>1, <2>2, <2>3 DEF StartDone, Clean
<1>4. CASE Pause(Caller)
  <2>1. At' = At /\ Going /\ Going' /\ ~stopped' /\ sentEos' = sentEos
    BY <1>4 DEF Pause, StateChanged, Going, At
  <2> QED  BY <1>4, <2>1 DEF Pause, Clean
<1> QED  BY <1>1, <1>2, <1>3, <1>4

LEMMA CleanStopping ==
    ASSUME SInv, Clean, SInv',
           \/ StopIdle(Caller) \/ StopBegin(Caller) \/ SendEos(Caller)
           \/ SendNoEos(Caller) \/ ReportNull(Caller) \/ StopPads(Caller)
           \/ StopDown(Caller) \/ WaitOver(Caller) \/ WaitTimeout(Caller)
    PROVE  Clean'
<1> USE DEF kind, control, pads, pipeline, times
<1>1. CASE StopIdle(Caller)
  <2>1. At' = "wait"
    BY <1>1, CallerAt DEF StopIdle
  <2>2. Going /\ mux = "NULL"
    BY <1>1 DEF StopIdle, StopRefused, Going, SInv, IInv, TypeOK, PipelineOK, Pipe
  <2>3. ~Going' /\ ~sentEos' /\ stopped'
    BY <1>1 DEF StopIdle, StateChanged, Going
  <2>4. generatePads' /\ linked' = {}
    BY <1>1 DEF StopIdle, RemovePads, Unlinked
  <2> QED  BY <1>1, <2>1, <2>2, <2>3, <2>4 DEF StopIdle, Clean
<1>2. CASE StopBegin(Caller)
  <2>1. At' = "stopEos" /\ Going /\ ~Going' /\ ~stopped'
    BY <1>2, CallerAt DEF StopBegin, StopRefused, Going
  <2> QED  BY <1>2, <2>1 DEF StopBegin, Clean
<1>3. CASE SendEos(Caller)
  <2>1. At' = "eosSent" /\ At = "stopEos"
    BY <1>3, CallerAt DEF SendEos, At
  <2>2. ~Going' /\ ~stopped'
    BY <1>3, <2>1 DEF SendEos, SInv, Place, Clean, Going
  <2> QED  BY <1>3, <2>1, <2>2 DEF SendEos, Clean
<1>4. CASE SendNoEos(Caller)
  <2>1. At = "stopEos" /\ ~stopped /\ ~Going
    BY <1>4 DEF SendNoEos, At, SInv, Place, Clean
  <2>2. mux = "PLAYING"
    BY <2>1 DEF SInv, Pipe, Going
  <2>3. At' = "stopNull"
    BY <1>4, <2>2, CallerAt DEF SendNoEos
  <2>4. ~Going'
    BY <1>4, <2>1 DEF SendNoEos, Going
  <2> QED  BY <1>4, <2>1, <2>3, <2>4 DEF SendNoEos, Clean
<1>5. CASE ReportNull(Caller)
  <2>1. At' = "noneSent" /\ At = "stopNull"
    BY <1>5, CallerAt DEF ReportNull, At
  <2>2. ~Going /\ ~stopped /\ MuxToNull
    BY <1>5, <2>1 DEF ReportNull, SInv, Place, Clean
  <2>3. stopped' /\ mux' = "NULL" /\ eos' = {} /\ ~sentEos' /\ ~Going'
    BY <2>2, DownStops DEF Going
  <2> QED  BY <1>5, <2>1, <2>3 DEF ReportNull, Clean
<1>6. CASE StopPads(Caller)
  <2>1. At \in {"eosSent", "noneSent"} /\ generatePads' /\ linked' = {}
    BY <1>6 DEF StopPads, At, RemovePads, Unlinked
  <2>2. CASE playing
    <3>1. ~stopped /\ At = "eosSent"
        BY <2>1, <2>2 DEF SInv, IInv, Stopped, Clean
    <3>2. Goto(Caller, "wait")
        BY <1>6, <2>2, <3>1 DEF StopPads, At
    <3>3. At' = "wait" /\ ~Going' /\ ~stopped'
        BY <1>6, <2>1, <2>2, <3>1, <3>2, CallerAt DEF StopPads, SInv, Place, Going
    <3> QED  BY <1>6, <2>1, <3>3 DEF StopPads, Clean
  <2>3. CASE ~playing
    <3>1. ~Going /\ transition # "STOPPING"
        BY <2>1, <2>3 DEF SInv, Place, Pipe
    <3>2. stopped /\ mux = "NULL"
        BY <3>1 DEF Going, Clean
    <3>3. StateChanged("STOP") /\ At' = "wait"
        BY <1>6, <2>3, CallerAt DEF StopPads
    <3>4. stopped' /\ ~sentEos' /\ ~Going'
        BY <3>3 DEF StateChanged, Going
    <3> QED  BY <1>6, <2>1, <3>2, <3>3, <3>4 DEF StopPads, Clean
  <2> QED  BY <2>2, <2>3
<1>7. CASE StopDown(Caller)
    BY <1>7 DEF StopDown, Clean, At
<1>8. CASE WaitOver(Caller) \/ WaitTimeout(Caller)
  <2>1. At' = "idle" /\ At = "wait"
    BY <1>8, CallerAt DEF WaitOver, WaitTimeout, At
  <2>2. ~Going /\ ~Going'
    BY <1>8, <2>1 DEF WaitOver, WaitTimeout, SInv, Place, Going
  <2>3. UNCHANGED <<acceptEos, stopped, sentEos, mux, eos, eosTask, generatePads, linked>>
    BY <1>8 DEF WaitOver, WaitTimeout
  <2> QED  BY <2>1, <2>2, <2>3 DEF Clean
<1> QED  BY <1>1, <1>2, <1>3, <1>4, <1>5, <1>6, <1>7, <1>8

LEMMA CleanMedia ==
    ASSUME SInv, Clean, SInv', MediaStep
    PROVE  Clean'
<1> USE DEF kind, control, pads, pipeline, times
<1>1. CASE PipelinePlays
  <2>1. At' = At /\ mux = "PREROLL" /\ ~stopped /\ transition # "STOPPING"
    BY <1>1 DEF PipelinePlays, At, Clean, SInv, Pipe
  <2>2. Going /\ AsyncStateChanged("START")
    BY <1>1, <2>1 DEF PipelinePlays, Going
  <2>3. Going' /\ ~stopped' /\ sentEos' = sentEos
    BY <2>2 DEF AsyncStateChanged, StateChanged, Going
  <2> QED  BY <1>1, <2>1, <2>2, <2>3 DEF PipelinePlays, Clean
<1>2. CASE PipelineEos \/ OnEos
  <2>1. At' = At /\ (Going' <=> Going)
    BY <1>2 DEF PipelineEos, OnEos, At, Going
  <2>2. ~Going /\ At \notin {"stopEos", "stopNull", "noneSent"}
    BY <1>2 DEF PipelineEos, OnEos, Clean
  <2> QED  BY <1>2, <2>1, <2>2 DEF PipelineEos, OnEos, Clean
<1>3. CASE ReleasePending
  <2>1. At' = At /\ (Going' <=> Going)
    BY <1>3 DEF ReleasePending, At, Going
  <2>2. ~Going /\ At \notin {"stopEos", "stopNull", "noneSent"}
    BY <1>3 DEF ReleasePending, Clean
  <2> QED  BY <1>3, <2>1, <2>2 DEF ReleasePending, Clean
<1>4. CASE EosDown
  <2>1. At' = At /\ ~Going /\ MuxToNull
    BY <1>4 DEF EosDown, At, SInv, Place
  <2>2. /\ stopped' /\ mux' = "NULL" /\ ~Going'
        /\ stopped => UNCHANGED control
        /\ ~stopped => ~sentEos'
    BY <2>1, DownStops DEF Going
  <2>3. At \notin {"stopEos", "stopNull", "noneSent"}
    BY <1>4 DEF EosDown, Clean
  <2>4. ~sentEos'
    BY <2>2 DEF Clean
  <2>5. UNCHANGED <<acceptEos, generatePads, linked>>
    BY <1>4 DEF EosDown
  <2> QED  BY <2>1, <2>2, <2>3, <2>4, <2>5 DEF Clean
<1>5. ASSUME NEW m \in Media, LinkBegin(m) \/ RecvEos(m) \/ RecvSample(m)
      PROVE  Clean'
    BY <1>5 DEF LinkBegin, RecvEos, RecvSample, Clean, At, Going
<1>6. ASSUME NEW m \in Media, Unlink(m)
      PROVE  Clean'
  <2>1. eos = {} => eos' = {}
    BY <1>6, NoneEnds DEF Unlink, Unlinked
  <2>2. linked = {} => linked' = {}
    BY <1>6 DEF Unlink, Unlinked
  <2> QED  BY <1>6, <2>1, <2>2 DEF Unlink, Clean, At, Going
<1>7. CASE LinkDone
  <2>1. eos = {} => eos' = {}
    BY <1>7 DEF LinkDone, AddSrc
  <2>2. ~generatePads
    BY <1>7 DEF LinkDone, SInv, IInv, Linking
  <2> QED  BY <1>7, <2>1, <2>2 DEF LinkDone, Clean, At, Going
<1> QED  BY <1>1, <1>2, <1>3, <1>4, <1>5, <1>6, <1>7 DEF MediaStep

LEMMA CleanStep ==
    ASSUME SInv, Clean, SInv', CallerStep(Caller) \/ MediaStep \/ Tick \/ UNCHANGED vars
    PROVE  Clean'
<1>1. CASE Tick \/ UNCHANGED vars
    BY <1>1 DEF Tick, vars, kind, control, pads, pipeline, Clean, At, Going
<1> QED  BY <1>1, CleanStart, CleanStopping, CleanMedia DEF CallerStep

(* The kind of the recorder is its for life. *)
LEMMA KindStays ==
    ASSUME CallerStep(Caller) \/ MediaStep \/ Tick \/ UNCHANGED vars
    PROVE  UNCHANGED acceptEos
  BY DEF CallerStep, MediaStep, Tick, vars, kind, StartBegin, StartMux, StartDone,
         Pause, StopIdle, StopBegin, SendEos, SendNoEos, ReportNull, StopPads, StopDown,
         WaitOver, WaitTimeout, PipelinePlays, PipelineEos, OnEos, ReleasePending,
         EosDown, LinkBegin, Unlink, RecvEos, RecvSample, LinkDone

(* A stop the only caller is back from took the pipeline down, the pads away *)
(* and the end-of-stream with them (kms_recorder_endpoint_stopped, on_eos).  *)
THEOREM StopIsClean == MCSpec => []CleanStop
<1> DEFINE Solo == Alone /\ ~acceptEos => SInv /\ Clean
<1>1. MCInit => Solo
    BY SoloInit, CallerAssumption DEF MCInit, Init, Clean, Going, At
<1>2. Solo /\ [MCNext]_<<active, vars>> => Solo'
  <2> SUFFICES ASSUME Solo, [MCNext]_<<active, vars>>, Alone', ~acceptEos'
               PROVE  SInv' /\ Clean'
    OBVIOUS
  <2>1. Alone /\ (CallerStep(Caller) \/ MediaStep \/ Tick \/ UNCHANGED vars)
    BY DEF MCNext, Alone
  <2>2. SInv /\ Clean
    BY <2>1, KindStays
  <2>3. SInv'
    BY <2>1, <2>2, SoloStep, Stutter
  <2> QED  BY <2>1, <2>2, <2>3, CleanStep
<1>3. Solo => CleanStop
  <2> SUFFICES ASSUME SInv, Clean, stopped, \A c \in Callers : pc[c] = "idle"
               PROVE  mux = "NULL" /\ ~playing /\ ~sentEos /\ Pads = {} /\ linked = {}
    BY DEF CleanStop, StoppedIsClean
  <2>1. At = "idle" /\ ~Going
    BY CallerAssumption DEF At, Going
  <2> QED  BY <2>1 DEF Clean, SInv, IInv, Stopped, Pads
<1> QED  BY <1>1, <1>2, <1>3, PTL DEF MCSpec
==================================================================================
