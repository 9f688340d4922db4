---------------------------------- MODULE Player ----------------------------------
(***************************************************************************)
(* The player: KmsPlayerEndpoint (kmsplayerendpoint.c) under the server    *)
(* object that exposes it (PlayerEndpointImpl.cpp).                        *)
(*                                                                         *)
(* Threads.  The application plays, pauses, seeks and stops, one call at a *)
(* time; each stream of the file has a streaming thread that takes its     *)
(* buffers into the main pipeline with new time stamps; a loop handles the *)
(* end of a playback.  Only the base times are under a mutex; one action   *)
(* is one critical section of it or one call into the inner pipeline.      *)
(*                                                                         *)
(* KmsUriEndpoint and GStreamer are not in the repository.  A state is     *)
(* asked for only when the endpoint is in another one.  A file's streams   *)
(* all have their pads before one delivers.  A stream that is new, or      *)
(* flushed by a seek, or paused while it plays, first prerolls: it hands   *)
(* over a buffer once, and hands the same one over again as its first      *)
(* sample.                                                                 *)
(* It plays on its own when the pipeline is meant to play.  Going to NULL, *)
(* pausing and flushing wait for a streaming thread that is in a callback. *)
(***************************************************************************)
EXTENDS Integers, FiniteSets

CONSTANTS
    Streams,      \* the streams of the file
    End,          \* the time stamp of the last buffer of each
    MaxTime,      \* bound: ticks, of GST_MSECOND, of the clock
    MaxCalls      \* bound: calls of the application

NoTime == -1

ASSUME ConstantsAssumption ==
    /\ IsFiniteSet(Streams) /\ Streams # {}
    /\ End \in Nat \ {0} /\ MaxTime \in Nat /\ MaxCalls \in Nat

VARIABLES
    uriState,     \* KmsUriEndpoint's state
    app,          \* where the application is in its call
    calls,        \* calls made so far
    loop,         \* where the loop is in kms_player_endpoint_emit_EOS_signal
    idles,        \* ends of playbacks queued in the loop
    events,       \* EndOfStream events the application got
    pipeline,     \* the state the inner pipeline is in, or on its way to
    sink,         \* where the appsink of each stream is
    pos,          \* the time stamp of the next buffer of each stream
    reset, base_time, base_time_preroll,
    pts,          \* KmsPtsData of each appsink
    now,          \* the clock
    shared,       \* history: the base_time each stream took
    lost,         \* history: a buffer was not pushed for its time stamp
    since,        \* history: when a playback was last stopped, paused or sought in
    missed        \* history: since the base times were last forgotten, no stream prerolled
                  \* after a pause, or one did between a mark and what it was made for

base == <<reset, base_time, base_time_preroll>>
control == <<uriState, app, calls>>
ending == <<loop, idles, events>>
history == <<shared, lost, since, missed>>
vars == <<control, ending, pipeline, sink, pos, base, pts, now, history>>

NewPts == [base |-> NoTime, offset |-> NoTime, last |-> NoTime, lastOrig |-> NoTime]

Init ==
    /\ uriState = "STOP" /\ app = "idle" /\ calls = 0
    /\ loop = "idle" /\ idles = 0 /\ events = 0
    /\ pipeline = "NULL"
    /\ sink = [s \in Streams |-> "none"] /\ pos = [s \in Streams |-> 0]
    /\ reset = FALSE /\ base_time = NoTime /\ base_time_preroll = NoTime
    /\ pts = [s \in Streams |-> NewPts]
    /\ now = 0
    /\ shared = [s \in Streams |-> NoTime]
    /\ lost = FALSE /\ since = 0 /\ missed = FALSE

-----------------------------------------------------------------------------
(* The inner pipeline. *)

Later(t, u) == IF t > u THEN t ELSE u

\* No streaming thread is in a callback.
Quiescent == \A s \in Streams : sink[s] # "prerolling"

\* mark_reset_base_time.
MarkReset ==
    /\ reset' = TRUE
    /\ UNCHANGED <<base_time, base_time_preroll>>

\* Going to NULL takes the streams away (pad_removed).
SetNull ==
    /\ Quiescent
    /\ pipeline' = "NULL"
    /\ sink' = [s \in Streams |-> "none"]
    /\ pos' = [s \in Streams |-> 0]
    /\ pts' = [s \in Streams |-> NewPts]
    /\ shared' = [s \in Streams |-> NoTime]
    /\ since' = now

\* A flushing seek to time t.
Flush(t) ==
    /\ Quiescent
    /\ sink' = [s \in Streams |-> IF sink[s] = "none" THEN "none" ELSE "waiting"]
    /\ pos' = [s \in Streams |-> IF sink[s] = "none" THEN pos[s] ELSE t]
    /\ shared' = [s \in Streams |-> NoTime]
    /\ since' = now

-----------------------------------------------------------------------------
(* The application. *)

Call(label) ==
    /\ app = "idle" /\ calls < MaxCalls
    /\ calls' = calls + 1
    /\ app' = label

Step(from, to) ==
    /\ app = from
    /\ app' = to
    /\ UNCHANGED calls

\* change_state, the last step of a call.
ChangeState(from, to) ==
    /\ Step(from, "idle")
    /\ uriState' = to
    /\ UNCHANGED <<ending, pipeline, sink, pos, base, pts, now, history>>

\* Every stream of the file has played to its end.
Completed == \A s \in Streams : sink[s] = "ended"

\* kms_player_endpoint_started.  A pipeline that was paused at its end reports it again.
Play ==
    /\ uriState # "START" /\ Call("starting")
    /\ pipeline' = "PLAYING"
    /\ idles' = IF Completed /\ pipeline = "PAUSED" THEN idles + 1 ELSE idles
    /\ UNCHANGED <<uriState, loop, events, sink, pos, base, pts, now, history>>

Started == ChangeState("starting", "START")

\* kms_player_endpoint_stopped.
Stop ==
    /\ uriState # "STOP" /\ Call("stopping")
    /\ MarkReset
    /\ UNCHANGED <<uriState, ending, pipeline, sink, pos, pts, now, history>>

StopNull ==
    /\ Step("stopping", "stopped")
    /\ SetNull
    /\ UNCHANGED <<uriState, ending, base, now, lost, missed>>

Stopped == ChangeState("stopped", "STOP")

\* kms_player_endpoint_set_position: nothing is marked when the file is not seekable.
Seek ==
    /\ pipeline # "NULL" /\ Call("seeking")
    /\ MarkReset
    /\ UNCHANGED <<uriState, ending, pipeline, sink, pos, pts, now, history>>

\* A seek fails, or goes to a buffer of the file; bound: not to the last one.
SeekResults == NoTime .. End - 1

\* The end of a seek, in set_position or inside a pause.
Seeked(from, to, t) ==
    /\ Step(from, to)
    /\ IF t = NoTime THEN UNCHANGED <<sink, pos, shared, since>>
                     ELSE pipeline # "NULL" /\ Flush(t)
    /\ UNCHANGED <<uriState, ending, pipeline, base, pts, now, lost>>

SeekDone ==
    /\ \E t \in SeekResults : Seeked("seeking", "idle", t)
    /\ UNCHANGED missed

\* kms_player_endpoint_paused.
Pause ==
    /\ uriState # "PAUSE" /\ Call("pausing")
    /\ MarkReset
    /\ UNCHANGED <<uriState, ending, pipeline, sink, pos, pts, now, history>>

\* A stream that has played since its last preroll has to preroll again, one that was
\* about to may have to.  While a stream prerolls, the change is asynchronous.
PausePipeline ==
    LET ready == {s \in Streams : sink[s] = "ready" /\ pipeline = "PLAYING"} IN
    /\ Quiescent
    /\ pipeline' = "PAUSED"
    /\ \E again \in SUBSET ready :
         /\ {s \in ready : pts[s].base # NoTime} \subseteq again
         /\ sink' = [s \in Streams |-> IF s \in again THEN "waiting" ELSE sink[s]]
         /\ shared' = [s \in Streams |-> IF s \in again THEN NoTime ELSE shared[s]]
    /\ \/ Step("pausing", "paused") /\ \E s \in Streams : sink'[s] \in {"none", "waiting"}
       \/ Step("pausing", "querying") /\ \A s \in Streams : sink'[s] # "waiting"
    /\ since' = now
    /\ UNCHANGED <<uriState, ending, pos, base, pts, now, lost, missed>>

\* A change that is not makes the pause seek to where it is, which may not be possible, ...
PauseSeek ==
    /\ Step("querying", "pauseSeeking")
    /\ MarkReset
    /\ UNCHANGED <<uriState, ending, pipeline, sink, pos, pts, now, history>>

PauseNoSeek ==
    /\ Step("querying", "pauseSeeked")
    /\ missed' = TRUE
    /\ UNCHANGED <<uriState, ending, pipeline, sink, pos, base, pts, now, shared, lost, since>>

PauseSeekDone ==
    \E t \in SeekResults :
        /\ Seeked("pauseSeeking", "pauseSeeked", t)
        /\ missed' = (missed \/ t = NoTime)

\* ... and pauses again.
PauseAgain ==
    /\ Step("pauseSeeked", "pausedAgain")
    /\ MarkReset
    /\ UNCHANGED <<uriState, ending, pipeline, sink, pos, pts, now, history>>

PausePipelineAgain ==
    /\ Step("pausedAgain", "paused")
    /\ pipeline' = "PAUSED"
    /\ UNCHANGED <<uriState, ending, sink, pos, base, pts, now, history>>

Paused == ChangeState("paused", "PAUSE")

-----------------------------------------------------------------------------
(* The streams: process_sample. *)

\* pad_added for each stream: an appsink with new KmsPtsData.
PadsAdded ==
    /\ pipeline # "NULL" /\ \A s \in Streams : sink[s] = "none"
    /\ sink' = [s \in Streams |-> "waiting"]
    /\ UNCHANGED <<control, ending, pipeline, pos, base, pts, now, history>>

\* kms_pts_data_reset.
PtsDataReset(d) == [d EXCEPT !.base = NoTime, !.lastOrig = NoTime]

\* Where a call has marked and not yet done what the mark is for.
Marked == {"stopping", "seeking", "pausing", "pauseSeeking", "pausedAgain"}

\* reset_base_time: the first stream that prerolls after a mark forgets the base times.
\* (ForgetPreroll is a mutant.)
ForgetPreroll ==
    IF reset
    THEN reset' = FALSE /\ base_time_preroll' = NoTime /\ UNCHANGED base_time
    ELSE UNCHANGED base

ForgetBaseTime ==
    IF reset
    THEN reset' = FALSE /\ base_time' = NoTime /\ base_time_preroll' = NoTime
    ELSE UNCHANGED base

\* get_or_generate_base_time.  (TakeNow is a mutant.)
TakeNow(t) == now
Take(t) == IF t = NoTime THEN now ELSE t

\* The buffer after the end is the end-of-stream.  (HasOneMore is a mutant.)
HasOneMore(s) == pos[s] <= End + 1
HasBuffer(s) == pos[s] <= End

PrerollReset(s) ==
    /\ sink[s] = "waiting" /\ HasBuffer(s) /\ pipeline # "NULL"
    /\ sink' = [sink EXCEPT ![s] = "prerolling"]
    /\ ForgetBaseTime
    /\ pts' = [pts EXCEPT ![s] = PtsDataReset(@)]
    /\ missed' = (loop = "nulling" \/ app \in Marked \/ (missed /\ ~reset))
    /\ UNCHANGED <<control, ending, pipeline, pos, now, shared, lost, since>>

\* A base time for a stream whose last time stamp is known.  (BaseAsIs is a mutant.)
BaseAsIs(t, last) == t
BaseAfter(t, last) == IF last = NoTime THEN t ELSE Later(t, last + 1)

\* The buffer of stream s is stamped with a base and an offset: it is pushed unless it
\* was pushed before, or its time is not after that of the last one.  d is the
\* appsink's data.
Push(s, d, from, offset) ==
    LET stamp == from + pos[s] - offset
        known == d.lastOrig # NoTime
        again == known /\ pos[s] = d.lastOrig
        late == \/ known /\ pos[s] < d.lastOrig
                \/ d.last # NoTime /\ stamp <= d.last
    IN /\ pts' = [pts EXCEPT ![s] = IF again \/ late THEN d
                                    ELSE [d EXCEPT !.last = stamp, !.lastOrig = pos[s]]]
       /\ lost' = (lost \/ (late /\ ~again))

\* The preroll has a base time of its own, which the appsink's data does not keep.
PrerollPush(s) ==
    LET t == Take(base_time_preroll) IN
    /\ sink[s] = "prerolling"
    /\ sink' = [sink EXCEPT ![s] = "ready"]
    /\ base_time_preroll' = t
    /\ Push(s, pts[s], BaseAfter(t, pts[s].last), pos[s])
    /\ UNCHANGED <<control, ending, pipeline, pos, reset, base_time, now, shared, since, missed>>

\* The pipeline goes on to play when all streams have prerolled.
Playing(s) ==
    /\ sink[s] = "ready" /\ pipeline = "PLAYING"
    /\ \A r \in Streams : sink[r] \in {"ready", "ended"}

\* new_sample_cb: the first sample since a preroll takes the base time the streams share.
FirstSample(s) ==
    LET t == Take(base_time)
        from == BaseAfter(t, pts[s].last)
    IN
    /\ Playing(s) /\ HasBuffer(s) /\ pts[s].base = NoTime
    /\ base_time' = t
    /\ shared' = [shared EXCEPT ![s] = t]
    /\ Push(s, [pts[s] EXCEPT !.base = from, !.offset = pos[s]], from, pos[s])
    /\ pos' = [pos EXCEPT ![s] = @ + 1]
    /\ UNCHANGED <<control, ending, pipeline, sink, reset, base_time_preroll, now, since, missed>>

\* The sinks are synchronized: none goes on before the others have begun.
Begun == \A s \in Streams : sink[s] = "ready" => pts[s].base # NoTime

NextSample(s) ==
    /\ Playing(s) /\ HasBuffer(s) /\ Begun
    /\ Push(s, pts[s], pts[s].base, pts[s].offset)
    /\ pos' = [pos EXCEPT ![s] = @ + 1]
    /\ UNCHANGED <<control, ending, pipeline, sink, base, now, shared, since, missed>>

\* A stream ends; with the last one the pipeline reports it, and
\* bus_sync_signal_handler queues the end of the playback.  A stream that is at its end
\* while it waits for a buffer ends as well, and with the last one to wait nobody is left
\* to forget the base times.
LastToPreroll(s) ==
    /\ sink[s] = "waiting"
    /\ \A r \in Streams \ {s} : sink[r] \notin {"none", "waiting"}

StreamEnds(s) ==
    /\ pipeline = "PLAYING" /\ ~HasBuffer(s)
    /\ sink[s] = "waiting" \/ (sink[s] = "ready" /\ Begun)
    /\ sink' = [sink EXCEPT ![s] = "ended"]
    /\ idles' = IF Completed' THEN idles + 1 ELSE idles
    /\ missed' = (missed \/ (reset /\ LastToPreroll(s)))
    /\ UNCHANGED <<control, loop, events, pipeline, pos, base, pts, now, shared, lost, since>>

-----------------------------------------------------------------------------
(* The loop: kms_player_endpoint_emit_EOS_signal stops the player, whatever it is doing, *)
(* and tells the application. *)

\* (EmitEosStarted is a mutant.)
EmitEosStarted ==
    /\ loop = "idle" /\ idles > 0
    /\ idles' = idles - 1
    /\ IF uriState = "START" THEN loop' = "nulling" /\ MarkReset ELSE UNCHANGED <<loop, base>>
    /\ UNCHANGED <<control, events, pipeline, sink, pos, pts, now, history>>

EmitEos ==
    /\ loop = "idle" /\ idles > 0
    /\ loop' = "nulling" /\ idles' = idles - 1
    /\ MarkReset
    /\ UNCHANGED <<control, events, pipeline, sink, pos, pts, now, history>>

EosNull ==
    /\ loop = "nulling"
    /\ loop' = "telling"
    /\ SetNull
    /\ UNCHANGED <<control, idles, events, base, now, lost, missed>>

EosTold ==
    /\ loop = "telling"
    /\ loop' = "idle"
    /\ uriState' = "STOP" /\ events' = events + 1
    /\ UNCHANGED <<app, calls, idles, pipeline, sink, pos, base, pts, now, history>>

-----------------------------------------------------------------------------

Tick ==
    /\ now < MaxTime
    /\ now' = now + 1
    /\ UNCHANGED <<control, ending, pipeline, sink, pos, base, pts, history>>

Application ==
    \/ Play \/ Started \/ Stop \/ StopNull \/ Stopped \/ Seek \/ SeekDone
    \/ Pause \/ PausePipeline \/ PauseSeek \/ PauseNoSeek \/ PauseSeekDone
    \/ PauseAgain \/ PausePipelineAgain \/ Paused

Stream(s) ==
    PrerollReset(s) \/ PrerollPush(s) \/ FirstSample(s) \/ NextSample(s) \/ StreamEnds(s)

Loop == EmitEos \/ EosNull \/ EosTold

Next == Application \/ PadsAdded \/ (\E s \in Streams : Stream(s)) \/ Loop \/ Tick

Spec == Init /\ [][Next]_vars

Fairness ==
    /\ WF_vars(Started \/ StopNull \/ Stopped \/ SeekDone \/ PausePipeline \/ PauseSeek
               \/ PauseNoSeek \/ PauseSeekDone \/ PauseAgain \/ PausePipelineAgain \/ Paused)
    /\ \A s \in Streams : WF_vars(PrerollPush(s))
    /\ WF_vars(Loop)

FairSpec == Spec /\ Fairness

-----------------------------------------------------------------------------
(* Properties. *)

Flags == reset \in BOOLEAN /\ lost \in BOOLEAN /\ missed \in BOOLEAN

Calling ==
    /\ uriState \in {"STOP", "START", "PAUSE"}
    /\ app \in {"idle", "starting", "stopping", "stopped", "seeking", "pausing", "querying",
               "pauseSeeking", "pauseSeeked", "pausedAgain", "paused"}
    /\ calls \in 0 .. MaxCalls
    /\ loop \in {"idle", "nulling", "telling"} /\ idles \in Nat /\ events \in Nat
    /\ pipeline \in {"NULL", "PAUSED", "PLAYING"}

Stamping ==
    /\ sink \in [Streams -> {"none", "waiting", "prerolling", "ready", "ended"}]
    /\ pos \in [Streams -> 0 .. End + 1]
    /\ base_time \in NoTime .. MaxTime /\ base_time_preroll \in NoTime .. MaxTime
    /\ pts \in [Streams -> [base : Int, offset : NoTime .. End + 1, last : Int,
                            lastOrig : NoTime .. End]]
    /\ now \in 0 .. MaxTime /\ since \in 0 .. MaxTime
    /\ shared \in [Streams -> NoTime .. MaxTime]

TypeOK == Flags /\ Calling /\ Stamping

\* Streams that play together play from one base time: however plays, pauses, seeks, ends
\* and the prerolls of the streams were interleaved, the streams that took a base time
\* since they last had to preroll took the same one.
SharedBase ==
    \A r, s \in {t \in Streams : sink[t] = "ready" /\ shared[t] # NoTime} :
        shared[r] = shared[s]

\* A base time is not older than the last stop, pause or seek: what comes after a pause
\* is not stamped as if there had been none.  The mark, which makes the first stream that
\* prerolls forget the old base times, is set before the pipeline pauses or flushes: a
\* stream that prerolls in between, for what was before, uses it up.  A pause after which
\* no stream prerolls seeks, so that one does; a file may not be seekable, and streams that
\* were paused at their end may end instead of prerolling.  In these cases it is old at
\* most until the next stream that prerolls after a mark.
FreshBase ==
    \A s \in Streams :
        sink[s] = "ready" /\ shared[s] # NoTime /\ ~missed => shared[s] >= since

\* Every buffer of the file reaches the main pipeline: process_sample never finds that
\* the time of a buffer is not after that of the last one, although base times are
\* forgotten and taken again in the middle of a playback, and the file goes back in time.
NothingLost == ~lost

\* A playback that was streamed completely is stopped and told to the application, also
\* if it pauses, seeks, or stops and plays again before the loop gets there.
EndIsTold == Completed ~> loop = "telling"

\* "EndOfStreamEvent: If the file is streamed completely": the playback that the loop
\* stops and reports as ended is not one of which some stream has not even appeared.
\* The code queues the end without saying of which playback it is the end, and the loop
\* stops the one that is going on by then.
EndIsReal ==
    [][EosNull /\ pipeline # "NULL" => \A s \in Streams : sink[s] # "none"]_vars

==================================================================================
