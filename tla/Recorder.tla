--------------------------------- MODULE Recorder ---------------------------------
(***************************************************************************)
(* The recorder: KmsRecorderEndpoint with its muxing pipeline              *)
(* (kmsrecorderendpoint.c, kmsavmuxer.c, kmsksrmuxer.c) under the server   *)
(* object that exposes it (RecorderEndpointImpl.cpp).                      *)
(*                                                                         *)
(* Threads.  Callers run record, pause and stopAndWait; media threads      *)
(* deliver buffers and end-of-stream; other threads link and unlink the    *)
(* sink pads; the muxing pipeline reports PLAYING from a streaming thread  *)
(* and end-of-stream from a thread pool.  Two locks matter, the element    *)
(* lock and the srcs mutex.  One action is one critical section; a thread  *)
(* that keeps one lock while it waits for the other is a state of its own. *)
(*                                                                         *)
(* KmsUriEndpoint (state, change_state, set_state) and GStreamer are not   *)
(* in the repository.  A set_state to PLAYING from NULL first prerolls and *)
(* reports PLAYING later; a set_state to NULL reports READY in the calling *)
(* thread before it returns; end-of-stream is reported once, when every    *)
(* source of the muxer has ended.                                          *)
(***************************************************************************)
EXTENDS Integers

CONSTANTS
    Callers,      \* the threads that call the recorder
    Media,        \* the media types of the recording profile
    MaxTime       \* bound: ticks of the pipeline clock

None == "none"
NoTime == -1

ASSUME ConstantsAssumption == MaxTime \in Nat /\ None \notin Media

VARIABLES
    ksr,          \* profile is KSR: sources come and go with the links
    upload,       \* the uri is http: the sink does not wait for data to preroll
    acceptEos,    \* accept-eos: stopOnEndOfStream was asked for
    uriState,     \* KmsUriEndpoint's state, also what RecorderEndpointImpl waits for
    transition, playing, sentEos, stopped, generatePads,
    linked,       \* the sink pads that are linked
    srcs,         \* the table srcs: pads with an appsrc in the muxer
    pendingSrcs,  \* pads unlinked while a stop is pending
    pc,           \* where each caller is
    linking,      \* the pad whose link callback holds the element lock
    mux,          \* the muxing pipeline
    eos,          \* the sources of the muxer that got end-of-stream
    eosPosted,    \* the pipeline reported end-of-stream
    eosTask,      \* the thread-pool task that handles it
    now,          \* the clock
    base,         \* base time, NoTime before the first buffer
    pausedTime, pausedStart,
    recorded,     \* history: ticks the recorder recorded since base was set
    early         \* history: the recorder had been paused before base was set

control == <<uriState, transition, playing, sentEos, stopped>>
pads == <<generatePads, linked, srcs, pendingSrcs>>
pipeline == <<mux, eos, eosPosted>>
times == <<base, pausedTime, pausedStart, recorded, early>>
kind == <<ksr, upload, acceptEos>>
vars == <<kind, control, pads, pc, linking, pipeline, eosTask, now, times>>

Pads == IF generatePads THEN {} ELSE Media

(* The profile chooses the muxer; a KSR recording is a file.                *)
NewMuxer ==
    /\ ksr \in BOOLEAN /\ upload \in BOOLEAN /\ acceptEos \in BOOLEAN
    /\ ~(ksr /\ upload)

Init ==
    /\ NewMuxer
    /\ uriState = "STOP" /\ transition = "COMPLETED"
    /\ playing = FALSE /\ sentEos = FALSE /\ stopped = FALSE
    /\ generatePads = TRUE /\ linked = {} /\ srcs = {} /\ pendingSrcs = {}
    /\ pc = [c \in Callers |-> "idle"] /\ linking = None
    /\ mux = "NULL" /\ eos = {} /\ eosPosted = FALSE /\ eosTask = "none"
    /\ now = 0 /\ base = NoTime /\ pausedTime = 0 /\ pausedStart = NoTime
    /\ recorded = 0 /\ early = FALSE

-----------------------------------------------------------------------------
(* Locks.  A caller holds the srcs mutex while it waits for the element lock *)
(* at "stopNull"; a link callback and the end-of-stream task hold the        *)
(* element lock while they wait for the srcs mutex.                          *)

SrcsFree == \A c \in Callers : pc[c] # "stopNull"
ElementFree == linking = None /\ eosTask # "releasing"

Goto(c, label) == pc' = [pc EXCEPT ![c] = label]

(* An update_internal_state that leaves sent_eos set. *)
StateChangedOnly(to) ==
    /\ uriState' = to
    /\ transition' = "COMPLETED"
    /\ playing' = IF to = "PAUSE" THEN playing ELSE to = "START"
    /\ UNCHANGED sentEos
    /\ stopped' = (stopped \/ to = "STOP")

(* update_internal_state followed by change_state. *)
StateChanged(to) ==
    /\ uriState' = to
    /\ transition' = "COMPLETED"
    /\ playing' = IF to = "PAUSE" THEN playing ELSE to = "START"
    /\ sentEos' = IF to = "STOP" THEN FALSE ELSE sentEos
    /\ stopped' = (stopped \/ to = "STOP")

(* A report of the pipeline counts only as the end of the operation that    *)
(* asked for it.                                                            *)
AsyncStateChanged(to) ==
    IF transition = (IF to = "START" THEN "STARTING" ELSE "STOPPING")
    THEN StateChanged(to)
    ELSE UNCHANGED control

(* set_state (mux, NULL): READY is reported unless the pipeline was down.   *)
MuxToNull ==
    /\ mux' = "NULL" /\ eos' = {} /\ eosPosted' = FALSE
    /\ IF mux = "NULL" THEN UNCHANGED control ELSE AsyncStateChanged("STOP")

(* The muxer is asked for the source of pad m.  A KSR muxer makes a new one *)
(* for it; an AV muxer has one per type, made with it.                      *)
AddSrc(m) ==
    /\ srcs' = srcs \union {m}
    /\ eos' = IF ksr THEN eos \ {m} ELSE eos

(* The muxer is asked to remove the sources of ms: an AV muxer keeps them.  *)
RemoveSrcs(ms) ==
    LET out == IF ksr THEN ms ELSE {}
    IN  srcs' = srcs \ out /\ eos' = eos \ out

(* Pads ms lose their links.  Their sources leave the muxer now, or when    *)
(* the pending stop ends.                                                   *)
Unlinked(ms, stopPending) ==
    /\ linked' = linked \ ms
    /\ pendingSrcs' = IF stopPending THEN pendingSrcs \union ms ELSE pendingSrcs
    /\ RemoveSrcs(IF stopPending THEN {} ELSE ms)

(* A remove_pads that only forgets the pads. *)
HidePads(stopPending) ==
    UNCHANGED <<linked, srcs, pendingSrcs, eos>> /\ generatePads' = TRUE

RemovePads(stopPending) ==
    Unlinked(linked, stopPending) /\ generatePads' = TRUE

ResetTimes ==
    /\ base' = NoTime /\ pausedTime' = 0 /\ pausedStart' = NoTime
    /\ recorded' = 0 /\ early' = FALSE

-----------------------------------------------------------------------------
(* record: kms_recorder_endpoint_started. *)

(* The started() of a recorder that forgets that it is used up. *)
RestartBegin(c) ==
    /\ pc[c] = "idle" /\ ElementFree
    /\ uriState # "START" /\ transition = "COMPLETED"
    /\ transition' = "STARTING"
    /\ Goto(c, "startMux")
    /\ UNCHANGED <<kind, uriState, playing, sentEos, stopped, pads, linking,
                   pipeline, eosTask, now, times>>

StartBegin(c) ==
    /\ pc[c] = "idle" /\ ElementFree
    /\ ~stopped /\ uriState # "START" /\ transition = "COMPLETED"
    /\ transition' = "STARTING"
    /\ Goto(c, "startMux")
    /\ UNCHANGED <<kind, uriState, playing, sentEos, stopped, pads, linking,
                   pipeline, eosTask, now, times>>

StartMux(c) ==
    /\ pc[c] = "startMux"
    /\ mux' = IF mux = "NULL" THEN "PREROLL" ELSE mux
    /\ Goto(c, "startDone")
    /\ UNCHANGED <<kind, control, pads, linking, eos, eosPosted, eosTask, now, times>>

(* Resuming that counts only the last pause. *)
CountLastPause ==
    IF pausedStart = NoTime
    THEN UNCHANGED <<pausedTime, pausedStart>>
    ELSE pausedTime' = now - pausedStart /\ pausedStart' = NoTime

CountPause ==
    IF pausedStart = NoTime
    THEN UNCHANGED <<pausedTime, pausedStart>>
    ELSE pausedTime' = pausedTime + now - pausedStart /\ pausedStart' = NoTime

StartDone(c) ==
    /\ pc[c] = "startDone" /\ ElementFree
    /\ CountPause
    /\ generatePads' = FALSE
    /\ IF playing THEN StateChanged("START") ELSE UNCHANGED control
    /\ Goto(c, "idle")
    /\ UNCHANGED <<kind, linked, srcs, pendingSrcs, linking, pipeline, eosTask,
                   now, base, recorded, early>>

(* pause: kms_recorder_endpoint_paused.  The pipeline has a clock once it   *)
(* plays.                                                                   *)
Pause(c) ==
    /\ pc[c] = "idle" /\ ElementFree
    /\ ~stopped /\ uriState # "PAUSE" /\ transition = "COMPLETED"
    /\ pausedStart' = IF mux = "PLAYING" THEN now ELSE pausedStart
    /\ StateChanged("PAUSE")
    /\ UNCHANGED <<kind, pads, pc, linking, pipeline, eosTask, now, base,
                   pausedTime, recorded, early>>

-----------------------------------------------------------------------------
(* stopAndWait: kms_recorder_endpoint_stopped, then the wait for the state. *)

StopRefused == stopped \/ uriState = "STOP" \/ transition # "COMPLETED"

(* Nothing was ever recorded: the stop ends here. *)
StopIdle(c) ==
    /\ pc[c] = "idle" /\ ElementFree /\ SrcsFree
    /\ ~StopRefused /\ ~playing
    /\ RemovePads(sentEos)
    /\ ResetTimes
    /\ StateChanged("STOP")
    /\ Goto(c, "wait")
    /\ UNCHANGED <<kind, linking, mux, eosPosted, eosTask, now>>

StopBegin(c) ==
    /\ pc[c] = "idle" /\ ElementFree
    /\ ~StopRefused /\ playing
    /\ transition' = "STOPPING"
    /\ Goto(c, "stopEos")
    /\ UNCHANGED <<kind, uriState, playing, sentEos, stopped, pads, linking,
                   pipeline, eosTask, now, times>>

(* send_eos_to_appsrcs, element lock released, srcs mutex held. *)
SendEos(c) ==
    /\ pc[c] = "stopEos" /\ SrcsFree /\ srcs # {}
    /\ mux' = IF mux = "NULL" THEN "PREROLL" ELSE mux
    /\ eos' = eos \union srcs
    /\ Goto(c, "eosSent")
    /\ UNCHANGED <<kind, control, pads, linking, eosPosted, eosTask, now, times>>

(* No source to end: the pipeline is set to NULL under the srcs mutex, and  *)
(* the READY report needs the element lock.                                 *)
SendNoEos(c) ==
    /\ pc[c] = "stopEos" /\ SrcsFree /\ srcs = {}
    /\ Goto(c, IF mux = "NULL" THEN "noneSent" ELSE "stopNull")
    /\ UNCHANGED <<kind, control, pads, linking, pipeline, eosTask, now, times>>

ReportNull(c) ==
    /\ pc[c] = "stopNull" /\ ElementFree
    /\ MuxToNull
    /\ Goto(c, "noneSent")
    /\ UNCHANGED <<kind, pads, linking, eosTask, now, times>>

(* The rest of stopped(), element lock taken again. *)
StopPads(c) ==
    /\ pc[c] \in {"eosSent", "noneSent"} /\ ElementFree /\ SrcsFree
    /\ LET sent == pc[c] = "eosSent"
       IN  /\ RemovePads(sent)
           /\ IF playing
              THEN /\ sentEos' = sent
                   /\ Goto(c, IF sent THEN "wait" ELSE "stopDown")
                   /\ UNCHANGED <<uriState, transition, playing, stopped>>
              ELSE StateChanged("STOP") /\ Goto(c, "wait")
    /\ ResetTimes
    /\ UNCHANGED <<kind, linking, mux, eosPosted, eosTask, now>>

StopDown(c) ==
    /\ pc[c] = "stopDown" /\ ElementFree
    /\ MuxToNull
    /\ Goto(c, "wait")
    /\ UNCHANGED <<kind, pads, linking, eosTask, now, times>>

(* waitForStateChange returns when the state is STOP, or after TIMEOUT.     *)
WaitOver(c) ==
    /\ pc[c] = "wait" /\ uriState = "STOP"
    /\ Goto(c, "idle")
    /\ UNCHANGED <<kind, control, pads, linking, pipeline, eosTask, now, times>>

WaitTimeout(c) ==
    /\ pc[c] = "wait" /\ uriState # "STOP"
    /\ Goto(c, "idle")
    /\ UNCHANGED <<kind, control, pads, linking, pipeline, eosTask, now, times>>

-----------------------------------------------------------------------------
(* The muxing pipeline. *)

(* An AV muxer has a source per media type of the profile from the start.   *)
AvSources == Media
Sources == IF ksr THEN srcs ELSE AvSources

(* The sink has what it waits for before it plays: curlhttpsink waits for   *)
(* nothing, any other sink for a buffer or the end of all sources.          *)
Prerolled == upload \/ base # NoTime \/ (Sources # {} /\ Sources \subseteq eos)

PipelinePlays ==
    /\ mux = "PREROLL" /\ ElementFree
    /\ Prerolled
    /\ mux' = "PLAYING"
    /\ AsyncStateChanged("START")
    /\ UNCHANGED <<kind, pads, pc, linking, eos, eosPosted, eosTask, now, times>>

PipelineEos ==
    /\ mux = "PLAYING" /\ ~eosPosted /\ eosTask = "none"
    /\ Sources # {} /\ Sources \subseteq eos
    /\ eosPosted' = TRUE
    /\ eosTask' = "queued"
    /\ UNCHANGED <<kind, control, pads, pc, linking, mux, eos, now, times>>

(* kms_recorder_endpoint_on_eos. *)
OnEos ==
    /\ eosTask = "queued" /\ ElementFree
    /\ IF sentEos
       THEN eosTask' = "releasing"
       ELSE eosTask' = IF transition = "STOPPING" THEN "down" ELSE "none"
    /\ UNCHANGED <<kind, control, pads, pc, linking, pipeline, now, times>>

ReleasePending ==
    /\ eosTask = "releasing" /\ SrcsFree
    /\ RemoveSrcs(pendingSrcs)
    /\ pendingSrcs' = {}
    /\ sentEos' = FALSE
    /\ eosTask' = IF transition = "STOPPING" THEN "down" ELSE "none"
    /\ UNCHANGED <<kind, uriState, transition, playing, stopped, generatePads,
                   linked, pc, linking, mux, eosPosted, now, times>>

(* An on_eos that never takes the pipeline down. *)
EosIgnored ==
    /\ eosTask = "down" /\ ElementFree
    /\ eosTask' = "none"
    /\ UNCHANGED <<kind, control, pads, pc, linking, pipeline, now, times>>

EosDown ==
    /\ eosTask = "down" /\ ElementFree
    /\ MuxToNull
    /\ eosTask' = "none"
    /\ UNCHANGED <<kind, pads, pc, linking, now, times>>

-----------------------------------------------------------------------------
(* The sink pads. *)

(* link_sinkpad_cb up to the insertion in srcs. *)
LinkBegin(m) ==
    /\ m \in Pads \ linked /\ ElementFree
    /\ linking' = m
    /\ UNCHANGED <<kind, control, pads, pc, pipeline, eosTask, now, times>>

LinkDone ==
    /\ linking # None /\ SrcsFree
    /\ AddSrc(linking)
    /\ linked' = linked \union {linking}
    /\ linking' = None
    /\ UNCHANGED <<kind, control, generatePads, pendingSrcs, pc, mux, eosPosted,
                   eosTask, now, times>>

Unlink(m) ==
    /\ m \in linked /\ ElementFree /\ SrcsFree
    /\ Unlinked({m}, sentEos)
    /\ UNCHANGED <<kind, control, generatePads, pc, linking, mux, eosPosted,
                   eosTask, now, times>>

(* recv_eos: the source ended. *)
RecvEos(m) ==
    /\ acceptEos
    /\ m \in linked /\ m \in srcs /\ mux # "NULL"
    /\ eos' = eos \union {m}
    /\ UNCHANGED <<kind, control, pads, pc, linking, mux, eosPosted, eosTask, now,
                   times>>

Recording ==
    \/ uriState = "START" /\ transition = "COMPLETED"
    \/ transition = "STARTING"

(* The timestamp a buffer of time t gets. *)
Stamp(t) == IF t > base + pausedTime THEN t - (base + pausedTime) ELSE 0

(* The appsink of a pad gets what the pad is linked to.                     *)
Received(m) == m \in linked /\ ElementFree

(* recv_sample: the first buffer sets the base time. *)
RecvSample(m) ==
    /\ Received(m) /\ Recording /\ base = NoTime
    /\ base' = now
    /\ early' = (pausedTime > 0 \/ pausedStart # NoTime)
    /\ UNCHANGED <<kind, control, pads, pc, linking, pipeline, eosTask, now,
                   pausedTime, pausedStart, recorded>>

(* Time passes; it is recorded time unless the recorder was paused.         *)
Tick ==
    /\ now < MaxTime
    /\ now' = now + 1
    /\ recorded' = IF base # NoTime /\ (uriState # "PAUSE" \/ ~playing)
                   THEN recorded + 1 ELSE recorded
    /\ UNCHANGED <<kind, control, pads, pc, linking, pipeline, eosTask, base,
                   pausedTime, pausedStart, early>>

CallerStep(c) ==
    \/ StartBegin(c) \/ StartMux(c) \/ StartDone(c) \/ Pause(c)
    \/ StopIdle(c) \/ StopBegin(c) \/ SendEos(c) \/ SendNoEos(c)
    \/ ReportNull(c) \/ StopPads(c) \/ StopDown(c)
    \/ WaitOver(c) \/ WaitTimeout(c)

MediaStep ==
    \/ PipelinePlays \/ PipelineEos
    \/ OnEos \/ ReleasePending \/ EosDown
    \/ \E m \in Media : LinkBegin(m) \/ Unlink(m) \/ RecvEos(m) \/ RecvSample(m)
    \/ LinkDone

Next == (\E c \in Callers : CallerStep(c)) \/ MediaStep \/ Tick

Spec == Init /\ [][Next]_vars

(* A call that has begun runs on, the pipeline makes progress, and the      *)
(* thread pool runs its tasks.  Nobody has to link, pause or stop.          *)
CallerFairness(c) ==
    /\ WF_vars(StartMux(c) \/ SendEos(c) \/ SendNoEos(c))
    /\ SF_vars(StartDone(c) \/ ReportNull(c) \/ StopPads(c) \/ StopDown(c))
    /\ WF_vars(WaitOver(c))

MediaFairness ==
    /\ WF_vars(PipelinePlays) /\ WF_vars(PipelineEos)
    /\ SF_vars(OnEos) /\ WF_vars(ReleasePending) /\ SF_vars(EosDown)
    /\ WF_vars(LinkDone)

FairSpec == Spec /\ (\A c \in Callers : CallerFairness(c)) /\ MediaFairness

-----------------------------------------------------------------------------
(* Properties. *)

ControlOK ==
    /\ ksr \in BOOLEAN /\ upload \in BOOLEAN /\ acceptEos \in BOOLEAN
    /\ uriState \in {"STOP", "START", "PAUSE"}
    /\ transition \in {"COMPLETED", "STARTING", "STOPPING"}
    /\ playing \in BOOLEAN /\ sentEos \in BOOLEAN /\ stopped \in BOOLEAN

CallersOK ==
    pc \in [Callers -> {"idle", "startMux", "startDone", "stopEos", "stopNull",
                        "eosSent", "noneSent", "stopDown", "wait"}]

PadsOK ==
    /\ generatePads \in BOOLEAN
    /\ linked \subseteq Pads /\ srcs \subseteq Media /\ pendingSrcs \subseteq Media
    /\ linking \in Media \union {None}

PipelineOK ==
    /\ mux \in {"NULL", "PREROLL", "PLAYING"} /\ eos \subseteq Media
    /\ eosPosted \in BOOLEAN
    /\ eosTask \in {"none", "queued", "releasing", "down"}

TimesOK ==
    /\ now \in 0 .. MaxTime /\ base \in NoTime .. MaxTime
    /\ pausedTime \in 0 .. MaxTime /\ pausedStart \in NoTime .. MaxTime
    /\ recorded \in 0 .. MaxTime

TypeOK == early \in BOOLEAN /\ ControlOK /\ CallersOK /\ PadsOK /\ PipelineOK /\ TimesOK

(* A recorder that was stopped stays stopped, whatever calls, pipeline      *)
(* reports and pool tasks were still under way: a second recording would    *)
(* overwrite the file that stopAndWait reported complete.                   *)
FinalStop == stopped => uriState = "STOP"

(* What a resume has not subtracted yet: started() gives the lock away      *)
(* before it counts the pause that it ends.                                 *)
Uncounted ==
    IF transition = "STARTING" /\ pausedStart # NoTime THEN now - pausedStart ELSE 0

(* Whenever recv_sample takes a buffer it stamps it with the time recorded  *)
(* since the first one: no pause is left as a gap or counted twice, but for *)
(* the pause being ended, which the buffers that arrive before started()    *)
(* counts it still have whole; the stamps after them jump back.  (When the  *)
(* recorder plays before its first buffer, as an upload may, a pause before *)
(* that buffer is subtracted from the buffers that follow it.)              *)
PausesAreCut ==
    (~early /\ base # NoTime /\ Recording) => Stamp(now) = recorded + Uncounted

(* When the only caller is back from a stop that completed, nothing of the  *)
(* recording is left: the pipeline is down, the pads are gone and no        *)
(* end-of-stream is waited for.                                             *)
StoppedIsClean ==
    (stopped /\ \A c \in Callers : pc[c] = "idle")
        => mux = "NULL" /\ ~playing /\ ~sentEos /\ Pads = {} /\ linked = {}

(* The stop waits for an end-of-stream that the pipeline will not report:   *)
(* no source is left in it, or one was not linked when the stop began.      *)
Stranded == sentEos /\ (Sources = {} \/ ~(Sources \subseteq eos))

(* link_sinkpad_cb holds the element lock and waits for the srcs mutex; the *)
(* stop holds the srcs mutex and waits for the element lock.                *)
LockCycle == linking # None /\ ~SrcsFree

===================================================================================
