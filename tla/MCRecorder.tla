------------------------------- MODULE MCRecorder -------------------------------
(***************************************************************************)
(* The recorder for the model checker, in two settings: one caller with a  *)
(* clock, whose stops must complete, and all callers of a recorder that    *)
(* stops at the end of its sources, without a clock.                       *)
(***************************************************************************)
EXTENDS Recorder

CONSTANT Caller    \* the only caller of the first setting

ASSUME CallerAssumption == Caller \in Callers

VARIABLE active    \* the callers that call

Alone == active = {Caller}

MCInit ==
    /\ Init
    /\ \/ Alone /\ ~acceptEos
       \/ active = Callers /\ acceptEos

MCNext ==
    /\ UNCHANGED active
    /\ \/ \E c \in active : CallerStep(c)
       \/ MediaStep
       \/ Alone /\ Tick

MCSpec ==
    /\ MCInit /\ [][MCNext]_<<active, vars>>
    /\ CallerFairness(Caller) /\ MediaFairness

(* Recorder: after the stop of the only caller nothing of the recording is *)
(* left, unless end-of-stream is accepted: then a stop may find that the   *)
(* pipeline was taken down by it, and starts it again to end its sources.  *)
CleanStop == Alone /\ ~acceptEos => StoppedIsClean

(* Recorder: a stop of the only caller ends in state STOP, unless its      *)
(* end-of-stream cannot come or the two locks are taken crosswise.         *)
StopsComplete ==
    (Alone /\ transition = "STOPPING") ~>
        (uriState = "STOP" \/ Stranded \/ LockCycle)
=================================================================================
