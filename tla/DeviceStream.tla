---------------------------- MODULE DeviceStream ----------------------------
(***************************************************************************)
(* One stream of the camera device (ai-demo/device), on top of the video   *)
(* source (ai-demo/src/video_source_common.c).                             *)
(*                                                                         *)
(* The main loop owns the pipeline: it handles the end of the stream and   *)
(* errors, and restarts the pipeline in an idle callback.  The streaming   *)
(* thread of the pipeline delivers samples to on_app_sink_new_sample; it   *)
(* hands a copy to the worker unless the worker is busy.  The worker sends *)
(* the copy to the AI server and queues it for the main loop, which puts   *)
(* it on the channel the web pages read.                                   *)
(*                                                                         *)
(* video->mutex is held by the main thread while it relaunches the         *)
(* pipeline, cond_mutex.mutex by the worker except while it waits; the     *)
(* sections of the other threads under these mutexes are single actions.   *)
(* A sample and its copy are named by the count of samples.                *)
(***************************************************************************)
EXTENDS Integers, Sequences

CONSTANTS MaxSamples,  \* bound: samples delivered
          MaxErrors    \* bound: errors on the bus

ASSUME BoundsAssumption == MaxSamples \in Nat /\ MaxErrors \in Nat

VARIABLES
  \* the main loop
  at,       \* idle, or where it is in restart_stream or on_pipeline_error
  eos, err, \* messages on the bus of the pipeline
  restarts, \* restart_stream callbacks queued with g_idle_add
  updates,  \* on_app_idle callbacks queued: the copies they carry
  shown,    \* channel->frame
  \* the video source
  pipeline, \* video->pipeline is not NULL
  changed,  \* video->settings_changed
  sized,    \* video->width and height are not -1
  current,  \* video->current_frame, 0: NULL
  \* the streaming thread
  spc,      \* none, run, swap, callback, take, ended
  sample,   \* the frame it has in hand
  samples, errors,  \* counted for the bounds
  \* the worker
  wpc,      \* new, wait, woken, request, post, release, again
  busy,     \* stream->busy
  frame,    \* stream->frame
  early,    \* it was taken before the worker first waited
  refs,     \* refs of each copy
  taken, finished  \* copies handed to the worker, and done with

loopVars == <<at, eos, err, restarts>>
showVars == <<updates, shown>>
videoVars == <<pipeline, changed, sized, current>>
streamVars == <<spc, sample, samples>>
workVars == <<wpc, busy, frame, early, refs, taken, finished>>
vars == <<loopVars, showVars, videoVars, streamVars, errors, workVars>>

Samples == 1 .. MaxSamples

VideoLocked == at \in {"launch", "relaunch"}
CondLocked == wpc \in {"request", "post", "release", "again"}

\* device_stream_new_from_config up to video->play: the pipeline is made.
Init ==
  /\ at = "play"
  /\ eos = FALSE /\ err = FALSE /\ restarts = 0
  /\ updates = <<>> /\ shown = 0
  /\ pipeline = TRUE /\ changed = FALSE /\ sized \in BOOLEAN /\ current = 0
  /\ spc = "none" /\ sample = 0 /\ samples = 0 /\ errors = 0
  /\ wpc = "new" /\ busy = FALSE /\ frame = 0 /\ early = FALSE
  /\ refs = [s \in Samples |-> 0]
  /\ taken = 0 /\ finished = 0

-----------------------------------------------------------------------------
\* The streaming thread: on_app_sink_new_sample makes a frame of the sample ...
Sample ==
  /\ spc = "run"
  /\ samples < MaxSamples
  /\ samples' = samples + 1
  /\ sample' = samples'
  /\ spc' = "swap"
  /\ UNCHANGED <<loopVars, showVars, videoVars, errors, workVars>>

\* ... which becomes video->current_frame under video->mutex ...
Swap ==
  /\ spc = "swap"
  /\ ~VideoLocked
  /\ current' = sample
  /\ spc' = "callback"
  /\ UNCHANGED <<loopVars, showVars, pipeline, changed, sized, sample, samples, errors, workVars>>

CallbackAlways ==
  /\ spc = "callback"
  /\ spc' = "take"
  /\ UNCHANGED <<loopVars, showVars, videoVars, sample, samples, errors, workVars>>

\* ... and is given to on_new_frame without a reference of its own.  A busy
\* worker is left alone; otherwise the frame is copied ...
Callback ==
  /\ spc = "callback"
  /\ spc' = IF busy THEN "run" ELSE "take"
  /\ UNCHANGED <<loopVars, showVars, videoVars, sample, samples, errors, workVars>>

\* pthread_cond_signal: only a worker that waits sees it.
Signalled ==
  /\ wpc' = IF wpc = "wait" THEN "woken" ELSE wpc
  /\ early' = (wpc = "new")

TakeUnlocked ==
  /\ spc = "take"
  /\ busy' = TRUE
  /\ frame' = sample
  /\ refs' = [refs EXCEPT ![sample] = 1]
  /\ taken' = taken + 1
  /\ Signalled
  /\ spc' = "run"
  /\ UNCHANGED <<loopVars, showVars, videoVars, sample, samples, errors, finished>>

\* ... and the worker signalled.
Take ==
  /\ spc = "take"
  /\ ~CondLocked
  /\ busy' = TRUE
  /\ frame' = sample
  /\ refs' = [refs EXCEPT ![sample] = 1]
  /\ taken' = taken + 1
  /\ Signalled
  /\ spc' = "run"
  /\ UNCHANGED <<loopVars, showVars, videoVars, sample, samples, errors, finished>>

\* GStreamer: the stream ends behind its last sample.
Ends ==
  /\ spc = "run"
  /\ spc' = "ended"
  /\ eos' = TRUE
  /\ UNCHANGED <<at, err, restarts, showVars, videoVars, sample, samples, errors, workVars>>

\* GStreamer: any element, in any of its threads, posts an error.
Fails ==
  /\ spc # "none"
  /\ errors < MaxErrors
  /\ errors' = errors + 1
  /\ err' = TRUE
  /\ UNCHANGED <<at, eos, restarts, showVars, videoVars, streamVars, workVars>>

-----------------------------------------------------------------------------
\* The worker.

\* stream_process waits, at first and after each frame.
WorkerWaits ==
  /\ wpc \in {"new", "again"}
  /\ wpc' = "wait"
  /\ UNCHANGED <<loopVars, showVars, videoVars, streamVars, errors, busy, frame, early, refs, taken, finished>>

Wake ==
  /\ wpc = "woken"
  /\ wpc' = "request"
  /\ UNCHANGED <<loopVars, showVars, videoVars, streamVars, errors, busy, frame, early, refs, taken, finished>>

\* The AI server answers, or the request fails.
Request ==
  /\ wpc = "request"
  /\ wpc' \in {"post", "release"}
  /\ UNCHANGED <<loopVars, showVars, videoVars, streamVars, errors, busy, frame, early, refs, taken, finished>>

AddrefTwice == refs' = [refs EXCEPT ![frame] = @ + 2]

\* device_stream_addref_frame
Addref == refs' = [refs EXCEPT ![frame] = @ + 1]

Queue == updates' = Append(updates, frame)

\* app_update_device_stream: a reference for on_app_idle.
Post ==
  /\ wpc = "post"
  /\ Addref
  /\ Queue
  /\ wpc' = "release"
  /\ UNCHANGED <<loopVars, shown, videoVars, streamVars, errors, busy, frame, early, taken, finished>>

\* The frame is given back and the worker no longer busy, before it waits again.
Release ==
  /\ wpc = "release"
  /\ refs' = [refs EXCEPT ![frame] = @ - 1]
  /\ finished' = finished + 1
  /\ busy' = FALSE
  /\ wpc' = "again"
  /\ UNCHANGED <<loopVars, showVars, videoVars, streamVars, errors, frame, early, taken>>

-----------------------------------------------------------------------------
\* The main loop.

\* on_app_idle: the channel copies the frame, then the reference is given back.
Show ==
  /\ at = "idle"
  /\ updates # <<>>
  /\ shown' = Head(updates)
  /\ refs' = [refs EXCEPT ![Head(updates)] = @ - 1]
  /\ updates' = Tail(updates)
  /\ UNCHANGED <<loopVars, videoVars, streamVars, errors, wpc, busy, frame, early, taken, finished>>

OnEosIgnored ==
  /\ at = "idle"
  /\ eos
  /\ eos' = FALSE
  /\ UNCHANGED <<at, err, restarts, showVars, videoVars, streamVars, errors, workVars>>

\* on_pipeline_eos -> on_video_eos
OnEos ==
  /\ at = "idle"
  /\ eos
  /\ eos' = FALSE
  /\ restarts' = restarts + 1
  /\ UNCHANGED <<at, err, showVars, videoVars, streamVars, errors, workVars>>

OnErrorRestarts ==
  /\ at = "idle"
  /\ err
  /\ err' = FALSE
  /\ restarts' = restarts + 1
  /\ UNCHANGED <<at, eos, showVars, videoVars, streamVars, errors, workVars>>

\* on_pipeline_error: the pipeline is forgotten, then stopped.
OnError ==
  /\ at = "idle"
  /\ err
  /\ err' = FALSE
  /\ changed' = TRUE
  /\ pipeline' = FALSE
  /\ at' = IF pipeline THEN "stop" ELSE "idle"
  /\ UNCHANGED <<eos, restarts, showVars, sized, current, streamVars, errors, workVars>>

\* gst_element_set_state(pipeline, GST_STATE_NULL): GStreamer waits for the
\* streaming thread to return from its callbacks, and flushes the bus.
Stopped ==
  /\ spc \in {"none", "run", "ended"}
  /\ spc' = "none"
  /\ eos' = FALSE /\ err' = FALSE

StopAfterError ==
  /\ at = "stop"
  /\ Stopped
  /\ at' = "idle"
  /\ UNCHANGED <<restarts, showVars, videoVars, sample, samples, errors, workVars>>

\* video_init, up to the relaunch: set_resolution decides alone whether the
\* settings have changed, and a change drops the current frame.
Settings(newSized) ==
  /\ sized' = newSized
  /\ changed' = FALSE
  /\ current' = IF sized # newSized THEN 0 ELSE current

\* restart_stream: video->init(video, NULL, -1, -1, NULL) ...
Restart ==
  /\ at = "idle"
  /\ restarts > 0
  /\ restarts' = restarts - 1
  /\ Settings(FALSE)
  /\ at' = "launch"
  /\ UNCHANGED <<eos, err, showVars, pipeline, streamVars, errors, workVars>>

\* relaunch_pipeline, with video->mutex held
LaunchPipeline ==
  /\ IF pipeline THEN Stopped ELSE UNCHANGED <<spc, eos, err>>
  /\ pipeline' = TRUE

\* ... settings_changed = 1 ...
Launch ==
  /\ at = "launch"
  /\ LaunchPipeline
  /\ changed' = TRUE
  /\ at' = "play"
  /\ UNCHANGED <<restarts, showVars, sized, current, sample, samples, errors, workVars>>

\* ... so that video_play starts with a second video_init, of the same size,
\* and a second relaunch ...
Play ==
  /\ at = "play"
  /\ \/ /\ changed
        /\ Settings(sized)
        /\ at' = "relaunch"
     \/ /\ ~changed
        /\ at' = "start"
        /\ UNCHANGED <<changed, sized, current>>
  /\ UNCHANGED <<eos, err, restarts, showVars, pipeline, streamVars, errors, workVars>>

Relaunch ==
  /\ at = "relaunch"
  /\ LaunchPipeline
  /\ at' = "start"
  /\ UNCHANGED <<restarts, showVars, changed, sized, current, sample, samples, errors, workVars>>

\* ... before it sets the pipeline to PLAYING, which starts the streaming thread.
Start ==
  /\ at = "start"
  /\ at' = "idle"
  /\ spc' = "run"
  /\ UNCHANGED <<eos, err, restarts, showVars, videoVars, sample, samples, errors, workVars>>

-----------------------------------------------------------------------------
Stream == Sample \/ Swap \/ Callback \/ Take
Worker == WorkerWaits \/ Wake \/ Request \/ Post \/ Release
Loop == Show \/ OnEos \/ OnError \/ Restart
Restarting == StopAfterError \/ Launch \/ Play \/ Relaunch \/ Start

Next == Stream \/ Ends \/ Fails \/ Worker \/ Loop \/ Restarting

Spec == Init /\ [][Next]_vars

\* The threads run and every request to the AI server returns.  GLib serves
\* every message and callback that is ready.  Streams need not end or fail.
\* The mutexes are held for one step by whoever competes for them.
Fairness ==
  /\ WF_vars(Swap \/ Callback) /\ SF_vars(Take)
  /\ WF_vars(Worker)
  /\ WF_vars(Restarting)
  /\ SF_vars(Show) /\ SF_vars(OnEos) /\ SF_vars(OnError) /\ SF_vars(Restart)

LiveSpec == Spec /\ Fairness

-----------------------------------------------------------------------------
TypeOK ==
  /\ at \in {"idle", "stop", "launch", "play", "relaunch", "start"}
  /\ eos \in BOOLEAN /\ err \in BOOLEAN /\ restarts \in 0 .. 1
  /\ updates \in Seq(Samples) /\ shown \in 0 .. MaxSamples
  /\ pipeline \in BOOLEAN /\ changed \in BOOLEAN /\ sized \in BOOLEAN
  /\ current \in 0 .. MaxSamples
  /\ spc \in {"none", "run", "swap", "callback", "take", "ended"}
  /\ sample \in 0 .. MaxSamples /\ samples \in 0 .. MaxSamples /\ errors \in 0 .. MaxErrors
  /\ wpc \in {"new", "wait", "woken", "request", "post", "release", "again"}
  /\ busy \in BOOLEAN /\ early \in BOOLEAN /\ frame \in 0 .. MaxSamples
  /\ refs \in [Samples -> 0 .. 2]
  /\ taken \in 0 .. MaxSamples /\ finished \in 0 .. MaxSamples

\* The frame on_new_frame copies is still video->current_frame: nobody drops it
\* while the streaming thread, which has no reference of its own, is in the
\* callback (video_source_common.c:497-502, 633-636).
CallbackFrameIsCurrent == spc \in {"callback", "take"} => current = sample

\* The main thread never waits, with video->mutex, for a streaming thread that
\* waits for video->mutex (video_source_common.c:576, 623, 497).
NoWaitCycle == ~(VideoLocked /\ spc = "swap")

\* Every copy is worked on exactly once: the busy flag, which is read without
\* the mutex, keeps the one frame there is room for (video_stream.c:50-64).
TakenOnce == taken = finished + (IF busy THEN 1 ELSE 0)

\* Copies live as long as the worker or a callback in the main loop needs them,
\* and no longer (video_stream.c:271-276, app.c:102-130).
CopiesCounted == \A s \in Samples :
  refs[s] = (IF busy /\ frame = s THEN 1 ELSE 0)
            + (IF \E i \in DOMAIN updates : updates[i] = s THEN 1 ELSE 0)

\* Both of them.
StreamOK == TypeOK /\ CopiesCounted

\* The channel never goes back to an older picture, also across restarts.
NeverOlder == [][shown' >= shown]_shown

\* Each frame the worker is given is finished, but for one it was given before it
\* first waited: stream_process tests nothing before it waits, so that the signal
\* of any other frame must find it waiting (video_stream.c:63-68, 260-282).
TakenIsFinished == (busy /\ ~early) ~> ~busy

\* The end of the stream is followed by a running pipeline, unless an error
\* comes (video_stream.c:292-308, video_source_common.c:571-619, 699-710).
EndIsRestarted == eos ~> (spc \in {"run", "swap", "callback", "take"} \/ errors > 0)
=============================================================================
