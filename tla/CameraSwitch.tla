---------------------------- MODULE CameraSwitch ----------------------------
(***************************************************************************)
(* The camera switch of the demos (demo/camera-switch.c).  A timer on the  *)
(* main loop takes the picture of the active camera, or a blank one, and   *)
(* leaves it in mgr->frame; cameras take turns.  An uploading thread sends *)
(* one picture at a time to the AI server; the answer comes back on the    *)
(* main loop, which annotates the picture and shows it on a channel.       *)
(*                                                                         *)
(* Pictures are shared by reference counts.  frame_mutex is never held     *)
(* over more than one action; cond_mutex is held by the uploading thread   *)
(* except while it waits.                                                  *)
(***************************************************************************)
EXTENDS Naturals, FiniteSets

CONSTANTS Cameras,     \* number of cameras
          Interval,    \* seconds a camera stays active
          MaxPictures, \* pieces of memory for pictures: more than are ever in use
          MaxFaults    \* bound: errors and ends of streams

Pictures == 1 .. MaxPictures
Index == 0 .. Cameras - 1

VARIABLES index,     \* camera_index
          seconds,   \* since begin_ticks
          pipeline,  \* video->pipeline of each camera is not NULL
          playing,   \* video->state = GST_STATE_PLAYING
          sized,     \* the camera is configured with a size
          current,   \* video->current_frame, 0: NULL
          refs,      \* reference counts of the pictures, 0: freed
          frame,     \* mgr->frame
          uploaded,  \* mgr->current_frame
          busy,      \* mgr->is_busy
          message,   \* the picture whose bytes the message in flight points to
          upc,       \* the uploading thread: check, wait, woken, addref, post, ended
          held,      \* the picture it has read and not yet counted
          quit,      \* mgr->quit
          main,      \* new, run, signal, join, done, undefined
          late,      \* quit was set between its check and the wait
          faults

vars == <<index, seconds, pipeline, playing, sized, current, refs, frame, uploaded,
          busy, message, upc, held, quit, main, late, faults>>
cameraVars == <<pipeline, playing, sized, current, faults>>
turnVars == <<index, seconds>>
threadVars == <<upc, held, late>>

Running == main \in {"run", "signal", "join"}

Locked == upc \in {"check", "woken", "addref", "post"}

\* camera_manager_init
Init ==
  /\ index = 0 /\ seconds = 0
  /\ pipeline = [c \in Index |-> FALSE]
  /\ playing = [c \in Index |-> FALSE]
  /\ sized = [c \in Index |-> c = 0]
  /\ current = [c \in Index |-> 0]
  /\ refs = [p \in Pictures |-> 0]
  /\ frame = 0 /\ uploaded = 0 /\ busy = FALSE /\ message = 0
  /\ upc = "check" /\ held = 0
  /\ quit = FALSE /\ main = "new" /\ late = FALSE /\ faults = 0

\* camera_manager_new_from_config: the pipelines are started, no picture yet.
Start ==
  /\ main = "new" /\ main' = "run"
  /\ pipeline' = [c \in Index |-> TRUE]
  /\ UNCHANGED <<turnVars, playing, sized, current, faults, refs, frame, uploaded, busy,
                 message, threadVars, quit>>

\* The counts after references on the pictures of more, and less, changed.
Counted(more, less) ==
  [p \in Pictures |-> refs[p] + (IF p = more THEN 1 ELSE 0) - (IF p = less THEN 1 ELSE 0)]

Free == {p \in Pictures : refs[p] = 0}
NewPicture == CHOOSE p \in Free : \A q \in Free : p <= q

-----------------------------------------------------------------------------
\* The video sources.

\* on_app_sink_new_sample: a picture replaces video->current_frame.
NewSample(c) ==
  /\ main \in {"run", "signal"} /\ pipeline[c] /\ playing[c] /\ Free # {}
  /\ refs' = Counted(NewPicture, current[c])
  /\ current' = [current EXCEPT ![c] = NewPicture]
  /\ UNCHANGED <<turnVars, pipeline, playing, sized, faults, frame, uploaded, busy, message,
                 threadVars, quit, main>>

\* A pipeline that was set to PLAYING gets there and says so.
StateChanged(c) ==
  /\ main = "run" /\ pipeline[c] /\ ~playing[c]
  /\ playing' = [playing EXCEPT ![c] = TRUE]
  /\ UNCHANGED <<turnVars, pipeline, sized, current, faults, refs, frame, uploaded,
                 busy, message, threadVars, quit, main>>

\* on_pipeline_error: the pipeline goes, video->state stays.
OnError(c) ==
  /\ main = "run" /\ pipeline[c] /\ faults < MaxFaults
  /\ faults' = faults + 1
  /\ pipeline' = [pipeline EXCEPT ![c] = FALSE]
  /\ UNCHANGED <<turnVars, playing, sized, current, refs, frame, uploaded, busy,
                 message, threadVars, quit, main>>

\* init with size -1, -1: everything is reset only where a size was set, which is
\* then forgotten; launched tells whether a new pipeline could be made.
Reinit(c, launched) ==
  /\ pipeline' = [pipeline EXCEPT ![c] = launched]
  /\ sized' = [sized EXCEPT ![c] = FALSE]
  /\ IF sized[c]
     THEN /\ playing' = [playing EXCEPT ![c] = FALSE]
          /\ current' = [current EXCEPT ![c] = 0]
          /\ refs' = Counted(0, current[c])
     ELSE UNCHANGED <<playing, current, refs>>

\* on_eos of a camera: pause, init, play, which waits until the pipeline plays or
\* fails.
OnEos(c) ==
  /\ main = "run" /\ pipeline[c] /\ playing[c] /\ faults < MaxFaults
  /\ faults' = faults + 1
  /\ sized' = [sized EXCEPT ![c] = FALSE]
  /\ IF sized[c]
     THEN /\ current' = [current EXCEPT ![c] = 0]
          /\ refs' = Counted(0, current[c])
     ELSE UNCHANGED <<current, refs>>
  /\ \/ UNCHANGED <<pipeline, playing>>
     \/ /\ pipeline' \in {pipeline, [pipeline EXCEPT ![c] = FALSE]}
        /\ playing' = [playing EXCEPT ![c] = FALSE]
  /\ UNCHANGED <<turnVars, frame, uploaded, busy, message, threadVars, quit, main>>

-----------------------------------------------------------------------------
\* The timer on the main loop.

Second ==
  /\ Running /\ seconds <= Interval
  /\ seconds' = seconds + 1
  /\ UNCHANGED <<index, cameraVars, refs, frame, uploaded, busy, message, threadVars,
                 quit, main>>

NextIndexStops == IF index + 1 < Cameras THEN index + 1 ELSE index

NextIndex == (index + 1) % Cameras

\* camera_manager_get_active_source: the turn passes, a lost pipeline is retried.
Turned == IF seconds > Interval THEN NextIndex ELSE index

Turn ==
  /\ index' = Turned
  /\ seconds' = IF seconds > Interval THEN 0 ELSE seconds

SetFrameLeaks(p) == frame' = p /\ refs' = Counted(p, 0) /\ main' = "signal"

\* set_frame: mgr->frame is the picture p, under frame_mutex; the references of
\* get_frame or video_frame_new and of unref_frame cancel out.
SetFrame(p) == frame' = p /\ refs' = Counted(p, frame) /\ main' = "signal"

\* Then, under cond_mutex, a signal; it reaches the thread only where it waits.
Signal ==
  /\ main = "signal" /\ ~Locked
  /\ upc' = IF ~busy /\ upc = "wait" THEN "woken" ELSE upc
  /\ main' = "run"
  /\ UNCHANGED <<turnVars, cameraVars, refs, frame, uploaded, busy, message, held, late, quit>>

\* on_timeout where the active source does not play: a blank picture.
SendBlank ==
  /\ main = "run"
  /\ pipeline[Turned] /\ ~playing[Turned]
  /\ Turn
  /\ SetFrame(NewPicture)
  /\ UNCHANGED <<cameraVars, uploaded, busy, message, threadVars, quit>>

\* on_timeout where it plays: its current picture.
SendPicture ==
  /\ main = "run"
  /\ pipeline[Turned] /\ playing[Turned] /\ current[Turned] # 0
  /\ Turn
  /\ SetFrame(current[Turned])
  /\ UNCHANGED <<cameraVars, uploaded, busy, message, threadVars, quit>>

\* on_timeout where it has no picture yet.
SendNothing ==
  /\ main = "run"
  /\ pipeline[Turned] /\ playing[Turned] /\ current[Turned] = 0
  /\ Turn
  /\ UNCHANGED <<cameraVars, refs, frame, uploaded, busy, message, threadVars,
                 quit, main>>

\* A camera without a pipeline is initialised again, in the turn it is active.
Retry(launched) ==
  /\ main = "run"
  /\ ~pipeline[Turned]
  /\ Turn
  /\ Reinit(Turned, launched)
  /\ UNCHANGED <<faults, frame, uploaded, busy, message, threadVars, quit, main>>

\* upload_finished: no longer busy, the picture is annotated and given back.  An
\* answer in JSON is only printed, and ends the program.
UploadFinished ==
  /\ main = "run" /\ message # 0
  /\ busy' = FALSE /\ message' = 0
  /\ uploaded' = 0
  /\ \/ refs' = Counted(0, uploaded) /\ UNCHANGED main
     \/ main' = "done" /\ UNCHANGED refs
  /\ UNCHANGED <<turnVars, cameraVars, frame, threadVars, quit>>

-----------------------------------------------------------------------------
\* The uploading thread.

Check ==
  /\ upc = "check" /\ Running
  /\ upc' = IF quit THEN "ended" ELSE "wait"
  /\ UNCHANGED <<turnVars, cameraVars, refs, frame, uploaded, busy, message, held,
                 late, quit, main>>

\* Woken; the argument of addref_frame is read before frame_mutex is locked.
ReadFrame ==
  /\ upc = "woken" /\ Running
  /\ IF busy \/ frame = 0
     THEN upc' = "check" /\ UNCHANGED held
     ELSE upc' = "addref" /\ held' = frame
  /\ UNCHANGED <<turnVars, cameraVars, refs, frame, uploaded, busy, message, late,
                 quit, main>>

CountedHeld == refs' = Counted(held, uploaded)

\* A picture freed meanwhile is read after free: nothing is known from there on.
AddRef ==
  /\ upc = "addref" /\ Running
  /\ IF refs[held] = 0
     THEN main' = "undefined" /\ UNCHANGED <<upc, refs, uploaded>>
     ELSE upc' = "post" /\ CountedHeld /\ uploaded' = held /\ UNCHANGED main
  /\ held' = 0
  /\ UNCHANGED <<turnVars, cameraVars, frame, busy, message, late, quit>>

Post ==
  /\ upc = "post" /\ Running
  /\ busy' = TRUE /\ message' = uploaded
  /\ upc' = "check"
  /\ UNCHANGED <<turnVars, cameraVars, refs, frame, uploaded, held, late, quit,
                 main>>

-----------------------------------------------------------------------------
\* The main loop ends: camera_manager_free takes the sources down, sets quit and
\* broadcasts without cond_mutex, and joins the thread.
Stop ==
  /\ main = "run"
  /\ main' = "join" /\ quit' = TRUE
  /\ upc' = IF upc = "wait" THEN "woken" ELSE upc
  /\ late' = FALSE
  /\ pipeline' = [c \in Index |-> FALSE]
  /\ UNCHANGED <<turnVars, playing, sized, current, faults, refs, frame, uploaded,
                 busy, message, held>>

\* The same where the thread has seen no quit and is about to wait.
StopMissed ==
  /\ main = "run" /\ upc = "check"
  /\ main' = "join" /\ quit' = TRUE
  /\ upc' = "wait" /\ late' = TRUE
  /\ pipeline' = [c \in Index |-> FALSE]
  /\ UNCHANGED <<turnVars, playing, sized, current, faults, refs, frame, uploaded,
                 busy, message, held>>

Join ==
  /\ main = "join" /\ upc = "ended"
  /\ main' = "done"
  /\ refs' = [p \in Pictures |->
               refs[p] - (IF p = frame THEN 1 ELSE 0) - (IF p = uploaded THEN 1 ELSE 0)]
  /\ frame' = 0 /\ uploaded' = 0
  /\ UNCHANGED <<turnVars, cameraVars, busy, message, threadVars, quit>>

Timer == Signal \/ SendBlank \/ SendPicture \/ SendNothing \/ Retry(TRUE) \/ Retry(FALSE)
Thread == Check \/ ReadFrame \/ AddRef \/ Post

Next ==
  \/ \E c \in Index : NewSample(c) \/ StateChanged(c) \/ OnError(c) \/ OnEos(c)
  \/ Start \/ Second \/ Timer \/ UploadFinished \/ Thread \/ Stop \/ StopMissed \/ Join

Spec == Init /\ [][Next]_vars

\* The main loop and the thread run on.
Fairness ==
  /\ WF_vars(Second) /\ WF_vars(Timer) /\ WF_vars(Thread) /\ WF_vars(Join)

LiveSpec == Spec /\ Fairness

-----------------------------------------------------------------------------
TypeOK ==
  /\ index \in Index /\ seconds \in 0 .. Interval + 1
  /\ pipeline \in [Index -> BOOLEAN] /\ playing \in [Index -> BOOLEAN]
  /\ sized \in [Index -> BOOLEAN]
  /\ current \in [Index -> 0 .. MaxPictures]
  /\ refs \in [Pictures -> Nat]
  /\ frame \in 0 .. MaxPictures /\ uploaded \in 0 .. MaxPictures /\ message \in 0 .. MaxPictures
  /\ held \in 0 .. MaxPictures
  /\ busy \in BOOLEAN /\ quit \in BOOLEAN /\ late \in BOOLEAN
  /\ upc \in {"check", "wait", "woken", "addref", "post", "ended"}
  /\ main \in {"new", "run", "signal", "join", "done", "undefined"}

\* The bytes of a message in flight, which it does not own, live until the
\* answer: they belong to mgr->current_frame (camera-switch.c:236).
MessageLives == Running /\ message # 0 => message = uploaded /\ refs[message] > 0

\* A picture is kept by the cameras, the manager and the upload that refer to it,
\* and by nobody else (camera-switch.c:245-277): nothing leaks.
RefsAreOwners == main \in {"run", "signal"} => \A p \in Pictures :
  refs[p] = Cardinality({c \in Index : current[c] = p})
            + (IF frame = p THEN 1 ELSE 0) + (IF uploaded = p THEN 1 ELSE 0)

\* Cameras take turns whatever happens to their pipelines (camera-switch.c:416).
EveryCameraHasItsTurn ==
  \A c \in Index : main \in {"run", "signal"} ~> index = c \/ main \notin {"run", "signal"}
=============================================================================
