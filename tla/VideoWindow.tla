----------------------------- MODULE VideoWindow ----------------------------
(***************************************************************************)
(* A video source (utils/video_source_common.c) and the window that plays  *)
(* it (the same file, TEST_VIDEO_SOURCE_COMMON_): an entry for the uri,    *)
(* buttons for play and stop, a timer that draws.  The main loop waits for *)
(* the thread of the pipeline whenever it sets the pipeline to NULL; they  *)
(* share current_frame, guarded by video->mutex, and the counts of         *)
(* references, which the window decrements without the mutex.              *)
(***************************************************************************)
EXTENDS Naturals, Sequences

CONSTANTS Uris,       \* what is entered
          Valid,      \* uris of a known type
          None,
          MaxFrames,  \* bound: samples
          MaxChanges, \* bound: uris entered
          MaxNews     \* bound: messages waiting on the bus

VARIABLES
  uri,        \* video->uri
  entered,    \* the uri the main loop is about to set
  changed,    \* video->settings_changed
  pipe,       \* video->pipeline: its uri and its state, NoPipe if NULL
  ended,      \* the pipeline has no more samples
  bus,        \* messages for the main loop
  playable,   \* play_btn is sensitive
  stoppable,  \* stop_btn is sensitive
  main,       \* where the main loop is
  held,       \* the frame on_timeout holds
  read,       \* the count on_timeout read
  shown,      \* da_surface
  thread,     \* where the thread of the pipeline is
  made,       \* the frame it has made
  old,        \* the count of current_frame it read
  current,    \* video->current_frame
  refs,       \* frame->refs
  freed,
  frames, changes,
  raced,      \* ghost: two threads read one count before either wrote it
  crashed     \* an assertion failed

vars == <<uri, entered, changed, pipe, ended, bus, playable, stoppable, main, held, read,
          shown, thread, made, old, current, refs, freed, frames, changes, raced, crashed>>

NoFrame == 0
NoPipe == [uri |-> None, state |-> "null"]
On(u, state) == [uri |-> u, state |-> state]
AllFrames == 1 .. MaxFrames

sourceVars == <<uri, entered, changed, pipe, changes>>
buttonVars == <<playable, stoppable>>
timerVars == <<held, read, shown>>
threadVars == <<thread, made, old, frames>>
frameVars == <<current, refs, freed, raced>>

Init ==
  /\ uri \in Uris /\ entered = uri /\ changed = TRUE
  /\ pipe = NoPipe /\ ended = FALSE /\ bus = <<>>
  /\ playable = TRUE /\ stoppable = TRUE
  /\ main = "new" /\ held = NoFrame /\ read = 0 /\ shown = NoFrame
  /\ thread = "idle" /\ made = NoFrame /\ old = 0
  /\ current = NoFrame /\ refs = [f \in AllFrames |-> 0] /\ freed = {}
  /\ frames = 0 /\ changes = 0 /\ raced = FALSE /\ crashed = FALSE

-----------------------------------------------------------------------------
\* What GStreamer posts on the bus while a pipeline rises to a state.
Risen(from, to) ==
  CASE from = to -> <<>>
    [] to = "playing" /\ from # "paused" -> <<"paused", "playing">>
    [] OTHER -> <<to>>

Post(messages) ==
  /\ Len(bus) + Len(messages) <= MaxNews
  /\ bus' = bus \o messages

\* video_init and relaunch_pipeline: set_resolution, called with the size the source
\* has, clears settings_changed before it is tested, and an invalid uri leaves the old
\* pipeline, set to NULL by video_stop, in its place.
Launched(u, p) == IF u \in Valid THEN On(u, "ready") ELSE p

\* video_play, given the pipeline and its bus: init comes first when the settings
\* have changed; a pipeline that cannot play fails an assertion.
Play(u, anew, given, news) ==
  LET invalid == anew /\ u \notin Valid
      p == IF anew THEN Launched(u, given) ELSE given
      risen == Risen(p.state, "playing")
  IN /\ changed' = FALSE
     /\ IF invalid \/ p = NoPipe
        THEN pipe' = p /\ bus' = news /\ UNCHANGED crashed
        ELSE /\ pipe' = On(p.uri, "playing")
             /\ bus' = (IF anew THEN risen ELSE news \o risen)
             /\ crashed' \in {FALSE, p.state # "playing"}
     /\ ended' = (ended /\ p.state \in {"paused", "playing"})
     /\ Len(bus') <= MaxNews

\* main: init and play must both succeed.
Start ==
  /\ main = "new" /\ main' = "loop"
  /\ IF uri \in Valid
     THEN Play(uri, changed, pipe, bus)
     ELSE crashed' = TRUE /\ UNCHANGED <<changed, pipe, ended, bus>>
  /\ UNCHANGED <<uri, entered, changes, buttonVars, timerVars, threadVars, frameVars>>

\* on_play
OnPlay ==
  /\ main = "loop" /\ playable
  /\ Play(uri, changed, pipe, bus)
  /\ UNCHANGED <<uri, entered, changes, main, buttonVars, timerVars, threadVars, frameVars>>

\* on_stop calls video_pause; from NULL that prerolls a pipeline again.
OnStop ==
  /\ main = "loop" /\ stoppable
  /\ pipe # NoPipe
  /\ Post(Risen(pipe.state, "paused"))
  /\ pipe' = [pipe EXCEPT !.state = "paused"]
  /\ ended' = (ended /\ pipe.state # "null")
  /\ UNCHANGED <<uri, entered, changed, changes, main, buttonVars, timerVars, threadVars,
                 frameVars, crashed>>

\* on_position_changed: a seek goes on after the end.
Seek ==
  /\ main = "loop" /\ pipe.state \in {"paused", "playing"}
  /\ "error" \notin {bus[i] : i \in DOMAIN bus}
  /\ ended' = FALSE
  /\ UNCHANGED <<sourceVars, bus, main, buttonVars, timerVars, threadVars, frameVars, crashed>>

-----------------------------------------------------------------------------
\* The main loop sets the pipeline to NULL and waits until its thread is idle.
Wait(what) ==
  /\ main = "loop" /\ main' = what
  /\ UNCHANGED <<buttonVars, timerVars, threadVars, frameVars, crashed, ended>>

\* on_uri_changed of the entry
OnUriChanged(u) ==
  /\ Wait("change") /\ changes < MaxChanges
  /\ entered' = u /\ changes' = changes + 1
  /\ UNCHANGED <<uri, changed, pipe, bus>>

\* shell_stop: quit, and video_source_common_cleanup.
ShellStop ==
  /\ Wait("close")
  /\ UNCHANGED <<sourceVars, bus>>

\* on_pipeline_error: the source lets go of the pipeline first.
OnError ==
  /\ bus # <<>> /\ Head(bus) = "error"
  /\ Wait("fail")
  /\ changed' = TRUE /\ pipe' = NoPipe /\ bus' = <<>>
  /\ UNCHANGED <<uri, entered, changes>>

\* video_set_uri
SettingsKept == changed

SettingsChanged == TRUE

\* video_stop has returned, and its messages are gone; then video_set_uri and
\* video_play.
Change ==
  /\ main = "change" /\ thread = "idle"
  /\ main' = "loop" /\ uri' = entered
  /\ Play(entered, SettingsChanged, [pipe EXCEPT !.state = "null"], <<>>)
  /\ UNCHANGED <<entered, changes, buttonVars, timerVars, threadVars, frameVars>>

\* The other two waits end.
Joined ==
  /\ main \in {"fail", "close"} /\ thread = "idle"
  /\ main' = IF main = "close" THEN "done" ELSE "loop"
  /\ pipe' = NoPipe /\ bus' = <<>>
  /\ UNCHANGED <<uri, entered, changed, changes, ended, buttonVars, timerVars, threadVars,
                 frameVars, crashed>>

\* on_pipeline_state_changed and on_state_changed of the window
OnStateChanged ==
  /\ main = "loop" /\ bus # <<>> /\ Head(bus) # "error"
  /\ playable' = (Head(bus) # "playing")
  /\ stoppable' = (Head(bus) = "playing")
  /\ bus' = Tail(bus)
  /\ UNCHANGED <<sourceVars, main, ended, timerVars, threadVars, frameVars, crashed>>

\* The pipeline fails or comes to its end (message::eos changes nothing but err_code).
Fails ==
  /\ pipe.state \in {"paused", "playing"} /\ ~ended
  /\ Post(<<"error">>)
  /\ ended' = TRUE
  /\ UNCHANGED <<sourceVars, main, buttonVars, timerVars, threadVars, frameVars, crashed>>

Ends ==
  /\ pipe.state = "playing" /\ ~ended /\ thread = "idle"
  /\ ended' = TRUE
  /\ UNCHANGED <<sourceVars, main, bus, buttonVars, timerVars, threadVars, frameVars, crashed>>

-----------------------------------------------------------------------------
\* on_app_sink_new_sample, on the thread of the pipeline: a frame is made, then
\* replaces current_frame under the mutex.
NewSample ==
  /\ thread = "idle" /\ pipe.state = "playing" /\ ~ended /\ frames < MaxFrames
  /\ thread' = "made" /\ made' = frames + 1 /\ frames' = frames + 1
  /\ refs' = [refs EXCEPT ![frames + 1] = 1]
  /\ UNCHANGED <<sourceVars, main, ended, bus, buttonVars, timerVars, old, current, freed,
                 raced, crashed>>

\* video_frame_unref in two steps: the count is read, and written back.
Unref(f, count) ==
  /\ refs' = [refs EXCEPT ![f] = count - 1]
  /\ freed' = IF count = 1 THEN freed \cup {f} ELSE freed

Lock ==
  /\ thread = "made"
  /\ IF current = NoFrame
     THEN thread' = "idle" /\ current' = made /\ made' = NoFrame /\ UNCHANGED <<old, raced>>
     ELSE /\ thread' = "swap" /\ old' = refs[current]
          /\ raced' = (raced \/ (main = "unref" /\ held = current))
          /\ UNCHANGED <<current, made>>
  /\ UNCHANGED <<sourceVars, main, ended, bus, buttonVars, timerVars, frames, refs, freed,
                 crashed>>

Swap ==
  /\ thread = "swap" /\ thread' = "idle"
  /\ Unref(current, old)
  /\ current' = made /\ made' = NoFrame /\ old' = 0
  /\ UNCHANGED <<sourceVars, main, ended, bus, buttonVars, timerVars, frames, raced, crashed>>

\* video_frame_addref
Addref(f) == [refs EXCEPT ![f] = @ + 1]

\* on_timeout: get_frame under the mutex, drawing, and unref without it.
OnTimeout ==
  /\ main = "loop" /\ pipe # NoPipe /\ current # NoFrame
  /\ thread # "swap"
  /\ main' = "draw" /\ held' = current
  /\ refs' = Addref(current)
  /\ UNCHANGED <<sourceVars, ended, bus, buttonVars, read, shown, threadVars, current, freed,
                 raced, crashed>>

Draw ==
  /\ main = "draw" /\ main' = "unref"
  /\ shown' = held /\ read' = refs[held]
  /\ raced' = (raced \/ (thread = "swap" /\ held = current))
  /\ UNCHANGED <<sourceVars, ended, bus, buttonVars, held, threadVars, current, refs, freed,
                 crashed>>

Drawn ==
  /\ main = "unref" /\ main' = "loop"
  /\ Unref(held, read)
  /\ held' = NoFrame /\ read' = 0
  /\ UNCHANGED <<sourceVars, ended, bus, buttonVars, shown, threadVars, current, raced,
                 crashed>>

-----------------------------------------------------------------------------
Thread == NewSample \/ Lock \/ Swap
Timer == OnTimeout \/ Draw \/ Drawn
Loop == Change \/ Joined \/ OnStateChanged \/ OnError
User == OnPlay \/ OnStop \/ Seek \/ ShellStop \/ \E u \in Uris : OnUriChanged(u)

Next == ~crashed /\ (Start \/ Thread \/ Timer \/ Loop \/ User \/ Fails \/ Ends)

\* What runs by itself: the thread of the pipeline ends what it has begun, and the
\* main loop goes on when it may.
ThreadRuns == ~crashed /\ (Lock \/ Swap)
MainGoesOn == ~crashed /\ (Change \/ Joined)

Spec == Init /\ [][Next]_vars

-----------------------------------------------------------------------------
\* Every variable has its type.
TypeOK ==
  /\ {uri, entered} \subseteq Uris
  /\ {changed, ended, playable, stoppable, raced, crashed} \subseteq BOOLEAN
  /\ pipe \in [uri : Uris \cup {None}, state : {"null", "paused", "playing"}]
  /\ bus \in Seq({"paused", "playing", "error"}) /\ Len(bus) <= MaxNews
  /\ main \in {"new", "loop", "change", "fail", "close", "done", "draw", "unref"}
  /\ thread \in {"idle", "made", "swap"}
  /\ {held, shown, made, current} \subseteq {NoFrame} \cup AllFrames
  /\ refs \in [AllFrames -> 0 .. 3] /\ {read, old} \subseteq 0 .. 3
  /\ freed \subseteq AllFrames
  /\ frames \in 0 .. MaxFrames /\ changes \in 0 .. MaxChanges

\* The window never plays another video than the entry says, over errors, changes
\* while a frame is under way, and buttons pressed before the state is known, but
\* for one case: an invalid uri leaves the old pipeline (video_source_common.c:628),
\* which Stop and Play start again.
OwnVideo ==
  pipe.state = "playing" => pipe.uri = uri \/ uri \notin Valid

\* A frame lives while the source, the thread or the window holds it, and no longer,
\* unless the window's unref (video_source_common.c:1030) and the one of a new sample
\* (477) read one count.  Even then no frame in use is freed: the frame leaks.
Owners(f) ==
  (IF f = current THEN 1 ELSE 0) + (IF f = held THEN 1 ELSE 0) + (IF f = made THEN 1 ELSE 0)

FramesAreHeld ==
  /\ {held, made, current} \cap freed = {}
  /\ ~raced => \A f \in 1 .. frames : refs[f] = Owners(f) /\ (f \in freed <=> refs[f] = 0)

\* Setting a pipeline to NULL waits for its thread, which may wait for the mutex
\* (video_source_common.c:476): it always comes to its end.
Stopping == main \in {"change", "fail", "close"}
Stopped == main \in {"loop", "done"} \/ crashed
=============================================================================
