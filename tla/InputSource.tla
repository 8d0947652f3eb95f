---------------------------- MODULE InputSource ----------------------------
(***************************************************************************)
(* The video and picture sources of src/plugins/io/input-source.c, run as  *)
(* the default plugin (src/plugins/io/default-plugin.c) on the frame       *)
(* buffer of its io_input.                                                 *)
(*                                                                         *)
(* A video is a GStreamer pipeline whose streaming thread hands each frame *)
(* to set_frame; a picture is handed over once, by the thread that sets    *)
(* the uri.  set_uri makes a new pipeline and forgets the one before, also *)
(* when that is still playing: the frame buffer, which has no lock around  *)
(* its copy, needs the program to stop a source before it sets another.    *)
(* The writers of the frame buffer are the pipelines and the main thread.  *)
(***************************************************************************)
EXTENDS FrameBuffer

CONSTANTS Main,         \* the thread that calls the plugin
          Disciplined   \* TRUE: the program stops a source before set_uri

ASSUME MainAssumption == Main \in Writers
ASSUME DisciplinedAssumption == Disciplined \in BOOLEAN

VARIABLES kind,     \* input->type: which play, stop and pause are set
          current,  \* video_src->pipeline
          pipe      \* state of every pipeline that was or will be made

sourceVars == <<kind, current, pipe>>
inputVars == <<vars, sourceVars>>

Pipelines == Writers \ {Main}

SourceInit ==
  /\ Init
  /\ kind = "none"
  /\ current = None
  /\ pipe = [p \in Pipelines |-> "none"]

\* A pipeline hands over frames while it plays, and one more as it pauses.
Streaming(p) == pipe[p] \in {"playing", "pausing"}
MainIdle == pc[Main] = "idle"

\* The streaming thread: video_source_on_bgra_filter -> on_new_frame -> set_frame.
PipelineFrame(p) ==
  /\ Streaming(p)
  /\ SetCall(p)
  /\ pipe' = [pipe EXCEPT ![p] = IF @ = "pausing" THEN "paused" ELSE @]
  /\ UNCHANGED <<kind, current>>

CopyStep(w) == (SetPixels(w) \/ SetHead(w) \/ SetPublish(w)) /\ UNCHANGED sourceVars

Consumer(r) == Get(r) /\ UNCHANGED sourceVars

\* What the program has to see to, and input-source.c does not.
MaySetUri == MainIdle /\ (Disciplined => \A p \in Pipelines : pipe[p] \in {"none", "stopped"})

\* set_uri of a video: play, stop and pause are those of videos from here on; the
\* pipeline is new, or the old one when gst_parse_launch fails.
SetVideo ==
  /\ MaySetUri
  /\ kind' = "video"
  /\ \/ UNCHANGED <<current, pipe>>
     \/ \E p \in Pipelines : /\ pipe[p] = "none"
                             /\ pipe' = [pipe EXCEPT ![p] = "ready"]
                             /\ current' = p
  /\ UNCHANGED vars

\* set_uri of a picture: its path is stored over the pipeline of the union, and
\* the picture is handed over at once, if it can be read.
SetPicture ==
  /\ MaySetUri
  /\ kind' = "picture"
  /\ current' = None
  /\ SetCall(Main) \/ UNCHANGED vars
  /\ UNCHANGED pipe

\* play, stop and pause do nothing for pictures and fail without a pipeline.
HasPipeline == MainIdle /\ kind = "video" /\ current # None

Play ==
  /\ HasPipeline
  /\ pipe' = [pipe EXCEPT ![current] = "playing"]
  /\ UNCHANGED <<vars, kind, current>>

Pause ==
  /\ HasPipeline
  /\ pipe[current] \in {"ready", "playing"}
  /\ pipe' = [pipe EXCEPT ![current] = "pausing"]
  /\ UNCHANGED <<vars, kind, current>>

\* set_state(NULL) returns when the streaming thread has returned from its callback.
StopAtOnce ==
  /\ HasPipeline
  /\ pipe' = [pipe EXCEPT ![current] = "stopped"]
  /\ current' = None
  /\ UNCHANGED <<vars, kind>>

Stop ==
  /\ HasPipeline
  /\ pc[current] = "idle"
  /\ pipe' = [pipe EXCEPT ![current] = "stopped"]
  /\ current' = None
  /\ UNCHANGED <<vars, kind>>

\* message::error of any pipeline: the main loop calls input->stop, which stops
\* the pipeline that is current by then.
Error(p) == pipe[p] \notin {"none", "stopped"} /\ Stop

SourceNext ==
  \/ \E p \in Pipelines : PipelineFrame(p) \/ Error(p)
  \/ \E w \in Writers : CopyStep(w)
  \/ \E r \in Readers : Consumer(r)
  \/ SetVideo \/ SetPicture \/ Play \/ Pause \/ Stop

SourceSpec == SourceInit /\ [][SourceNext]_inputVars

-----------------------------------------------------------------------------
SourceTypeOK ==
  /\ TypeOK
  /\ kind \in {"none", "video", "picture"}
  /\ current \in Pipelines \cup {None}
  /\ pipe \in [Pipelines -> {"none", "ready", "playing", "pausing", "paused", "stopped"}]

\* Sources take turns: two set_frame calls never overlap, which is what the copy
\* without the mutex relies on (io-input.c:82).  A program that stops a source
\* before it sets another gets this from stop, which waits for the last frame.
SourcesTakeTurns == \A a, b \in Writers : Setting(a) /\ Setting(b) => a = b
=============================================================================
