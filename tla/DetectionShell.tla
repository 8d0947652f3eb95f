--------------------------- MODULE DetectionShell ---------------------------
(***************************************************************************)
(* demo/demo-02.c with the ai server (demo/ai-server.c) it asks: a window  *)
(* that shows a video with what is detected in it.  The input's thread     *)
(* offers pictures (on_new_frame), the ai thread sends one at a time to    *)
(* the server, and the main loop draws the picture with the answer, plays, *)
(* pauses and ends.  shell->mutex guards the hand-over; is_busy keeps the  *)
(* picture from being replaced while it is encoded without the mutex.      *)
(***************************************************************************)
EXTENDS Naturals

CONSTANTS MaxFrames,   \* bound: pictures the input offers
          MaxSpurious  \* bound: spurious wake-ups of the ai thread

VARIABLES
  pc,        \* where ai_thread is
  held,      \* ai_thread holds shell->mutex
  busy,      \* shell->is_busy
  quit,      \* shell->quit
  offered,   \* pictures offered so far
  frame,     \* shell->frame, 0 before the first
  encoding,  \* the picture ai_request began to encode
  result,    \* shell->jresult: the picture it is about, something found in it?
  answered,  \* ghost: the last request was answered
  idles,     \* on_idle callbacks waiting in the main loop
  drawn,     \* panel->surface: the picture and the result drawn over it
  dets,      \* shell->dets: the picture they were found in
  tips,      \* shell->tips: NoTips, or the picture shown with a description
  playing,   \* the input runs; the pause button is sensitive
  main,      \* where main is
  lost,      \* ghost: a signal or broadcast came before ai_thread waited
  crashed,
  spurious

vars == <<pc, held, busy, quit, offered, frame, encoding, result, answered, idles, drawn,
          dets, tips, playing, main, lost, crashed, spurious>>

NoTips == 0
NoResult == [of |-> 0, found |-> FALSE]

\* shell_context_new
Init ==
  /\ pc = "none" /\ held = FALSE /\ busy = FALSE /\ quit = FALSE
  /\ offered = 0 /\ frame = 0 /\ encoding = 0
  /\ result = NoResult /\ answered = FALSE /\ idles = 0
  /\ drawn = [frame |-> 0, result |-> NoResult] /\ dets = 0 /\ tips = NoTips
  /\ playing = FALSE /\ main = "new"
  /\ lost = FALSE /\ crashed = FALSE /\ spurious = 0

\* shell_context_init creates ai_thread; then the input runs.
ShellInit ==
  /\ main = "new" /\ main' = "loop"
  /\ pc' = "new" /\ playing' = TRUE
  /\ UNCHANGED <<held, busy, quit, offered, frame, encoding, result, answered, idles, drawn,
                 dets, tips, lost, crashed, spurious>>

SignalNobody == UNCHANGED <<pc, lost>>

\* pthread_cond_signal and pthread_cond_broadcast: one thread waits at most.
SignalWorker ==
  /\ pc' = IF pc = "waiting" THEN "signalled" ELSE pc
  /\ lost' = (lost \/ pc \in {"new", "beforewait"})

-----------------------------------------------------------------------------
\* on_new_frame, on the thread of the input: a picture is taken unless one is
\* under way.

AcceptAlways == TRUE

Accept == ~busy

OnNewFrame ==
  /\ playing /\ ~held
  /\ offered < MaxFrames
  /\ offered' = offered + 1
  /\ IF Accept
     THEN /\ busy' = TRUE
          /\ frame' = offered + 1
          /\ SignalWorker
     ELSE UNCHANGED <<busy, frame, pc, lost>>
  /\ UNCHANGED <<held, quit, encoding, result, answered, idles, drawn, dets, tips, playing,
                 main, crashed, spurious>>

-----------------------------------------------------------------------------
\* ai_thread

Worker(from, to) == pc = from /\ pc' = to

Begin ==
  /\ Worker("new", "check")
  /\ ~held /\ held' = TRUE
  /\ UNCHANGED <<busy, quit, offered, frame, encoding, result, answered, idles, drawn, dets,
                 tips, playing, main, lost, crashed, spurious>>

\* while(!quit): the mutex is held from here to the wait.
Check ==
  /\ Worker("check", IF quit THEN "ended" ELSE "beforewait")
  /\ held' = ~quit
  /\ UNCHANGED <<busy, quit, offered, frame, encoding, result, answered, idles, drawn, dets,
                 tips, playing, main, lost, crashed, spurious>>

Wait ==
  /\ Worker("beforewait", "waiting")
  /\ held' = FALSE
  /\ UNCHANGED <<busy, quit, offered, frame, encoding, result, answered, idles, drawn, dets,
                 tips, playing, main, lost, crashed, spurious>>

Spurious ==
  /\ Worker("waiting", "signalled")
  /\ spurious < MaxSpurious
  /\ spurious' = spurious + 1
  /\ UNCHANGED <<held, busy, quit, offered, frame, encoding, result, answered, idles, drawn,
                 dets, tips, playing, main, lost, crashed>>

\* ai_request begins; it asserts that there is a picture to encode.
Wake ==
  /\ Worker("signalled", IF quit THEN "ended" ELSE "encode")
  /\ ~held
  /\ IF quit
     THEN UNCHANGED <<busy, encoding, crashed>>
     ELSE /\ busy' = TRUE
          /\ encoding' = frame
          /\ crashed' = (frame = 0)
  /\ UNCHANGED <<held, quit, offered, frame, result, answered, idles, drawn, dets, tips,
                 playing, main, lost, spurious>>

Encoded ==
  /\ Worker("encode", "request")
  /\ answered' = FALSE
  /\ UNCHANGED <<held, busy, quit, offered, frame, encoding, result, idles, drawn, dets, tips,
                 playing, main, lost, crashed, spurious>>

\* on_request_ai_engine: what the engine detects, or an err_code when that is
\* nothing.
Predict(picture) == {[of |-> picture, found |-> found] : found \in BOOLEAN}

\* on_response stores the answer under the mutex.
OnResponse ==
  /\ Worker("request", "relock")
  /\ ~held
  /\ result' \in Predict(encoding)
  /\ answered' = TRUE
  /\ UNCHANGED <<held, busy, quit, offered, frame, encoding, idles, drawn, dets, tips,
                 playing, main, lost, crashed, spurious>>

\* No answer, or none that can be parsed.
Fail ==
  /\ Worker("request", "relock")
  /\ UNCHANGED <<held, busy, quit, offered, frame, encoding, result, answered, idles, drawn,
                 dets, tips, playing, main, lost, crashed, spurious>>

Relock ==
  /\ Worker("relock", "check")
  /\ ~held /\ held' = TRUE
  /\ idles' = idles + 1
  /\ UNCHANGED <<busy, quit, offered, frame, encoding, result, answered, drawn, dets, tips,
                 playing, main, lost, crashed, spurious>>

Thread == Begin \/ Check \/ Wait \/ Wake \/ Encoded \/ OnResponse \/ Fail \/ Relock

-----------------------------------------------------------------------------
\* The main loop.

\* on_idle and draw_frame.  The detections are kept when the answer has none.
OnIdle ==
  /\ main = "loop" /\ idles > 0 /\ ~held
  /\ idles' = idles - 1
  /\ busy' = FALSE
  /\ drawn' = [frame |-> frame, result |-> result]
  /\ dets' = IF result.found THEN result.of ELSE dets
  /\ UNCHANGED <<pc, held, quit, offered, frame, encoding, result, answered, tips, playing,
                 main, lost, crashed, spurious>>

\* on_mouse_move: the tips show the picture of now, with a description when the
\* mouse is over a detection.
MouseMove ==
  /\ main = "loop" /\ ~held /\ dets # 0
  /\ tips' \in {NoTips, drawn.frame}
  /\ UNCHANGED <<pc, held, busy, quit, offered, frame, encoding, result, answered, idles,
                 drawn, dets, playing, main, lost, crashed, spurious>>

\* on_leave_notify
Leave ==
  /\ main = "loop" /\ tips # NoTips
  /\ tips' = NoTips
  /\ UNCHANGED <<pc, held, busy, quit, offered, frame, encoding, result, answered, idles,
                 drawn, dets, playing, main, lost, crashed, spurious>>

Press(from) ==
  /\ main = "loop" /\ playing = from
  /\ playing' = ~from
  /\ UNCHANGED <<pc, held, busy, quit, offered, frame, encoding, result, answered, idles,
                 drawn, dets, tips, main, lost, crashed, spurious>>

OnPauseClicked == Press(TRUE)
OnPlayClicked == Press(FALSE)

\* shell_stop, when the window is destroyed: the input stops, gtk_main ends.
ShellStop ==
  /\ main = "loop"
  /\ main' = "quit"
  /\ playing' = FALSE
  /\ UNCHANGED <<pc, held, busy, quit, offered, frame, encoding, result, answered, idles,
                 drawn, dets, tips, lost, crashed, spurious>>

\* main sets quit and later broadcasts, both without the mutex.
Quit ==
  /\ main = "quit"
  /\ main' = "cleanup"
  /\ quit' = TRUE
  /\ UNCHANGED <<pc, held, busy, offered, frame, encoding, result, answered, idles, drawn,
                 dets, tips, playing, lost, crashed, spurious>>

CleanupSilently ==
  /\ main = "cleanup"
  /\ main' = "join"
  /\ UNCHANGED <<pc, lost, held, busy, quit, offered, frame, encoding, result, answered, idles,
                 drawn, dets, tips, playing, crashed, spurious>>

Cleanup ==
  /\ main = "cleanup"
  /\ main' = "join"
  /\ SignalWorker
  /\ UNCHANGED <<held, busy, quit, offered, frame, encoding, result, answered, idles, drawn,
                 dets, tips, playing, crashed, spurious>>

Join ==
  /\ main = "join" /\ pc = "ended"
  /\ main' = "done"
  /\ UNCHANGED <<pc, held, busy, quit, offered, frame, encoding, result, answered, idles,
                 drawn, dets, tips, playing, lost, crashed, spurious>>

Ending == Quit \/ Cleanup \/ Join
Loop == OnIdle \/ MouseMove \/ Leave \/ OnPauseClicked \/ OnPlayClicked \/ ShellStop

Next == ~crashed /\ (ShellInit \/ OnNewFrame \/ Thread \/ Spurious \/ Loop \/ Ending)

\* The threads run, every request ends, GLib calls what is queued.  Nobody has
\* to close the window, and the input need not offer anything.
ThreadRuns == ~crashed /\ (Begin \/ Check \/ Wait \/ Encoded \/ OnResponse \/ Fail)
ThreadLocks == ~crashed /\ (Wake \/ Relock)
IdleRuns == ~crashed /\ OnIdle
MainEnds == ~crashed /\ Ending

Fairness ==
  WF_vars(ThreadRuns) /\ WF_vars(ThreadLocks) /\ WF_vars(IdleRuns) /\ WF_vars(MainEnds)

Spec == Init /\ [][Next]_vars
LiveSpec == Spec /\ Fairness

-----------------------------------------------------------------------------
\* Every variable has its type; the ai thread holds the mutex exactly between the
\* end of a request and its wait (demo-02.c:326-341).
TypeOK ==
  /\ pc \in {"none", "new", "check", "beforewait", "waiting", "signalled", "encode", "request",
             "relock", "ended"}
  /\ (held <=> pc \in {"check", "beforewait"})
  /\ {held, busy, quit, answered, playing, lost, crashed} \subseteq BOOLEAN
  /\ {offered, frame, encoding, dets, tips} \subseteq 0 .. MaxFrames
  /\ result \in [of : 0 .. MaxFrames, found : BOOLEAN]
  /\ drawn \in [frame : 0 .. MaxFrames, result : [of : 0 .. MaxFrames, found : BOOLEAN]]
  /\ idles \in 0 .. 1 + MaxSpurious
  /\ main \in {"new", "loop", "quit", "cleanup", "join", "done"}
  /\ spurious \in 0 .. MaxSpurious

\* The picture is read without the mutex (demo-02.c:334) and yet it is never
\* replaced meanwhile, and an answered picture is drawn with its own answer: is_busy
\* covers both the request and the drawing, over two threads and an idle callback.
\* It does so only as long as pthread_cond_wait does not return spuriously.
OwnPicture == spurious = 0 =>
  /\ pc \in {"encode", "request", "relock"} => frame = encoding
  /\ idles > 0 /\ pc \in {"check", "beforewait", "waiting"} /\ answered
       => frame = result.of

\* pthread_cond_wait has no predicate (demo-02.c:329).  A picture that is taken
\* while the thread waits is drawn all the same, unless the window is closed
\* or a signal came before the thread waited for the first time.
TakenIsDrawn ==
  \A f \in 1 .. MaxFrames :
    frame = f ~> drawn.frame = f \/ main # "loop" \/ lost \/ crashed

\* Closing the window ends the program, whatever the thread is doing, except when
\* the broadcast falls between its test of quit and its wait (demo-02.c:414).
Stopping == main = "quit"
Stopped == main = "done" \/ lost \/ crashed
=============================================================================
