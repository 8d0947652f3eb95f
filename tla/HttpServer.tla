----------------------------- MODULE HttpServer -----------------------------
(***************************************************************************)
(* The http server plugin (src/plugins/io/http-server.c) on top of its     *)
(* io_input's frame buffer.  The main loop pauses each request and starts  *)
(* a detached thread for it: POST hands a picture to set_frame, GET asks   *)
(* get_frame for the latest one, and the thread then unpauses the message, *)
(* which lets the main loop send the answer.                               *)
(*                                                                         *)
(* Writers are the session threads of POST (and PUT), Readers those of     *)
(* GET; a session name is free again when its answer has been sent.        *)
(***************************************************************************)
EXTENDS FrameBuffer

CONSTANT ThreadsMayFail   \* pthread_create of a session may fail

ASSUME ThreadsMayFailAssumption == ThreadsMayFail \in BOOLEAN

VARIABLES session,  \* where each session is
          status,   \* its answer: 200, 400 of on_get, or refused (400, 403, 404)
          acked,    \* newest frame whose POST has been answered
          floor     \* value of acked when a GET was sent

sessionVars == <<session, status, acked, floor>>
allVars == <<vars, sessionVars>>

HttpInit ==
  /\ Init
  /\ session = [t \in Threads |-> "none"]
  /\ status = [t \in Threads |-> "none"]
  /\ acked = 0
  /\ floor = [r \in Readers |-> 0]

Goto(t, from, to) == session[t] = from /\ session' = [session EXCEPT ![t] = to]

\* A wrong path, a body of MAX_HTTP_SESSION_BUFFER_SIZE or more or another
\* method: answered by the main loop, without a session.
Refuse(t) ==
  /\ Goto(t, "none", "answered")
  /\ status' = [status EXCEPT ![t] = "refused"]
  /\ UNCHANGED <<vars, acked, floor>>

\* Everything else: the message is paused and a session thread started.
Accept(t) ==
  /\ Goto(t, "none", "started")
  /\ floor' = IF t \in Readers THEN [floor EXCEPT ![t] = acked] ELSE floor
  /\ UNCHANGED <<vars, status, acked>>

\* The result of pthread_create is not looked at: the message stays paused.
Lose(t) ==
  /\ ThreadsMayFail
  /\ Goto(t, "none", "lost")
  /\ UNCHANGED <<vars, status, acked, floor>>

\* on_post: set_frame if the body is an image it knows, and status 200 (OK) anyway.
PostImage(w) ==
  /\ Goto(w, "started", "working")
  /\ SetCall(w)
  /\ UNCHANGED <<status, acked, floor>>

PostGarbage(w) ==
  /\ Goto(w, "started", "done")
  /\ src' = [src EXCEPT ![w] = [frame |-> Blank, num |-> 0]]
  /\ status' = [status EXCEPT ![w] = "OK"]
  /\ UNCHANGED <<slots, front, number, mutex, calls, pc, tgt, frame, out, acked, floor>>

PostCopy(w) ==
  /\ SetPixels(w) \/ SetHead(w)
  /\ UNCHANGED sessionVars

PostPublish(w) ==
  /\ SetPublish(w)
  /\ Goto(w, "working", "done")
  /\ status' = [status EXCEPT ![w] = "OK"]
  /\ UNCHANGED <<acked, floor>>

\* on_get: get_frame into a new frame.
GetStart(r) ==
  /\ Goto(r, "started", "working")
  /\ GetCall(r)
  /\ frame'[r] = Blank
  /\ UNCHANGED <<status, acked, floor>>

GetEnter(r) == GetLock(r) /\ UNCHANGED sessionVars

GetCopy(r) ==
  /\ GetPixels(r) \/ GetHead(r) \/ GetReturn(r)
  /\ UNCHANGED sessionVars

\* The frame number get_frame returned decides between OK with the image and 400.
GetHasFrame(r) == out[r].num > 0

GetAnswerOnlyPictures(r) ==
  /\ pc[r] = "idle"
  /\ GetHasFrame(r)
  /\ Goto(r, "working", "done")
  /\ status' = [status EXCEPT ![r] = "OK"]
  /\ UNCHANGED <<vars, acked, floor>>

GetAnswer(r) ==
  /\ pc[r] = "idle"
  /\ Goto(r, "working", "done")
  /\ status' = [status EXCEPT ![r] = IF GetHasFrame(r) THEN "OK" ELSE "no image"]
  /\ UNCHANGED <<vars, acked, floor>>

\* soup_server_unpause_message: the answer goes out, the thread exits.
Acknowledge(t) ==
  acked' = IF t \in Writers /\ src[t].frame.pix > acked THEN src[t].frame.pix ELSE acked

UnpauseEarly(t) ==
  /\ session[t] \in {"working", "done"}
  /\ session' = [session EXCEPT ![t] = "answered"]
  /\ Acknowledge(t)
  /\ UNCHANGED <<vars, status, floor>>

Unpause(t) ==
  /\ Goto(t, "done", "answered")
  /\ Acknowledge(t)
  /\ UNCHANGED <<vars, status, floor>>

\* The client has its answer and may send another request.
Sent(t) ==
  /\ Goto(t, "answered", "none")
  /\ status' = [status EXCEPT ![t] = "none"]
  /\ floor' = IF t \in Readers THEN [floor EXCEPT ![t] = 0] ELSE floor
  /\ UNCHANGED <<vars, acked>>

Post(w) == PostImage(w) \/ PostGarbage(w) \/ PostCopy(w) \/ PostPublish(w)
HttpGet(r) == GetStart(r) \/ GetEnter(r) \/ GetCopy(r) \/ GetAnswer(r)

HttpNext ==
  \/ \E w \in Writers : Post(w)
  \/ \E r \in Readers : HttpGet(r)
  \/ \E t \in Threads : Refuse(t) \/ Accept(t) \/ Lose(t) \/ Unpause(t) \/ Sent(t)

\* Session threads run (weak fairness) and a thread that waits for a mutex which
\* is released again and again gets it (strong fairness); nobody has to send a
\* request.
HttpFairness ==
  /\ \A w \in Writers : WF_allVars(Post(w)) /\ SF_allVars(PostPublish(w))
  /\ \A r \in Readers : WF_allVars(HttpGet(r)) /\ SF_allVars(GetEnter(r))
  /\ \A t \in Threads : WF_allVars(Unpause(t))

HttpSpec == HttpInit /\ [][HttpNext]_allVars /\ HttpFairness

-----------------------------------------------------------------------------
HttpTypeOK ==
  /\ TypeOK
  /\ session \in [Threads -> {"none", "started", "working", "done", "answered", "lost"}]
  /\ status \in [Threads -> {"none", "OK", "no image", "refused"}]
  /\ acked \in 0 .. MaxCalls
  /\ floor \in [Readers -> 0 .. MaxCalls]

Answered(r) == session[r] = "answered" /\ status[r] = "OK"

\* A client that has seen its POST answered, and then sends a GET, is answered
\* with that picture or a newer one, and never told that there is none: the
\* message is only unpaused after set_frame (http-server.c:399, 405).
AnsweredPostIsVisible == \A r \in Readers :
  /\ Answered(r) => out[r].frame.pix >= floor[r]
  /\ session[r] = "done" /\ status[r] = "no image" => floor[r] = 0

\* Every request that got a session is answered, the queue of the mutex
\* permitting: no path of on_get and on_post leaves the message paused
\* (http-server.c:403-405).
EveryRequestAnswered == \A t \in Threads :
  session[t] = "started" ~> session[t] = "answered"
=============================================================================
