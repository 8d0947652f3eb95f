----------------------------- MODULE HttpClient -----------------------------
(***************************************************************************)
(* The http client plugin (src/plugins/io/http-client.c) and the http      *)
(* servers it talks to: a relay from the latest frame of a server to the   *)
(* latest frame of its own io_input (direction "get"), or the other way    *)
(* round (direction "post").                                               *)
(*                                                                         *)
(* A timer of the main loop signals a condition variable, a worker thread  *)
(* waits on it and makes one request per signal.  The wait has no          *)
(* predicate, so a signal nobody waits for is lost.  A frame is taken when *)
(* its number is not the number of the last one.                           *)
(*                                                                         *)
(* A server is what src/plugins/io/http-server.c shows of itself: its n-th *)
(* picture is numbered by its frame buffer, which counts from 1 again      *)
(* after a restart.  A picture is [from |-> server, n |-> its identity].   *)
(***************************************************************************)
EXTENDS Integers

CONSTANTS Servers,      \* urls
          Json,         \* those that answer with json and a frame number, the
                        \* others answer with a plain image/jpeg
          Local,        \* the producer in front of a posting client
          MaxPictures,  \* bound: pictures per producer
          MaxCounted,   \* bound: answers that only count up: posts and plain images
          MaxFailures,  \* bound: other requests that fail
          MaxRestarts,  \* bound: restarts of servers
          MaxUrls       \* bound: changes of the url

ASSUME ClientAssumption ==
  /\ Json \subseteq Servers
  /\ Local \notin Servers
  /\ MaxPictures \in Nat /\ MaxCounted \in Nat /\ MaxFailures \in Nat
  /\ MaxRestarts \in Nat /\ MaxUrls \in Nat

VARIABLES conf,     \* direction and whether 0 < fps <= 60
          process,  \* http_client_process: where the plugin thread is
          worker,   \* where the worker thread is
          isBusy,   \* client->is_busy
          url,      \* client->url
          taken,    \* client->frame_number
          request,  \* url and answer of the request under way
          buffer,   \* latest frame of the client's io_input and its number
          front,    \* which of the two frames of the buffer that is
          server,   \* latest frame and number of each server
          made,     \* pictures of each producer so far
          counted, failures, restarts, urls,  \* steps spent of each bound
          late      \* frames of an earlier url published since the url was set

vars == <<conf, process, worker, isBusy, url, taken, request, buffer, front, server,
          made, counted, failures, restarts, urls, late>>

NoFrame == [from |-> Local, n |-> 0]
Empty == [pic |-> NoFrame, num |-> 0]
NoAnswer == [pic |-> NoFrame, num |-> -1]
Producers == Servers \cup {Local}

Init ==
  /\ conf = [direction |-> "none", timed |-> FALSE]
  /\ process = "none" /\ worker = "none"
  /\ isBusy = FALSE
  /\ url \in Servers
  /\ taken = 0
  /\ request = [url |-> url, answer |-> NoAnswer]
  /\ buffer = Empty /\ front = 0
  /\ server = [s \in Servers |-> Empty]
  /\ made = [p \in Producers |-> 0]
  /\ counted = 0 /\ failures = 0 /\ restarts = 0 /\ urls = 0 /\ late = 0

-----------------------------------------------------------------------------
\* Around the plugin.

\* set_frame of a register: an explicit number wins, else the buffer counts.
Store(reg, pic, num) == [pic |-> pic, num |-> IF num > 0 THEN num ELSE reg.num + 1]

\* A server gets its next picture, a posting client the next picture to post.
Produce(p) ==
  /\ made[p] < MaxPictures
  /\ made' = [made EXCEPT ![p] = @ + 1]
  /\ LET pic == [from |-> p, n |-> made[p] + 1] IN
       IF p = Local
       THEN /\ conf.direction = "post"
            /\ buffer' = Store(buffer, pic, 0)
            /\ front' = 1 - front
            /\ UNCHANGED server
       ELSE /\ conf.direction = "get"
            /\ server' = [server EXCEPT ![p] = Store(@, pic, 0)]
            /\ UNCHANGED <<buffer, front>>
  /\ UNCHANGED <<conf, process, worker, isBusy, url, taken, request,
                 counted, failures, restarts, urls, late>>

\* A server that is started again has an empty frame buffer.
Restart(s) ==
  /\ restarts < MaxRestarts
  /\ restarts' = restarts + 1
  /\ server' = [server EXCEPT ![s] = Empty]
  /\ UNCHANGED <<conf, process, worker, isBusy, url, taken, request, buffer, front, made,
                 counted, failures, urls, late>>

-----------------------------------------------------------------------------
\* The plugin's interface, called by the program.

LoadConfig(direction, timed) ==
  /\ conf.direction = "none"
  /\ conf' = [direction |-> direction, timed |-> timed]
  /\ UNCHANGED <<process, worker, isBusy, url, taken, request, buffer, front, server, made,
                 counted, failures, restarts, urls, late>>

\* set_property("url"): under the mutex, and it signals the worker.  The worker
\* keeps its request and the number of the last frame it took.
Signal == worker' = IF worker = "waiting" THEN "signalled" ELSE worker

SetUrl(u) ==
  /\ conf.direction # "none"
  /\ urls < MaxUrls
  /\ u # url
  /\ url' = u
  /\ urls' = urls + 1
  /\ late' = 0
  /\ Signal
  /\ UNCHANGED <<conf, process, isBusy, taken, request, buffer, front, server, made,
                 counted, failures, restarts>>

\* io_plugin_run: the plugin thread; it creates the worker first.
Run ==
  /\ conf.direction # "none"
  /\ process = "none"
  /\ process' = "started"
  /\ worker' = "start"
  /\ UNCHANGED <<conf, isBusy, url, taken, request, buffer, front, server, made,
                 counted, failures, restarts, urls, late>>

\* It starts the timer, or signals once when the frame rate is out of range, and
\* then stays in a main loop that nothing quits.
EnterLoop ==
  /\ process = "started"
  /\ process' = "loop"
  /\ IF conf.timed THEN UNCHANGED worker ELSE Signal
  /\ UNCHANGED <<conf, isBusy, url, taken, request, buffer, front, server, made,
                 counted, failures, restarts, urls, late>>

\* on_timeout
Tick ==
  /\ process = "loop"
  /\ conf.timed
  /\ ~isBusy
  /\ Signal
  /\ UNCHANGED <<conf, process, isBusy, url, taken, request, buffer, front, server, made,
                 counted, failures, restarts, urls, late>>

-----------------------------------------------------------------------------
\* worker_thread

Wait ==
  /\ worker = "start"
  /\ worker' = "waiting"
  /\ UNCHANGED <<conf, process, isBusy, url, taken, request, buffer, front, server, made,
                 counted, failures, restarts, urls, late>>

Wake ==
  /\ worker = "signalled"
  /\ worker' = "request"
  /\ isBusy' = TRUE
  /\ UNCHANGED <<conf, process, url, taken, request, buffer, front, server, made,
                 counted, failures, restarts, urls, late>>

\* send_request takes the url of now; a posting client without a frame returns.
SendKeepsUrl ==
  /\ worker = "request"
  /\ worker' = "transfer"
  /\ request' = [url |-> request.url,
                 answer |-> IF conf.direction = "post" THEN buffer ELSE NoAnswer]
  /\ UNCHANGED <<conf, process, isBusy, url, taken, buffer, front, server, made,
                 counted, failures, restarts, urls, late>>

Send ==
  /\ worker = "request"
  /\ worker' = IF conf.direction = "post" /\ buffer.num = 0 THEN "done" ELSE "transfer"
  /\ request' = [url |-> url,
                 answer |-> IF conf.direction = "post" THEN buffer ELSE NoAnswer]
  /\ UNCHANGED <<conf, process, isBusy, url, taken, buffer, front, server, made,
                 counted, failures, restarts, urls, late>>

\* Such an answer differs from the one before only in the number.
Counts == conf.direction = "post" \/ request.url \notin Json

\* The server serves the request: on_get of a server with a picture, or on_post.
\* A server without a picture answers 400, which the client ignores.
Serve ==
  /\ worker = "transfer"
  /\ Counts => counted < MaxCounted
  /\ counted' = IF Counts THEN counted + 1 ELSE counted
  /\ LET s == request.url IN
     IF conf.direction = "post"
     THEN /\ server' = [server EXCEPT ![s] = Store(@, request.answer.pic, 0)]
          /\ worker' = "done"
          /\ UNCHANGED request
     ELSE /\ request' = [request EXCEPT !.answer = server[s]]
          /\ worker' = IF server[s].num = 0 THEN "done" ELSE "response"
          /\ UNCHANGED server
  /\ UNCHANGED <<conf, process, isBusy, url, taken, buffer, front, made,
                 failures, restarts, urls, late>>

\* curl_easy_perform fails, or the answer is not 200.
Fail ==
  /\ worker = "transfer"
  /\ failures < MaxFailures \/ (Counts /\ counted = MaxCounted)
  /\ failures' = IF failures < MaxFailures THEN failures + 1 ELSE failures
  /\ worker' = "done"
  /\ UNCHANGED <<conf, process, isBusy, url, taken, request, buffer, front, server, made,
                 counted, restarts, urls, late>>

\* on_response: the number of the answer; a plain image has none and gets the next.
NumberOf(s, answer) == IF s \in Json THEN answer.num ELSE taken + 1

IsNewIfGreater(num) == num > taken

IsNew(num) == num # taken

\* input_frame of the answer: only json carries the number over to set_frame.
FrameNumber(s, answer) == IF s \in Json THEN answer.num ELSE 0

OnResponse ==
  /\ worker = "response"
  /\ worker' = "done"
  /\ LET s == request.url
         num == NumberOf(s, request.answer)
     IN IF IsNew(num)
        THEN /\ taken' = num
             /\ buffer' = Store(buffer, request.answer.pic, FrameNumber(s, request.answer))
             /\ front' = 1 - front
             /\ late' = IF s # url THEN late + 1 ELSE late
        ELSE UNCHANGED <<taken, buffer, front, late>>
  /\ UNCHANGED <<conf, process, isBusy, url, request, server, made,
                 counted, failures, restarts, urls>>

DoneStaysBusy ==
  /\ worker = "done"
  /\ worker' = "start"
  /\ UNCHANGED <<conf, process, isBusy, url, taken, request, buffer, front, server, made,
                 counted, failures, restarts, urls, late>>

\* is_busy is reset without the mutex, and then the worker waits again.
Done ==
  /\ worker = "done"
  /\ worker' = "start"
  /\ isBusy' = FALSE
  /\ UNCHANGED <<conf, process, url, taken, request, buffer, front, server, made,
                 counted, failures, restarts, urls, late>>

Work == Wait \/ Wake \/ Send \/ Serve \/ Fail \/ OnResponse \/ Done

Next ==
  \/ \E direction \in {"get", "post"}, timed \in BOOLEAN : LoadConfig(direction, timed)
  \/ \E p \in Producers : Produce(p)
  \/ \E s \in Servers : Restart(s) \/ SetUrl(s)
  \/ Run \/ EnterLoop \/ Tick
  \/ Wait \/ Wake \/ Send \/ Serve \/ Fail \/ OnResponse \/ Done

\* Threads run and the main loop's timer fires; nobody has to make pictures,
\* change the url or start the plugin.
Fairness == WF_vars(EnterLoop) /\ WF_vars(Tick) /\ WF_vars(Work)

Spec == Init /\ [][Next]_vars
LiveSpec == Spec /\ Fairness

-----------------------------------------------------------------------------
Picture == [from : Producers, n : 0 .. MaxPictures]
Register == [pic : Picture, num : Int]

\* Every variable has its type; is_busy is set exactly while a request is made.
TypeOK ==
  /\ conf \in [direction : {"none", "get", "post"}, timed : BOOLEAN]
  /\ process \in {"none", "started", "loop"}
  /\ worker \in {"none", "start", "waiting", "signalled", "request", "transfer",
                 "response", "done"}
  /\ isBusy \in BOOLEAN
  /\ isBusy <=> worker \in {"request", "transfer", "response", "done"}
  /\ url \in Servers
  /\ taken \in Nat
  /\ request \in [url : Servers, answer : Register]
  /\ buffer \in Register /\ front \in {0, 1}
  /\ server \in [Servers -> Register]
  /\ made \in [Producers -> 0 .. MaxPictures]
  /\ counted \in 0 .. MaxCounted
  /\ failures \in 0 .. MaxFailures /\ restarts \in 0 .. MaxRestarts
  /\ urls \in 0 .. MaxUrls /\ late \in Nat

\* The number the client compares (http-client.c:310) and the number its frame
\* buffer gave the frame (io-input.c:85) are two counters kept by two modules: a
\* getting client never has them drift apart, over restarts and changes of the url
\* and whichever mix of numbered and plain answers it gets.
NumbersAgree == conf.direction = "get" => buffer.num = taken

\* Once the url is changed at most one more picture of an earlier url is
\* published, the one whose request was under way (http-client.c:342).
OneLateFrame == late <= 1

\* Both of them.
ClientInStep == NumbersAgree /\ OneLateFrame

\* With a timer, a picture whose number the client does not have is taken,
\* unless it is replaced, the url is changed, or the client comes to hold the same
\* number from another server or from before a restart: equal numbers are the only
\* reason to miss the picture that stays.
Missing(s, pic) ==
  /\ conf = [direction |-> "get", timed |-> TRUE]
  /\ process = "loop"
  /\ url = s
  /\ server[s].pic = pic
  /\ server[s].num \notin {0, taken}

FreshIsTaken == \A s \in Json : \A n \in 1 .. MaxPictures :
  LET pic == [from |-> s, n |-> n] IN
  Missing(s, pic) ~> \/ buffer.pic = pic
                     \/ url # s
                     \/ server[s].pic # pic
                     \/ server[s].num = taken
=============================================================================
