----------------------------- MODULE MotionJpeg -----------------------------
(***************************************************************************)
(* The motion jpeg server (motion-jpeg/): a main thread that updates the   *)
(* frame of a channel, one server thread that waits for socket events,     *)
(* accepts, reads, writes and removes clients, and one thread for every    *)
(* client that has sent its request, which looks at the channel every      *)
(* 100 ms and appends a frame it has not sent yet to the client's out_buf. *)
(*                                                                         *)
(* Every section under channel->priv->mutex is one action: nothing in it   *)
(* waits.  The mutex of a client (cond_mutex) is held by its thread        *)
(* wherever it is not "idle".  A frame is its number; of out_buf the model *)
(* keeps the newest frame that waits in it, not the bytes.                 *)
(***************************************************************************)
EXTENDS Integers, Sequences, FiniteSets, SequencesExt

CONSTANTS Conns,      \* bound: connections, each made once
          MaxFrames,  \* bound: frames the camera delivers
          None        \* no client

ASSUME MaxFramesAssumption == MaxFrames \in Nat
ASSUME ConnsAssumption == IsFiniteSet(Conns)
ASSUME NoneAssumption == None \notin Conns

VARIABLES
  \* the channel and the main thread
  refs,     \* refs of each frame; 0: not built yet, or freed
  shown,    \* priv->frame, 0: none
  made,     \* frames built so far
  holds,    \* the frame upload_finished still has to unref, 0: none
  \* the server thread
  at,       \* where it is
  cur,      \* the client it is removing
  gc,       \* garbage collection: next index and number of removals
  clients,  \* http->clients[0 .. num_clients - 1]
  \* each client
  stage,    \* none, open, stream, freed
  epoll,    \* EPOLLOUT: off, armed, or ready to be delivered
  full,     \* out_buf->length > 0
  \* the thread of each client
  tpc,      \* none, idle, get, push, arm, done
  quit,     \* mjpeg_client->quit
  last,     \* mjpeg_client->frame_number
  got       \* the frame it holds a reference of, 0: none

channelVars == <<refs, shown, made, holds>>
serverVars == <<at, cur, gc, clients>>
clientVars == <<stage, epoll, full>>
threadVars == <<tpc, quit, last, got>>
vars == <<channelVars, serverVars, clientVars, threadVars>>

Frames == 1 .. MaxFrames
NoGC == [next |-> 0, count |-> 0]

Init ==
  /\ refs = [f \in Frames |-> 0]
  /\ shown = 0 /\ made = 0 /\ holds = 0
  /\ at = "wait" /\ cur = None /\ gc = NoGC
  /\ clients = <<>>
  /\ stage = [c \in Conns |-> "none"]
  /\ epoll = [c \in Conns |-> "off"]
  /\ full = [c \in Conns |-> FALSE]
  /\ tpc = [c \in Conns |-> "none"]
  /\ quit = [c \in Conns |-> FALSE]
  /\ last = [c \in Conns |-> 0]
  /\ got = [c \in Conns |-> 0]

Registered(c) == c \in ToSet(clients)
-----------------------------------------------------------------------------
\* The main thread: a new frame, refs = 1, goes to channel_update_frame, which
\* takes a reference of its own and gives back the one of the old frame ...
Update ==
  /\ holds = 0
  /\ made < MaxFrames
  /\ made' = made + 1
  /\ holds' = made'
  /\ shown' = made'
  /\ refs' = [f \in Frames |-> IF f = made' THEN 2 ELSE IF f = shown THEN refs[f] - 1 ELSE refs[f]]
  /\ UNCHANGED <<serverVars, clientVars, threadVars>>

\* ... then upload_finished gives back its own.
Drop ==
  /\ holds # 0
  /\ refs' = [refs EXCEPT ![holds] = @ - 1]
  /\ holds' = 0
  /\ UNCHANGED <<shown, made, serverVars, clientVars, threadVars>>

-----------------------------------------------------------------------------
\* The thread of a client.

\* while(!quit): sleep, take the mutex, look at quit again.
Enter(c) ==
  /\ tpc[c] = "idle"
  /\ tpc' = [tpc EXCEPT ![c] = IF quit[c] THEN "done" ELSE "get"]
  /\ UNCHANGED <<channelVars, serverVars, clientVars, quit, last, got>>

\* channel_get_frame
GetFrame(c) ==
  /\ got' = [got EXCEPT ![c] = shown]
  /\ refs' = [refs EXCEPT ![shown] = @ + 1]

Get(c) ==
  /\ tpc[c] = "get"
  /\ \/ /\ shown = 0
        /\ tpc' = [tpc EXCEPT ![c] = "idle"]
        /\ UNCHANGED <<refs, got>>
     \/ /\ shown # 0
        /\ GetFrame(c)
        /\ tpc' = [tpc EXCEPT ![c] = "push"]
  /\ UNCHANGED <<shown, made, holds, serverVars, clientVars, quit, last>>

SentButNewest(c) == got[c] <= last[c] + 1

\* A frame that is not newer than the last one is not sent again.
Sent(c) == got[c] <= last[c]

\* channel_unref_frame
Unref(c) ==
  /\ refs' = [refs EXCEPT ![got[c]] = @ - 1]
  /\ got' = [got EXCEPT ![c] = 0]

SkipKeeps(c) ==
  /\ tpc[c] = "push"
  /\ Sent(c)
  /\ got' = [got EXCEPT ![c] = 0]
  /\ tpc' = [tpc EXCEPT ![c] = "idle"]
  /\ UNCHANGED <<channelVars, serverVars, clientVars, quit, last>>

Skip(c) ==
  /\ tpc[c] = "push"
  /\ Sent(c)
  /\ Unref(c)
  /\ tpc' = [tpc EXCEPT ![c] = "idle"]
  /\ UNCHANGED <<shown, made, holds, serverVars, clientVars, quit, last>>

\* http_buffer_push_data, with the frame still referenced ...
Push(c) ==
  /\ tpc[c] = "push"
  /\ ~Sent(c)
  /\ last' = [last EXCEPT ![c] = got[c]]
  /\ full' = [full EXCEPT ![c] = TRUE]
  /\ Unref(c)
  /\ tpc' = [tpc EXCEPT ![c] = "arm"]
  /\ UNCHANGED <<shown, made, holds, serverVars, stage, epoll, quit>>

\* ... then http_server_set_client_writable: EPOLL_CTL_MOD, without effect on
\* a socket that is no longer registered.
Arm(c) ==
  /\ tpc[c] = "arm"
  /\ epoll' = [epoll EXCEPT ![c] = IF Registered(c) THEN "ready" ELSE @]
  /\ tpc' = [tpc EXCEPT ![c] = "idle"]
  /\ UNCHANGED <<channelVars, serverVars, stage, full, quit, last, got>>

-----------------------------------------------------------------------------
\* The server thread: accept.
Accept(c) ==
  /\ at = "wait"
  /\ stage[c] = "none"
  /\ stage' = [stage EXCEPT ![c] = "open"]
  /\ clients' = Append(clients, c)
  /\ UNCHANGED <<channelVars, at, cur, gc, epoll, full, threadVars>>

\* An accept() that fails ends the loop of the server.
AcceptFails ==
  /\ at = "wait"
  /\ at' = "stopped"
  /\ UNCHANGED <<channelVars, cur, gc, clients, clientVars, threadVars>>

RemoveLast(c) ==
  clients' = [i \in 1 .. Len(clients) - 1 |-> clients[i]]

\* http_server_remove_client: the last client takes the place of the removed one.
Unlink(c) ==
  clients' = [i \in 1 .. Len(clients) - 1 |->
                IF clients[i] = c THEN clients[Len(clients)] ELSE clients[i]]

RemoveClient(c) ==
  /\ Unlink(c)
  /\ cur' = c
  /\ at' = "destroy"

\* on_read of a client that has not sent its whole request: more of it is
\* missing, or it is refused, or it is a GET, which gets the header of the
\* multipart answer and a thread.
Read(c) ==
  /\ at = "wait" /\ Registered(c)
  /\ \/ /\ stage[c] = "open"
        /\ UNCHANGED <<at, cur, clients, stage, epoll, full, tpc>>
     \/ /\ RemoveClient(c)
        /\ UNCHANGED <<stage, epoll, full, tpc>>
     \/ /\ stage[c] = "open"
        /\ stage' = [stage EXCEPT ![c] = "stream"]
        /\ full' = [full EXCEPT ![c] = TRUE]
        /\ epoll' = [epoll EXCEPT ![c] = "ready"]
        /\ tpc' = [tpc EXCEPT ![c] = "idle"]
        /\ UNCHANGED <<at, cur, clients>>
  /\ UNCHANGED <<channelVars, gc, quit, last, got>>

\* on_write: everything is written, or a part of it, or the write fails.
Write(c) ==
  /\ at = "wait" /\ Registered(c)
  /\ epoll[c] = "ready"
  /\ \/ /\ full' = [full EXCEPT ![c] = FALSE]
        /\ at' = "written" /\ cur' = c
        /\ UNCHANGED clients
     \/ /\ full[c]
        /\ UNCHANGED <<at, cur, clients, full>>
     \/ /\ full[c]
        /\ RemoveClient(c)
        /\ UNCHANGED full
  /\ epoll' = [epoll EXCEPT ![c] = "armed"]
  /\ UNCHANGED <<channelVars, gc, stage, threadVars>>

\* The socket takes more bytes again: the edge that EPOLLET reports.
Writable(c) ==
  /\ epoll[c] = "armed" /\ full[c] /\ Registered(c)
  /\ epoll' = [epoll EXCEPT ![c] = "ready"]
  /\ UNCHANGED <<channelVars, serverVars, stage, full, threadVars>>

\* With nothing left in out_buf, when it looks again, ...
LookAgain ==
  /\ at = "written"
  /\ at' = IF full[cur] THEN "wait" ELSE "disarm"
  /\ cur' = IF full[cur] THEN None ELSE cur
  /\ UNCHANGED <<channelVars, gc, clients, clientVars, threadVars>>

\* ... it switches EPOLLOUT off, whatever was appended meanwhile.
Disarm ==
  /\ at = "disarm"
  /\ at' = "wait" /\ cur' = None
  /\ epoll' = [epoll EXCEPT ![cur] = "off"]
  /\ UNCHANGED <<channelVars, gc, clients, stage, full, threadVars>>

-----------------------------------------------------------------------------
\* http_client_context_free: on_client_destroy stops the thread of the client ...
QuitForgotten(c) ==
  UNCHANGED quit

Quit(c) ==
  quit' = [quit EXCEPT ![c] = TRUE]

Destroy ==
  /\ at = "destroy"
  /\ \/ /\ tpc[cur] = "none"
        /\ at' = "free"
        /\ UNCHANGED quit
     \/ /\ tpc[cur] = "idle"
        /\ Quit(cur)
        /\ at' = "join"
  /\ UNCHANGED <<channelVars, cur, gc, clients, clientVars, tpc, last, got>>

JoinNot == TRUE

Joined == tpc[cur] = "done"

Join ==
  /\ at = "join"
  /\ Joined
  /\ at' = "free"
  /\ UNCHANGED <<channelVars, cur, gc, clients, clientVars, threadVars>>

\* ... and the client is freed; a garbage collection goes on with the next.
Free ==
  /\ at = "free"
  /\ stage' = [stage EXCEPT ![cur] = "freed"]
  /\ epoll' = [epoll EXCEPT ![cur] = "off"]
  /\ full' = [full EXCEPT ![cur] = FALSE]
  /\ at' = IF gc = NoGC THEN "wait" ELSE "collect"
  /\ cur' = None
  /\ UNCHANGED <<channelVars, gc, clients, threadVars>>

\* http_server_garbage_collection runs when no event came in 100 ms.  It
\* collects the indices of the clients that have been silent for too long,
\* which may be any of them ...
Collect ==
  /\ at = "wait"
  /\ \A c \in Conns : Registered(c) => epoll[c] # "ready"
  /\ \E n \in 1 .. Len(clients) : gc' = [next |-> 1, count |-> n]
  /\ at' = "collect"
  /\ UNCHANGED <<channelVars, cur, clients, clientVars, threadVars>>

\* ... and removes clients[0], clients[1], ... (not clients[indices[0]], ...),
\* as many as it collected, out of the array that shrinks meanwhile.
CollectNext ==
  /\ at = "collect"
  /\ \/ /\ gc.next > gc.count
        /\ at' = "wait"
        /\ gc' = NoGC
        /\ UNCHANGED <<cur, clients>>
     \/ /\ gc.next <= gc.count
        /\ gc.next <= Len(clients)
        /\ RemoveClient(clients[gc.next])
        /\ gc' = [gc EXCEPT !.next = @ + 1]
     \/ /\ gc.next <= gc.count
        /\ gc.next > Len(clients)
        /\ at' = "aborted"
        /\ UNCHANGED <<cur, gc, clients>>
  /\ UNCHANGED <<channelVars, clientVars, threadVars>>

-----------------------------------------------------------------------------
Alive == at # "aborted"

Thread(c) == Enter(c) \/ Get(c) \/ Skip(c) \/ Push(c) \/ Arm(c)
Removal == Destroy \/ Join \/ Free
Server == \/ \E c \in Conns : Accept(c) \/ Read(c) \/ Write(c)
          \/ AcceptFails \/ LookAgain \/ Disarm \/ Removal \/ Collect \/ CollectNext
Environment == \E c \in Conns : Writable(c)

Next == Alive /\ (Update \/ Drop \/ (\E c \in Conns : Thread(c)) \/ Server \/ Environment)

Spec == Init /\ [][Next]_vars

\* Every thread runs; the server, which waits for the mutex of a client that
\* its thread takes and releases again and again, gets it some time.  No client
\* has to connect or to send anything, no frame has to come.
Fairness ==
  /\ \A c \in Conns : WF_vars(Alive /\ Thread(c))
  /\ WF_vars(Alive /\ (Join \/ Free \/ LookAgain \/ Disarm \/ CollectNext))
  /\ SF_vars(Alive /\ Destroy)

LiveSpec == Spec /\ Fairness

-----------------------------------------------------------------------------
\* Every variable has its type, and the array of the server lists every connected
\* client once, whichever one is removed out of its middle while garbage is
\* collected (http-server.c:370-390).
TypeOK ==
  /\ refs \in [Frames -> 0 .. 2 + Cardinality(Conns)]
  /\ shown \in 0 .. MaxFrames /\ made \in 0 .. MaxFrames /\ holds \in 0 .. MaxFrames
  /\ at \in {"wait", "written", "disarm", "destroy", "join", "free", "collect", "stopped", "aborted"}
  /\ cur \in Conns \cup {None}
  /\ gc \in [next : Nat, count : Nat]
  /\ clients \in Seq(Conns)
  /\ stage \in [Conns -> {"none", "open", "stream", "freed"}]
  /\ epoll \in [Conns -> {"off", "armed", "ready"}]
  /\ full \in [Conns -> BOOLEAN]
  /\ tpc \in [Conns -> {"none", "idle", "get", "push", "arm", "done"}]
  /\ quit \in [Conns -> BOOLEAN]
  /\ last \in [Conns -> 0 .. MaxFrames] /\ got \in [Conns -> 0 .. MaxFrames]
  /\ IsInjective(clients)
  /\ ToSet(clients) = {c \in Conns : stage[c] \in {"open", "stream"}} \
                      (IF at \in {"destroy", "join", "free"} THEN {cur} ELSE {})

\* A client is freed only after its thread has ended, which still uses it
\* between two looks at quit (motion-jpeg-client.c:36-54, 70-127).
ClientOutlivesThread == \A c \in Conns :
  stage[c] = "freed" => tpc[c] \in {"none", "done"}

\* The frame a client thread is copying from is not freed under it, whatever
\* the main thread publishes and the other clients give back; and once the
\* camera is quiet no frame but the one on show is kept, so that a channel that
\* runs for days does not grow (motion-jpeg-server.c:99-137).
FramesAreCounted ==
  /\ \A c \in Conns : got[c] # 0 => refs[got[c]] > 0
  /\ (holds = 0 /\ \A c \in Conns : got[c] = 0) =>
       \A f \in Frames : refs[f] = IF f = shown THEN 1 ELSE 0

\* Every client that streams is given the frame on show or a newer one, unless
\* it is removed.
NewestIsPushed == \A c \in Conns, f \in Frames :
  (shown = f /\ tpc[c] \notin {"none", "done"}) ~> (last[c] >= f \/ quit[c] \/ ~Alive)

\* A removal that has begun ends: the thread of the client, which may hold the
\* mutex on_client_destroy needs, lets go of it and notices quit.
RemovalEnds == \A c \in Conns :
  (at = "destroy" /\ cur = c) ~> (stage[c] = "freed" \/ ~Alive)

\* assert(client && client->fd != -1): a client that timed out is still there
\* when its turn comes (http-server.c:241-246).
CollectedIsClient == at # "aborted"
=============================================================================
