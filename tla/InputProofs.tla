---------------------------- MODULE InputProofs ----------------------------
(***************************************************************************)
(* Proofs about what the programs take their pictures from, for any number *)
(* of servers, plugins, devices and cameras: the two counters that number  *)
(* the frames of the http client never drift apart, and at most one picture*)
(* of an earlier url is published after a change of the url; the arrays of *)
(* plugins and of sessions hold what is open, each once; a picture of the  *)
(* camera switch lives as long as a camera, the manager or the upload has  *)
(* it.  The theorems at the end carry these, and those of FolderProofs,    *)
(* over to the composition that the run "inputs" checks.                   *)
(***************************************************************************)
EXTENDS FolderProofs, FiniteSetTheorems

-----------------------------------------------------------------------------
\* The http client.  The counters are kept by two modules and only meet in on_response,
\* so that they agree rests on what a server may answer: a picture comes with a number
\* above 0, because a server without one answers 400 and a frame buffer counts from 1.
\* That is InStep, the inductive invariant.

\* Pictures and registers as they are stored.
LEMMA StoreIsRegister ==
  ASSUME NEW reg \in Register, NEW pic \in Picture, NEW num \in Int
  PROVE  Store(reg, pic, num) \in Register
  BY DEF Store, Register

\* A frame buffer before its first frame, and a request before its answer.
LEMMA EmptyIsRegister == Empty \in Register /\ NoAnswer \in Register
  <1>1. NoFrame \in Picture
    BY ClientAssumption DEF NoFrame, Picture, Producers
  <1> QED BY <1>1 DEF Empty, NoAnswer, Register

-----------------------------------------------------------------------------
\* The plugin has just been loaded.
LEMMA InitTypeOK == Init => TypeOK
  <1> SUFFICES ASSUME Init PROVE TypeOK
    OBVIOUS
  <1>1. /\ buffer \in Register
        /\ request \in [url : Servers, answer : Register]
        /\ server \in [Servers -> Register]
    BY EmptyIsRegister DEF Init
  <1>2. made \in [Producers -> 0 .. MaxPictures]
    BY ClientAssumption DEF Init
  <1>3. /\ counted \in 0 .. MaxCounted /\ failures \in 0 .. MaxFailures
        /\ restarts \in 0 .. MaxRestarts /\ urls \in 0 .. MaxUrls
    BY ClientAssumption DEF Init
  <1>4. /\ conf \in [direction : {"none", "get", "post"}, timed : BOOLEAN]
        /\ process \in {"none", "started", "loop"} /\ worker = "none"
        /\ isBusy = FALSE /\ url \in Servers /\ taken \in Nat
        /\ front \in {0, 1} /\ late \in Nat
    BY DEF Init
  <1>5. isBusy \in BOOLEAN /\ (isBusy <=> worker \in {"request", "transfer", "response", "done"})
    BY <1>4
  <1>6. worker \in {"none", "start", "waiting", "signalled", "request", "transfer",
                    "response", "done"}
    BY <1>4
  <1> QED BY <1>1, <1>2, <1>3, <1>4, <1>5, <1>6 DEF TypeOK

\* What a server or a posting client is handed fits into its frame buffer.
LEMMA ProduceType == ASSUME TypeOK, NEW p \in Producers, Produce(p) PROVE TypeOK'
  <1> DEFINE pic == [from |-> p, n |-> made[p] + 1]
  <1>1. made[p] \in 0 .. MaxPictures /\ made[p] < MaxPictures /\ MaxPictures \in Nat
    BY ClientAssumption DEF TypeOK, Produce
  <1>2. made[p] + 1 \in 0 .. MaxPictures
    BY <1>1
  <1>3. pic \in Picture
    BY <1>2 DEF Picture
  <1>4. made' \in [Producers -> 0 .. MaxPictures]
    BY <1>2 DEF TypeOK, Produce
  <1>5. /\ buffer' \in Register /\ front' \in {0, 1} /\ server' \in [Servers -> Register]
    <2>1. CASE p = Local
      <3>1. buffer' = Store(buffer, pic, 0) /\ front' = 1 - front /\ server' = server
        BY <2>1 DEF Produce
      <3> QED BY <3>1, <1>3, StoreIsRegister DEF TypeOK
    <2>2. CASE p # Local
      <3>1. p \in Servers
        BY <2>2 DEF Producers
      <3>2. /\ server' = [server EXCEPT ![p] = Store(server[p], pic, 0)]
            /\ buffer' = buffer /\ front' = front
        BY <2>2 DEF Produce
      <3>3. Store(server[p], pic, 0) \in Register
        BY <1>3, <3>1, StoreIsRegister DEF TypeOK
      <3> QED BY <3>1, <3>2, <3>3 DEF TypeOK
    <2> QED BY <2>1, <2>2
  <1>6. UNCHANGED <<conf, process, worker, isBusy, url, taken, request,
                    counted, failures, restarts, urls, late>>
    BY DEF Produce
  <1> QED BY <1>4, <1>5, <1>6 DEF TypeOK

\* What a request carries, either way, fits into the register it goes to.
LEMMA ServeType == ASSUME TypeOK, Serve PROVE TypeOK'
  <1> DEFINE s == request.url
  <1>1. s \in Servers /\ request.answer \in Register
    BY DEF TypeOK
  <1>2. counted' \in 0 .. MaxCounted
    <2>1. counted \in 0 .. MaxCounted /\ MaxCounted \in Nat
      BY ClientAssumption DEF TypeOK
    <2>2. (Counts /\ counted < MaxCounted /\ counted' = counted + 1) \/ counted' = counted
      BY DEF Serve
    <2> QED BY <2>1, <2>2
  <1>3. /\ request' \in [url : Servers, answer : Register]
        /\ server' \in [Servers -> Register]
        /\ worker' \in {"done", "response"}
    <2>1. CASE conf.direction = "post"
      <3>1. /\ server' = [server EXCEPT ![s] = Store(server[s], request.answer.pic, 0)]
            /\ worker' = "done" /\ request' = request
        BY <2>1 DEF Serve
      <3>2. request.answer.pic \in Picture /\ server[s] \in Register
        BY <1>1 DEF Register, TypeOK
      <3>3. Store(server[s], request.answer.pic, 0) \in Register
        BY <3>2, StoreIsRegister
      <3> QED BY <3>1, <3>3, <1>1 DEF TypeOK
    <2>2. CASE conf.direction # "post"
      <3>1. /\ request' = [request EXCEPT !.answer = server[s]]
            /\ worker' \in {"done", "response"} /\ server' = server
        BY <2>2 DEF Serve
      <3>2. server[s] \in Register
        BY <1>1 DEF TypeOK
      <3> QED BY <3>1, <3>2, <1>1 DEF TypeOK
    <2> QED BY <2>1, <2>2
  <1>4. worker = "transfer"
        /\ UNCHANGED <<conf, process, isBusy, url, taken, buffer, front, made,
                       failures, restarts, urls, late>>
    BY DEF Serve
  <1> QED BY <1>2, <1>3, <1>4 DEF TypeOK
-----------------------------------------------------------------------------
\* Before a direction is chosen nothing was taken; afterwards a getting client has
\* as many frames as it counted, since an answer it looks at has a number.
InStep ==
  /\ conf.direction = "none" => process = "none"
  /\ process = "none" => worker = "none"
  /\ conf.direction # "post" => buffer.num = taken
  /\ worker = "response" => conf.direction = "get" /\ request.answer.num > 0
  /\ \A s \in Servers : server[s].num >= 0
  /\ buffer.num >= 0

\* The one picture that may come late was asked for before the url was set: no
\* request under way is for another url than that of now, once it has come.
Lateness ==
  /\ late \in {0, 1}
  /\ late = 1 /\ worker \in {"transfer", "response"} => request.url = url

Inv == TypeOK /\ InStep /\ Lateness

\* A response: the only step at which both counters move.
LEMMA ResponseStep ==
  ASSUME TypeOK, InStep, OnResponse
  PROVE  /\ taken' \in Nat /\ buffer' \in Register /\ front' \in {0, 1}
         /\ buffer'.num = taken' /\ buffer'.num >= 0
         /\ late' = late \/ (request.url # url /\ late' = late + 1)
  <1> DEFINE s == request.url
             a == request.answer
             num == NumberOf(s, a)
  <1>1. /\ a \in Register /\ a.num \in Int /\ a.pic \in Picture
        /\ buffer \in Register /\ buffer.num \in Int /\ taken \in Nat /\ front \in {0, 1}
    BY DEF TypeOK, Register
  <1>2. conf.direction = "get" /\ a.num > 0 /\ buffer.num = taken
    BY DEF InStep, OnResponse
  <1>3. CASE IsNew(num)
    <2>1. /\ taken' = num /\ front' = 1 - front
          /\ buffer' = Store(buffer, a.pic, FrameNumber(s, a))
          /\ late' = IF s # url THEN late + 1 ELSE late
      BY <1>3 DEF OnResponse
    <2>2. CASE s \in Json
      <3>1. num = a.num /\ FrameNumber(s, a) = a.num
        BY <2>2 DEF NumberOf, FrameNumber
      <3>2. buffer' = [pic |-> a.pic, num |-> a.num]
        BY <2>1, <3>1, <1>1, <1>2 DEF Store
      <3> QED BY <2>1, <3>1, <3>2, <1>1, <1>2 DEF Register
    <2>3. CASE s \notin Json
      <3>1. num = taken + 1 /\ FrameNumber(s, a) = 0
        BY <2>3 DEF NumberOf, FrameNumber
      <3>2. buffer' = [pic |-> a.pic, num |-> buffer.num + 1]
        BY <2>1, <3>1 DEF Store
      <3>3. buffer.num + 1 = taken + 1 /\ taken + 1 \in Nat /\ taken + 1 >= 0
        BY <1>1, <1>2
      <3>4. buffer' \in Register /\ buffer'.num = taken + 1
        BY <1>1, <3>2, <3>3 DEF Register
      <3> QED BY <2>1, <3>1, <3>3, <3>4, <1>1
    <2> QED BY <2>2, <2>3
  <1>4. CASE ~IsNew(num)
    <2>1. UNCHANGED <<taken, buffer, front, late>>
      BY <1>4 DEF OnResponse
    <2> QED BY <2>1, <1>1, <1>2
  <1> QED BY <1>3, <1>4
\* The other steps of the client, which move neither counter.
LEMMA QuietStep ==
  ASSUME TypeOK, InStep, NEW u \in Servers,
         \/ \E direction \in {"get", "post"}, timed \in BOOLEAN : LoadConfig(direction, timed)
         \/ Restart(u) \/ SetUrl(u) \/ Run \/ EnterLoop \/ Tick
         \/ Wait \/ Wake \/ Send \/ Fail \/ Done
  PROVE  TypeOK'
  <1>1. CASE \E direction \in {"get", "post"}, timed \in BOOLEAN : LoadConfig(direction, timed)
    BY <1>1 DEF LoadConfig, TypeOK
  <1>2. CASE Restart(u)
    <2>1. restarts' \in 0 .. MaxRestarts
      BY <1>2, ClientAssumption DEF Restart, TypeOK
    <2>2. server' \in [Servers -> Register]
      BY <1>2, EmptyIsRegister DEF Restart, TypeOK
    <2> QED BY <1>2, <2>1, <2>2 DEF Restart, TypeOK
  <1>3. CASE SetUrl(u)
    <2>1. urls' \in 0 .. MaxUrls
      BY <1>3, ClientAssumption DEF SetUrl, TypeOK
    <2>2. worker' = (IF worker = "waiting" THEN "signalled" ELSE worker) /\ isBusy' = isBusy
      BY <1>3 DEF SetUrl, Signal
    <2>3. url' \in Servers /\ late' \in Nat
      BY <1>3 DEF SetUrl
    <2> QED BY <1>3, <2>1, <2>2, <2>3 DEF SetUrl, TypeOK
  <1>4. CASE Run
    <2>1. worker = "none" /\ ~isBusy
      BY <1>4 DEF Run, TypeOK, InStep
    <2> QED BY <1>4, <2>1 DEF Run, TypeOK
  <1>5. CASE EnterLoop
    BY <1>5 DEF EnterLoop, Signal, TypeOK
  <1>6. CASE Tick
    BY <1>6 DEF Tick, Signal, TypeOK
  <1>7. CASE Wait
    BY <1>7 DEF Wait, TypeOK
  <1>8. CASE Wake
    BY <1>8 DEF Wake, TypeOK
  <1>9. CASE Send
    <2>1. request' \in [url : Servers, answer : Register]
      BY <1>9, EmptyIsRegister DEF Send, TypeOK
    <2>2. worker = "request" /\ worker' \in {"done", "transfer"}
      BY <1>9 DEF Send
    <2> QED BY <1>9, <2>1, <2>2 DEF Send, TypeOK
  <1>10. CASE Fail
    <2>1. failures' \in 0 .. MaxFailures
      BY <1>10, ClientAssumption DEF Fail, TypeOK
    <2> QED BY <1>10, <2>1 DEF Fail, TypeOK
  <1>11. CASE Done
    BY <1>11 DEF Done, TypeOK
  <1> QED BY <1>1, <1>2, <1>3, <1>4, <1>5, <1>6, <1>7, <1>8, <1>9, <1>10, <1>11

\* The number a client takes is a natural number, as its answer has one.
LEMMA ResponseType == ASSUME TypeOK, InStep, OnResponse PROVE TypeOK'
  <1>1. taken' \in Nat /\ buffer' \in Register /\ front' \in {0, 1} /\ late' \in Nat
    BY ResponseStep DEF TypeOK
  <1>2. /\ worker = "response" /\ worker' = "done"
        /\ UNCHANGED <<conf, process, isBusy, url, request, server, made,
                       counted, failures, restarts, urls>>
    BY DEF OnResponse
  <1> QED BY <1>1, <1>2 DEF TypeOK

\* Each step keeps the types.
LEMMA NextTypeOK == ASSUME TypeOK, InStep, Next PROVE TypeOK'
  <1>1. PICK u \in Servers : url = u
    BY DEF TypeOK
  <1>2. ASSUME NEW p \in Producers, Produce(p) PROVE TypeOK'
    BY <1>2, ProduceType
  <1>3. ASSUME NEW s \in Servers, Restart(s) \/ SetUrl(s) PROVE TypeOK'
    BY <1>3, QuietStep
  <1>4. CASE Serve
    BY <1>4, ServeType
  <1>5. CASE OnResponse
    BY <1>5, ResponseType
  <1>6. ASSUME \/ \E direction \in {"get", "post"}, timed \in BOOLEAN : LoadConfig(direction, timed)
               \/ Run \/ EnterLoop \/ Tick \/ Wait \/ Wake \/ Send \/ Fail \/ Done
        PROVE  TypeOK'
    BY <1>1, <1>6, QuietStep
  <1> QED BY <1>2, <1>3, <1>4, <1>5, <1>6 DEF Next

-----------------------------------------------------------------------------
\* A register keeps a number that counts pictures.
LEMMA StoreCounts ==
  ASSUME NEW reg \in Register, reg.num >= 0, NEW pic
  PROVE  Store(reg, pic, 0).num = reg.num + 1 /\ Store(reg, pic, 0).num > 0
  BY DEF Store, Register

\* A picture made locally is one of a posting client only.
LEMMA ProduceInStep ==
  ASSUME TypeOK, InStep, NEW p \in Producers, Produce(p) PROVE InStep'
  <1> DEFINE pic == [from |-> p, n |-> made[p] + 1]
  <1>1. UNCHANGED <<conf, process, worker, request, taken>>
    BY DEF Produce
  <1>2. CASE p = Local
    <2>1. conf.direction = "post" /\ buffer' = Store(buffer, pic, 0) /\ server' = server
      BY <1>2 DEF Produce
    <2>2. buffer'.num >= 0
      BY <2>1, StoreCounts DEF TypeOK, InStep, Register
    <2> QED BY <1>1, <2>1, <2>2 DEF InStep
  <1>3. CASE p # Local
    <2>1. p \in Servers
      BY <1>3 DEF Producers
    <2>2. server' = [server EXCEPT ![p] = Store(server[p], pic, 0)] /\ buffer' = buffer
      BY <1>3 DEF Produce
    <2>3. Store(server[p], pic, 0).num >= 0
      BY <2>1, StoreCounts DEF TypeOK, InStep, Register
    <2>4. \A s \in Servers : server'[s].num >= 0
      BY <2>1, <2>2, <2>3 DEF TypeOK, InStep
    <2> QED BY <1>1, <2>2, <2>4 DEF InStep
  <1> QED BY <1>2, <1>3

\* A server with a picture answers with the number of that picture; one without
\* is not listened to.
LEMMA ServeInStep == ASSUME TypeOK, InStep, Serve PROVE InStep'
  <1> DEFINE s == request.url
  <1>1. s \in Servers /\ server[s] \in Register /\ server[s].num >= 0 /\ server[s].num \in Int
    BY DEF TypeOK, InStep, Register
  <1>2. worker = "transfer" /\ UNCHANGED <<conf, process, taken, buffer>>
    BY DEF Serve
  <1>3. conf.direction \in {"get", "post"}
    BY <1>2 DEF TypeOK, InStep
  <1>4. CASE conf.direction = "post"
    <2>1. /\ server' = [server EXCEPT ![s] = Store(server[s], request.answer.pic, 0)]
          /\ worker' = "done"
      BY <1>4 DEF Serve
    <2>2. Store(server[s], request.answer.pic, 0).num >= 0
      BY <1>1, StoreCounts
    <2>3. \A r \in Servers : server'[r].num >= 0
      BY <1>1, <2>1, <2>2 DEF TypeOK, InStep
    <2> QED BY <1>2, <1>3, <1>4, <2>1, <2>3 DEF InStep
  <1>5. CASE conf.direction = "get"
    <2>1. /\ request' = [request EXCEPT !.answer = server[s]] /\ server' = server
          /\ worker' = IF server[s].num = 0 THEN "done" ELSE "response"
      BY <1>5 DEF Serve
    <2>2. request'.answer = server[s]
      BY <2>1 DEF TypeOK
    <2>3. worker' = "response" => request'.answer.num > 0
      BY <1>1, <2>1, <2>2
    <2> QED BY <1>2, <1>3, <1>5, <2>1, <2>3 DEF InStep
  <1> QED BY <1>3, <1>4, <1>5

\* The other steps leave the counters in step.
LEMMA QuietInStep ==
  ASSUME TypeOK, InStep, NEW u \in Servers,
         \/ \E direction \in {"get", "post"}, timed \in BOOLEAN : LoadConfig(direction, timed)
         \/ Restart(u) \/ SetUrl(u) \/ Run \/ EnterLoop \/ Tick
         \/ Wait \/ Wake \/ Send \/ Fail \/ Done
  PROVE  InStep'
  <1>1. CASE \E direction \in {"get", "post"}, timed \in BOOLEAN : LoadConfig(direction, timed)
    BY <1>1 DEF LoadConfig, InStep
  <1>2. CASE Restart(u)
    <2>1. server' = [server EXCEPT ![u] = Empty] /\ Empty.num = 0
      BY <1>2 DEF Restart, Empty
    <2>2. \A s \in Servers : server'[s].num >= 0
      BY <2>1 DEF TypeOK, InStep
    <2> QED BY <1>2, <2>2 DEF Restart, InStep
  <1>3. CASE SetUrl(u)
    BY <1>3 DEF SetUrl, Signal, InStep
  <1>4. CASE Run
    BY <1>4 DEF Run, InStep
  <1>5. CASE EnterLoop
    BY <1>5 DEF EnterLoop, Signal, InStep
  <1>6. CASE Tick
    BY <1>6 DEF Tick, Signal, InStep
  <1>7. CASE Wait
    BY <1>7 DEF Wait, InStep
  <1>8. CASE Wake
    BY <1>8 DEF Wake, InStep
  <1>9. CASE Send
    BY <1>9 DEF Send, InStep
  <1>10. CASE Fail
    BY <1>10 DEF Fail, InStep
  <1>11. CASE Done
    BY <1>11 DEF Done, InStep
  <1> QED BY <1>1, <1>2, <1>3, <1>4, <1>5, <1>6, <1>7, <1>8, <1>9, <1>10, <1>11

\* A response moves both or none.
LEMMA ResponseInStep == ASSUME TypeOK, InStep, OnResponse PROVE InStep'
  <1>1. buffer'.num = taken' /\ buffer'.num >= 0
    BY ResponseStep
  <1>2. /\ worker = "response" /\ worker' = "done"
        /\ UNCHANGED <<conf, process, server>>
    BY DEF OnResponse
  <1> QED BY <1>1, <1>2 DEF InStep

\* Each step keeps the client in step.
LEMMA NextInStep == ASSUME TypeOK, InStep, Next PROVE InStep'
  <1>1. PICK u \in Servers : url = u
    BY DEF TypeOK
  <1>2. ASSUME NEW p \in Producers, Produce(p) PROVE InStep'
    BY <1>2, ProduceInStep
  <1>3. ASSUME NEW s \in Servers, Restart(s) \/ SetUrl(s) PROVE InStep'
    BY <1>3, QuietInStep
  <1>4. CASE Serve
    BY <1>4, ServeInStep
  <1>5. CASE OnResponse
    BY <1>5, ResponseInStep
  <1>6. ASSUME \/ \E direction \in {"get", "post"}, timed \in BOOLEAN : LoadConfig(direction, timed)
               \/ Run \/ EnterLoop \/ Tick \/ Wait \/ Wake \/ Send \/ Fail \/ Done
        PROVE  InStep'
    BY <1>1, <1>6, QuietInStep
  <1> QED BY <1>2, <1>3, <1>4, <1>5, <1>6 DEF Next

-----------------------------------------------------------------------------
\* Only on_response counts a late picture, and only for a request that was sent
\* before the url was set; the next request is for the url of now.
LEMMA NextLateness == ASSUME TypeOK, InStep, Lateness, Next PROVE Lateness'
  <1>1. ASSUME NEW p \in Producers, Produce(p) PROVE Lateness'
    BY <1>1 DEF Produce, Lateness
  <1>2. ASSUME NEW s \in Servers, Restart(s) PROVE Lateness'
    BY <1>2 DEF Restart, Lateness
  <1>3. ASSUME NEW s \in Servers, SetUrl(s) PROVE Lateness'
    BY <1>3 DEF SetUrl, Lateness
  <1>4. CASE Serve
    <2>1. request'.url = request.url /\ worker = "transfer" /\ late' = late /\ url' = url
      BY <1>4 DEF Serve, TypeOK
    <2> QED BY <2>1 DEF Lateness
  <1>5. CASE OnResponse
    <2>1. late' = late \/ (request.url # url /\ late' = late + 1)
      BY <1>5, ResponseStep
    <2>2. worker = "response" /\ worker' = "done"
      BY <1>5 DEF OnResponse
    <2> QED BY <2>1, <2>2 DEF Lateness
  <1>6. CASE Send
    <2>1. request'.url = url /\ late' = late /\ url' = url
      BY <1>6 DEF Send
    <2> QED BY <2>1 DEF Lateness
  <1>7. CASE \/ \E direction \in {"get", "post"}, timed \in BOOLEAN : LoadConfig(direction, timed)
            \/ Run \/ EnterLoop \/ Tick \/ Wait \/ Wake \/ Fail \/ Done
    <2>1. UNCHANGED <<late, url, request>>
      BY <1>7 DEF LoadConfig, Run, EnterLoop, Tick, Wait, Wake, Fail, Done
    <2>2. worker' = worker \/ worker' \in {"start", "waiting", "signalled", "request", "done"}
      BY <1>7 DEF LoadConfig, Run, EnterLoop, Tick, Signal, Wait, Wake, Fail, Done
    <2> QED BY <2>1, <2>2 DEF Lateness
  <1> QED BY <1>1, <1>2, <1>3, <1>4, <1>5, <1>6, <1>7 DEF Next

\* Nothing was taken yet.
LEMMA InitInv == Init => Inv
  <1> SUFFICES ASSUME Init PROVE Inv
    OBVIOUS
  <1>1. TypeOK
    BY InitTypeOK
  <1>2. \A s \in Servers : server[s].num = 0
    BY DEF Init, Empty
  <1>3. InStep
    BY <1>2 DEF Init, Empty, InStep
  <1>4. Lateness
    BY DEF Init, Lateness
  <1> QED BY <1>1, <1>3, <1>4 DEF Inv

\* The invariant of the client is inductive.
LEMMA ClientStep == Inv /\ [Next]_vars => Inv'
  <1> SUFFICES ASSUME Inv, [Next]_vars PROVE Inv'
    OBVIOUS
  <1>1. TypeOK /\ InStep /\ Lateness
    BY DEF Inv
  <1>2. CASE Next
    BY <1>1, <1>2, NextTypeOK, NextInStep, NextLateness DEF Inv
  <1>3. CASE UNCHANGED vars
    <2>1. TypeOK'
      BY <1>1, <1>3 DEF vars, TypeOK
    <2>2. InStep' /\ Lateness'
      BY <1>1, <1>3 DEF vars, InStep, Lateness
    <2> QED BY <2>1, <2>2 DEF Inv
  <1> QED BY <1>2, <1>3

\* What a client starts with, and keeps.
LEMMA InvCorrect == Spec => []Inv
  BY InitInv, ClientStep, PTL DEF Spec

\* Every variable has its type, the number of a frame is a natural number, and
\* is_busy is set exactly while a request is made (http-client.c:463-486).
THEOREM ClientTypeCorrect == Spec => []TypeOK
  <1>1. Inv => TypeOK
    BY DEF Inv
  <1> QED BY <1>1, InvCorrect, PTL

\* The two counters of a getting client agree and at most one late picture is
\* published, over any number of servers, restarts and changes of the url
\* (http-client.c:307, 342; io-input.c:85).
THEOREM ClientStaysInStep == Spec => []ClientInStep
  <1>1. Inv => ClientInStep
    BY DEF Inv, InStep, Lateness, ClientInStep, NumbersAgree, OneLateFrame
  <1> QED BY <1>1, InvCorrect, PTL

-----------------------------------------------------------------------------
\* Arrays from which the last entry fills the place of the one removed.

\* No entry of an array is there twice, and what its entries are.
Distinct(s) == \A i, j \in DOMAIN s : s[i] = s[j] => i = j
Elements(s) == {s[i] : i \in DOMAIN s}

\* A new entry goes to the end.
LEMMA AddedLast ==
  ASSUME NEW S, NEW s \in Seq(S), Distinct(s), NEW c \in S, c \notin Elements(s)
  PROVE  /\ Append(s, c) \in Seq(S) /\ Len(Append(s, c)) = Len(s) + 1
         /\ Distinct(Append(s, c))
         /\ Elements(Append(s, c)) = Elements(s) \cup {c}
<1> DEFINE t == Append(s, c)
<1>1. /\ t \in Seq(S) /\ Len(t) = Len(s) + 1 /\ Len(s) \in Nat
      /\ \A i \in 1 .. Len(s) : t[i] = s[i]
      /\ t[Len(s) + 1] = c
      /\ DOMAIN s = 1 .. Len(s) /\ DOMAIN t = 1 .. Len(s) + 1
  OBVIOUS
<1> HIDE DEF t
<1>2. \A i \in 1 .. Len(s) : s[i] # c
  BY <1>1 DEF Elements
<1>3. \A i \in 1 .. Len(s) + 1 : i \in 1 .. Len(s) \/ i = Len(s) + 1
  BY <1>1
<1>4. Distinct(t)
  BY <1>1, <1>2, <1>3 DEF Distinct
<1>5. Elements(t) = Elements(s) \cup {c}
  <2>1. \A x \in Elements(t) : x \in Elements(s) \cup {c}
    BY <1>1, <1>3 DEF Elements
  <2>2. \A i \in 1 .. Len(s) : i \in 1 .. Len(s) + 1
    BY <1>1
  <2>3. \A x \in Elements(s) : x \in Elements(t)
    BY <1>1, <2>2 DEF Elements
  <2>4. Len(s) + 1 \in 1 .. Len(s) + 1
    BY <1>1
  <2>5. c \in Elements(t)
    BY <1>1, <2>4 DEF Elements
  <2> QED
    BY <2>1, <2>3, <2>5
<1> QED
  BY <1>1, <1>4, <1>5 DEF t

\* The last entry fills the gap of the one removed.
LEMMA LastFillsGap ==
  ASSUME NEW S, NEW s \in Seq(S), Distinct(s), NEW k \in DOMAIN s, NEW t,
         t = SubSeq([s EXCEPT ![k] = s[Len(s)]], 1, Len([s EXCEPT ![k] = s[Len(s)]]) - 1)
  PROVE  /\ t \in Seq(S) /\ Len(t) = Len(s) - 1
         /\ Distinct(t)
         /\ Elements(t) = Elements(s) \ {s[k]}
<1> DEFINE n == Len(s)
           r == [s EXCEPT ![k] = s[n]]
<1>0. n \in Nat /\ DOMAIN s = 1 .. n /\ \A i \in 1 .. n : s[i] \in S
  OBVIOUS
<1>1. n \in 1 .. n /\ k \in 1 .. n /\ s[n] \in S
  BY <1>0
<1>2. r \in Seq(S) /\ Len(r) = n /\ \A i \in 1 .. n : r[i] = IF i = k THEN s[n] ELSE s[i]
  BY <1>1, ExceptSeq
<1>3. t = SubSeq(r, 1, n - 1)
  BY <1>2
<1> HIDE DEF n, r
<1>4. \A i \in 1 .. n - 1 : i \in 1 .. n /\ i # n
  BY <1>0
<1>5. \A i \in 1 .. n : i \in 1 .. n - 1 \/ i = n
  BY <1>0
<1>6. t \in Seq(S) /\ Len(t) = n - 1 /\ \A i \in 1 .. n - 1 : t[i] = r[i]
  <2>1. 1 \in Int /\ n - 1 \in Int /\ \A i \in 1 .. n - 1 : r[i] \in S
    BY <1>0, <1>1, <1>2, <1>4
  <2>2. /\ SubSeq(r, 1, n - 1) \in Seq(S)
        /\ Len(SubSeq(r, 1, n - 1)) = IF 1 <= n - 1 THEN n - 1 - 1 + 1 ELSE 0
        /\ \A i \in 1 .. n - 1 - 1 + 1 : SubSeq(r, 1, n - 1)[i] = r[1 + i - 1]
    BY <1>0, <1>1, <1>2, <2>1
  <2>3. Len(t) = n - 1
    BY <1>0, <1>1, <1>3, <2>2
  <2>4. \A i \in 1 .. n - 1 : i \in 1 .. n - 1 - 1 + 1 /\ 1 + i - 1 = i
    BY <1>0
  <2> QED
    BY <1>3, <2>2, <2>3, <2>4
<1>7. \A i \in 1 .. n - 1 : t[i] = IF i = k THEN s[n] ELSE s[i]
  BY <1>2, <1>4, <1>6
<1>8. DOMAIN t = 1 .. n - 1
  BY <1>6
<1>9. \A i, j \in 1 .. n : s[i] = s[j] => i = j
  BY <1>0 DEF Distinct
<1>10. Distinct(t)
  BY <1>1, <1>4, <1>7, <1>8, <1>9 DEF Distinct
<1>11. \A x \in Elements(t) : x \in Elements(s) \ {s[k]}
  <2> SUFFICES ASSUME NEW i \in 1 .. n - 1 PROVE t[i] \in Elements(s) /\ t[i] # s[k]
    BY <1>8 DEF Elements
  <2>1. \E j \in 1 .. n : j # k /\ t[i] = s[j]
    BY <1>1, <1>4, <1>7
  <2> QED
    BY <2>1, <1>0, <1>1, <1>9 DEF Elements
<1>12. \A x \in Elements(s) \ {s[k]} : x \in Elements(t)
  <2> SUFFICES ASSUME NEW i \in 1 .. n, s[i] # s[k] PROVE s[i] \in Elements(t)
    BY <1>0 DEF Elements
  <2>1. CASE i = n
    <3>1. k \in 1 .. n - 1 /\ t[k] = s[n]
      BY <1>1, <1>5, <1>7, <2>1
    <3> QED
      BY <1>8, <2>1, <3>1 DEF Elements
  <2>2. CASE i # n
    <3>1. i \in 1 .. n - 1 /\ t[i] = s[i]
      BY <1>5, <1>7, <2>2
    <3> QED
      BY <1>8, <3>1 DEF Elements
  <2> QED
    BY <2>1, <2>2
<1> QED
  BY <1>6, <1>10, <1>11, <1>12 DEF n

-----------------------------------------------------------------------------
\* The web sockets.  The sessions that should be listed are those of the open
\* connections that were not refused.
Listed == {c \in Conns : conn[c] \in {"open", "closing"}} \ refused

\* Who was refused has a connection, or had one.
SocketInv ==
  /\ Sockets!TypeOK
  /\ Len(producers) <= MaxProducers /\ Distinct(producers)
  /\ Elements(producers) = Listed /\ sessions \ refused = Listed
  /\ \A c \in refused : conn[c] # "none"

\* Nobody has connected yet.
LEMMA SocketInit == Sockets!Init => SocketInv
<1> SUFFICES ASSUME Sockets!Init PROVE SocketInv
  OBVIOUS
<1>1. Sockets!TypeOK
  <2>1. conn \in [Conns -> {"none", "open", "closing", "closed"}] /\ session \in [Conns -> 0 .. 2]
    BY DEF Sockets!Init
  <2>2. device \in [Conns -> BOOLEAN] /\ aborted \in BOOLEAN
    BY DEF Sockets!Init
  <2> QED
    BY <2>1, <2>2 DEF Sockets!Init, Sockets!TypeOK
<1>2. Len(producers) <= MaxProducers /\ Distinct(producers) /\ Elements(producers) = {}
  BY InputsAssumption DEF Sockets!Init, Distinct, Elements
<1>3. Listed = {}
  BY DEF Sockets!Init, Listed
<1> QED
  BY <1>1, <1>2, <1>3 DEF Sockets!Init, SocketInv

\* A connection is accepted: its session is listed while there is room.
LEMMA SocketAccept ==
  ASSUME SocketInv, NEW c \in Conns, Sockets!OnWsSourceProducer(c)
  PROVE  SocketInv'
<1> USE DEF SocketInv, Sockets!OnWsSourceProducer
<1>0. conn[c] = "none" /\ c \notin refused /\ c \notin Listed
  BY DEF Listed, Sockets!TypeOK
<1>1. conn' = [conn EXCEPT ![c] = "open"] /\ sessions' = sessions \cup {c}
  OBVIOUS
<1>2. conn'[c] = "open" /\ \A d \in Conns \ {c} : conn'[d] = conn[d]
  BY <1>1 DEF Sockets!TypeOK
<1>3. \A d \in refused' : conn'[d] # "none"
  BY <1>2 DEF Sockets!TypeOK
<1>4. CASE Sockets!HasRoom
  <2>1. producers' = Append(producers, c) /\ refused' = refused
    BY <1>4
  <2>2. /\ producers' \in Seq(Conns) /\ Len(producers') = Len(producers) + 1
        /\ Distinct(producers') /\ Elements(producers') = Elements(producers) \cup {c}
    BY <1>0, <2>1, AddedLast DEF Sockets!TypeOK
  <2>3. Sockets!TypeOK'
    BY <1>1, <2>1, <2>2 DEF Sockets!TypeOK
  <2>4. Len(producers') <= MaxProducers
    BY <1>4, <2>2, InputsAssumption DEF Sockets!HasRoom, Sockets!TypeOK
  <2>5. Listed' = Listed \cup {c}
    BY <1>0, <1>2, <2>1 DEF Listed
  <2>6. sessions' \ refused' = Listed'
    BY <1>0, <1>1, <2>1, <2>5
  <2> QED
    BY <1>3, <2>2, <2>3, <2>4, <2>5, <2>6
<1>5. CASE ~Sockets!HasRoom
  <2>1. producers' = producers /\ refused' = refused \cup {c}
    BY <1>5
  <2>2. Sockets!TypeOK'
    BY <1>1, <2>1 DEF Sockets!TypeOK
  <2>3. Listed' = Listed
    BY <1>0, <1>2, <2>1 DEF Listed
  <2>4. sessions' \ refused' = Listed'
    BY <1>0, <1>1, <2>1, <2>3
  <2> QED
    BY <1>3, <2>1, <2>2, <2>3, <2>4
<1> QED
  BY <1>4, <1>5

\* A step that changes neither the array nor which connections are open.
LEMMA SocketKeeps ==
  ASSUME SocketInv, Sockets!TypeOK', UNCHANGED <<producers, sessions, refused>>,
         \A c \in Conns : conn'[c] \in {"open", "closing"} <=> conn[c] \in {"open", "closing"},
         \A c \in Conns : conn'[c] = "none" <=> conn[c] = "none"
  PROVE  SocketInv'
<1>1. Listed' = Listed
  BY DEF Listed
<1> QED
  BY <1>1 DEF SocketInv, Sockets!TypeOK

\* A session is removed with its connection, if it is listed.
LEMMA SocketCloses ==
  ASSUME SocketInv, NEW c \in Conns, Sockets!OnWsSessionClosed(c)
  PROVE  SocketInv'
<1> USE DEF SocketInv, Sockets!OnWsSessionClosed
<1>0. conn[c] \in {"open", "closing"} /\ refused' = refused
  OBVIOUS
<1>1. conn' = [conn EXCEPT ![c] = "closed"] /\ session' = [session EXCEPT ![c] = 2]
  OBVIOUS
<1>2. conn'[c] = "closed" /\ \A d \in Conns \ {c} : conn'[d] = conn[d]
  BY <1>1 DEF Sockets!TypeOK
<1>3. \A d \in refused' : conn'[d] # "none"
  BY <1>0, <1>2 DEF Sockets!TypeOK
<1>4. Listed' = Listed \ {c}
  BY <1>0, <1>2 DEF Listed
<1>5. Elements(producers) = Sockets!Range(producers)
  BY DEF Elements, Sockets!Range
<1>6. CASE c \in Elements(producers)
  <2>1. PICK k \in DOMAIN producers : producers' = Sockets!RemovedAt(k) /\ producers[k] = c
    BY <1>5, <1>6 DEF Elements
  <2>2. producers' = SubSeq([producers EXCEPT ![k] = producers[Len(producers)]], 1,
                            Len([producers EXCEPT ![k] = producers[Len(producers)]]) - 1)
    BY <2>1 DEF Sockets!RemovedAt, Sockets!Front, Sockets!Last
  <2>3. /\ producers' \in Seq(Conns) /\ Len(producers') = Len(producers) - 1
        /\ Distinct(producers') /\ Elements(producers') = Elements(producers) \ {c}
    <3> HIDE DEF SocketInv, Sockets!OnWsSessionClosed
    <3>1. producers \in Seq(Conns) /\ Distinct(producers) /\ k \in DOMAIN producers
      BY <2>1 DEF SocketInv, Sockets!TypeOK
    <3>2. /\ producers' \in Seq(Conns) /\ Len(producers') = Len(producers) - 1
          /\ Distinct(producers') /\ Elements(producers') = Elements(producers) \ {producers[k]}
      BY <2>2, <3>1, LastFillsGap
    <3> QED
      BY <2>1, <3>2
  <2>4. sessions' = sessions \ {c}
    BY <1>5, <1>6
  <2>5. Sockets!TypeOK'
    BY <1>0, <1>1, <2>3, <2>4 DEF Sockets!TypeOK
  <2>6. Len(producers') <= MaxProducers
    <3>1. producers \in Seq(Conns) /\ Len(producers) <= MaxProducers /\ MaxProducers \in Nat
      BY <1>0, InputsAssumption DEF SocketInv, Sockets!TypeOK
    <3> QED
      BY <2>3, <3>1
  <2> QED
    BY <1>0, <1>3, <1>4, <2>3, <2>4, <2>5, <2>6
<1>7. CASE c \notin Elements(producers)
  <2>1. producers' = producers /\ sessions' = sessions
    BY <1>5, <1>7
  <2>2. Sockets!TypeOK'
    BY <1>0, <1>1, <2>1 DEF Sockets!TypeOK
  <2>3. Listed' = Listed
    BY <1>4, <1>7
  <2> QED
    BY <1>0, <1>3, <2>1, <2>2, <2>3
<1> QED
  BY <1>6, <1>7

\* The invariant of the web socket server is inductive.
LEMMA SocketStep == SocketInv /\ [Sockets!Next]_Sockets!vars => SocketInv'
<1> SUFFICES ASSUME SocketInv, [Sockets!Next]_Sockets!vars PROVE SocketInv'
  OBVIOUS
<1>0. Sockets!TypeOK
  BY DEF SocketInv
<1>1. ASSUME NEW c \in Conns, Sockets!PeerCloses(c) PROVE SocketInv'
  <2>1. Sockets!TypeOK'
    BY <1>0, <1>1 DEF Sockets!PeerCloses, Sockets!Close, Sockets!TypeOK
  <2> QED
    BY <1>0, <1>1, <2>1, SocketKeeps DEF Sockets!PeerCloses, Sockets!Close, Sockets!TypeOK
<1>2. ASSUME NEW c \in Conns, NEW m \in Sockets!Messages, Sockets!OnWsProducerMessage(c, m)
      PROVE  SocketInv'
  <2>1. Sockets!TypeOK'
    BY <1>0, <1>2 DEF Sockets!OnWsProducerMessage, Sockets!Close, Sockets!TypeOK
  <2> QED
    BY <1>0, <1>2, <2>1, SocketKeeps
    DEF Sockets!OnWsProducerMessage, Sockets!Close, Sockets!TypeOK
<1>3. CASE UNCHANGED Sockets!vars
  BY <1>3 DEF Sockets!vars, SocketInv, Sockets!TypeOK, Listed, Elements, Distinct
<1> QED
  BY <1>1, <1>2, <1>3, SocketAccept, SocketCloses DEF Sockets!Next

\* The invariant says what the specification asks for.
LEMMA SocketHolds == SocketInv => Sockets!SessionsHeld
<1>1. Sockets!Range(producers) = Elements(producers)
  BY DEF Sockets!Range, Elements
<1> QED
  BY <1>1 DEF SocketInv, Sockets!SessionsHeld, Distinct, Listed

\* Whoever comes and goes, the array lists each open session once, within its slots,
\* and no session that is freed (websocket.c:225-290).
THEOREM SessionsAreHeld == Sockets!Spec => []Sockets!SessionsHeld
  BY SocketHolds, SocketInit, SocketStep, PTL DEF Sockets!Spec

-----------------------------------------------------------------------------
\* The plugin manager.  What has been found among the plugins is mapped, and stays so.
PluginInv ==
  /\ Manager!TypeOK
  /\ ~crashed =>
       /\ Distinct(plugins)
       /\ \A f \in Manager!Files : handles[f] = (IF f \in Elements(plugins) THEN 1 ELSE 0)
       /\ Len(plugins) <= (IF allocated THEN maxSize ELSE 0)
       /\ users \subseteq mapped /\ Elements(plugins) \subseteq mapped

\* The range of the specification and the elements of the lemmas above.
LEMMA PluginRange == Manager!Range(plugins) = Elements(plugins)
BY DEF Manager!Range, Elements

\* The files of the folder of plugins have a type.
LEMMA FolderFiles == Folder \in Seq(Manager!Files) /\ Len(Folder) \in Nat
<1>1. Folder \in Seq(DOMAIN TypeOf)
  BY InputsAssumption
<1>2. \A i \in 1 .. Len(Folder) : Folder[i] \in Manager!Files
  BY <1>1 DEF Manager!Files, Manager!Range
<1> QED
  BY <1>1, <1>2

\* No plugin has been loaded.
LEMMA PluginInit == Manager!Init => PluginInv
<1> SUFFICES ASSUME Manager!Init PROVE PluginInv
  OBVIOUS
<1> USE DEF Manager!Init
<1>1. handles \in [Manager!Files -> Nat] /\ \A f \in Manager!Files : handles[f] = 0
  OBVIOUS
<1>2. plugins = <<>> /\ loading = <<>> /\ Elements(plugins) = {} /\ Distinct(plugins)
  BY DEF Elements, Distinct
<1>3. {allocated, crashed} \subseteq BOOLEAN
  OBVIOUS
<1>4. Manager!TypeOK
  BY <1>1, <1>2, <1>3, InputsAssumption DEF Manager!TypeOK
<1> QED
  BY <1>1, <1>2, <1>4 DEF PluginInv

\* The array that is made for so many plugins has room for them.
LEMMA RoundUpFacts ==
  ASSUME NEW size \in Nat
  PROVE  Manager!RoundUp(size) \in Nat /\ Manager!RoundUp(size) >= size
<1> DEFINE q == (size + Chunk - 1) \div Chunk
           r == (size + Chunk - 1) % Chunk
<1>0. Chunk \in Nat /\ Chunk > 0
  BY InputsAssumption
<1>1. q \in Nat /\ r \in 0 .. Chunk - 1 /\ size + Chunk - 1 = Chunk * q + r
  BY <1>0
<1>2. Manager!RoundUp(size) = q * Chunk
  BY DEF Manager!RoundUp
<1> HIDE DEF q, r
<1>3. q * Chunk \in Nat /\ q * Chunk = Chunk * q
  BY <1>0, <1>1
<1> QED
  BY <1>0, <1>1, <1>2, <1>3

\* The array grows in whole chunks, to more than what it has to hold, and never shrinks.
LEMMA ResizeFacts ==
  ASSUME Manager!TypeOK, NEW size \in Nat, Manager!Resize(size)
  PROVE  /\ maxSize' \in Nat /\ allocated' \in BOOLEAN
         /\ maxSize' >= maxSize /\ maxSize' >= size
         /\ allocated => allocated'
<1> DEFINE wanted == IF size = 0 THEN Chunk ELSE size
<1>1. wanted \in Nat /\ wanted >= size /\ maxSize \in Nat /\ allocated \in BOOLEAN
  BY InputsAssumption DEF Manager!TypeOK
<1>2. CASE wanted <= maxSize
  <2>1. maxSize' = maxSize /\ allocated' = allocated
    BY <1>2 DEF Manager!Resize
  <2>2. maxSize' \in Nat /\ maxSize' >= maxSize /\ maxSize' >= size
    BY <1>1, <1>2, <2>1
  <2> QED
    BY <1>1, <2>1, <2>2
<1>3. CASE ~(wanted <= maxSize)
  <2>1. maxSize' = Manager!RoundUp(wanted) /\ allocated' = TRUE
    BY <1>3 DEF Manager!Resize
  <2>2. maxSize' \in Nat /\ maxSize' >= wanted
    BY <1>1, <2>1, RoundUpFacts
  <2>3. maxSize' \in Nat /\ maxSize' >= maxSize /\ maxSize' >= size
    BY <1>1, <1>3, <2>2
  <2> QED
    BY <2>1, <2>3
<1> QED
  BY <1>2, <1>3

\* A plugin that is opened goes to the end of the array, unless it is there.
LEMMA PluginAdd ==
  ASSUME PluginInv, ~crashed, NEW f \in Manager!Files, Manager!Add(f),
         users' = users, loading' \in Seq(Manager!Files),
         opens + 1 + Len(loading') <= MaxOpens
  PROVE  PluginInv'
<1>0. /\ plugins \in Seq(Manager!Files) /\ maxSize \in Nat /\ loading \in Seq(Manager!Files)
      /\ handles \in [Manager!Files -> Nat]
      /\ mapped \subseteq Manager!Files /\ users \subseteq Manager!Files
      /\ opens \in Nat /\ Len(loading') \in Nat /\ Len(plugins) \in Nat
  BY DEF PluginInv, Manager!TypeOK
<1>b. allocated \in BOOLEAN /\ crashed \in BOOLEAN
  BY DEF PluginInv, Manager!TypeOK
<1>o. MaxOpens \in Nat
  BY InputsAssumption
<1>1. /\ Distinct(plugins) /\ users \subseteq mapped /\ Elements(plugins) \subseteq mapped
      /\ \A g \in Manager!Files : handles[g] = (IF g \in Elements(plugins) THEN 1 ELSE 0)
      /\ Len(plugins) <= (IF allocated THEN maxSize ELSE 0)
  BY DEF PluginInv
<1>2. CASE f \in Elements(plugins)
  <2>1. UNCHANGED <<plugins, allocated, maxSize, handles, mapped, opens, crashed>>
    BY <1>2, PluginRange DEF Manager!Add
  <2>2. opens' + Len(loading') <= MaxOpens
    BY <1>0, <1>o, <2>1
  <2>3. Manager!TypeOK'
    BY <1>0, <1>b, <2>1, <2>2 DEF Manager!TypeOK
  <2>4. Distinct(plugins)' /\ Elements(plugins)' = Elements(plugins)
    BY <1>1, <2>1 DEF Elements, Distinct
  <2>5. Len(plugins') <= (IF allocated' THEN maxSize' ELSE 0)
    BY <1>1, <2>1
  <2> QED
    BY <1>1, <2>1, <2>3, <2>4, <2>5 DEF PluginInv
<1>3. CASE f \notin Elements(plugins)
  <2>1. /\ Manager!Resize(Len(plugins) + 1) /\ Manager!New(f)
        /\ plugins' = IF TypeOf[f] # "" /\ allocated' THEN Append(plugins, f) ELSE plugins
        /\ crashed' = (TypeOf[f] # "" /\ ~allocated')
    BY <1>3, PluginRange DEF Manager!Add
  <2>2. /\ maxSize' \in Nat /\ allocated' \in BOOLEAN
        /\ maxSize' >= maxSize /\ maxSize' >= Len(plugins) + 1
        /\ allocated => allocated'
    <3>1. Len(plugins) + 1 \in Nat /\ Manager!TypeOK
      BY <1>0 DEF PluginInv
    <3> QED
      BY <2>1, <3>1, ResizeFacts
  <2>3. /\ opens' = opens + 1 /\ mapped' = mapped \cup {f}
        /\ handles' = IF TypeOf[f] = "" THEN handles ELSE [handles EXCEPT ![f] = @ + 1]
    BY <2>1 DEF Manager!New
  <2>4. handles' \in [Manager!Files -> Nat] /\ opens' \in Nat /\ opens' + Len(loading') <= MaxOpens
    <3>1. opens' \in Nat /\ opens' + Len(loading') <= MaxOpens
      <4>1. opens' = opens + 1 /\ opens \in Nat
        BY <1>0, <2>3
      <4> QED
        BY <1>o, <4>1
    <3>2. handles' \in [Manager!Files -> Nat]
      <4>1. CASE TypeOf[f] = ""
        BY <1>0, <2>3, <4>1
      <4>2. CASE TypeOf[f] # ""
        <5>1. handles' = [handles EXCEPT ![f] = handles[f] + 1] /\ handles \in [Manager!Files -> Nat]
          BY <1>0, <2>3, <4>2
        <5> QED
          BY <5>1
      <4> QED
        BY <4>1, <4>2
    <3> QED
      BY <3>1, <3>2
  <2>5. crashed' \in BOOLEAN
    BY <2>1
  <2>6. CASE TypeOf[f] # "" /\ allocated'
    <3>1. plugins' = Append(plugins, f) /\ ~crashed'
      BY <2>1, <2>6
    <3>2. /\ plugins' \in Seq(Manager!Files) /\ Len(plugins') = Len(plugins) + 1
          /\ Distinct(plugins') /\ Elements(plugins') = Elements(plugins) \cup {f}
      BY <1>0, <1>1, <1>3, <3>1, AddedLast
    <3>3. handles' = [handles EXCEPT ![f] = @ + 1]
      BY <2>3, <2>6
    <3>4. \A g \in Manager!Files : handles'[g] = (IF g \in Elements(plugins') THEN 1 ELSE 0)
      BY <1>0, <1>1, <1>3, <3>2, <3>3
    <3>5. Manager!TypeOK'
      BY <1>0, <2>2, <2>3, <2>4, <2>5, <3>2 DEF Manager!TypeOK
    <3> QED
      BY <1>1, <2>2, <2>3, <2>6, <3>2, <3>4, <3>5 DEF PluginInv
  <2>7. CASE TypeOf[f] = ""
    <3>1. plugins' = plugins /\ handles' = handles
      BY <2>1, <2>3, <2>7
    <3>2. Len(plugins) <= (IF allocated' THEN maxSize' ELSE 0)
      <4>1. CASE allocated
        BY <1>0, <1>1, <2>2, <4>1
      <4>2. CASE ~allocated
        BY <1>0, <1>1, <2>2, <4>2
      <4> QED
        BY <4>1, <4>2
    <3>3. Manager!TypeOK'
      BY <1>0, <2>2, <2>3, <2>4, <2>5, <3>1 DEF Manager!TypeOK
    <3>4. Distinct(plugins)' /\ Elements(plugins)' = Elements(plugins)
      BY <1>1, <3>1 DEF Elements, Distinct
    <3> QED
      BY <1>1, <2>3, <3>1, <3>2, <3>3, <3>4 DEF PluginInv
  <2>8. CASE TypeOf[f] # "" /\ ~allocated'
    <3>1. crashed' /\ plugins' = plugins
      BY <2>1, <2>8
    <3>2. Manager!TypeOK'
      BY <1>0, <2>2, <2>3, <2>4, <2>5, <3>1 DEF Manager!TypeOK
    <3> QED
      BY <3>1, <3>2 DEF PluginInv
  <2> QED
    BY <2>6, <2>7, <2>8
<1> QED
  BY <1>2, <1>3

\* A plugin that is closed leaves the array with its handle.
LEMMA PluginUnload ==
  ASSUME PluginInv, ~crashed, NEW f \in Manager!Files, Manager!Unload(f)
  PROVE  PluginInv'
<1>0. /\ plugins \in Seq(Manager!Files) /\ handles \in [Manager!Files -> Nat]
      /\ Distinct(plugins) /\ users \subseteq mapped /\ Elements(plugins) \subseteq mapped
      /\ \A g \in Manager!Files : handles[g] = (IF g \in Elements(plugins) THEN 1 ELSE 0)
      /\ Len(plugins) <= (IF allocated THEN maxSize ELSE 0) /\ Len(plugins) \in Nat
  BY DEF PluginInv, Manager!TypeOK
<1>1. /\ f \in Elements(plugins) /\ plugins' = Manager!Removed(f)
      /\ handles' = [handles EXCEPT ![f] = @ - 1]
      /\ UNCHANGED <<allocated, maxSize, loading, mapped, users, opens, crashed>>
  BY PluginRange DEF Manager!Unload
<1>2. PICK k \in DOMAIN plugins :
        /\ plugins[k] = f
        /\ plugins' = SubSeq([plugins EXCEPT ![k] = plugins[Len(plugins)]], 1,
                             Len([plugins EXCEPT ![k] = plugins[Len(plugins)]]) - 1)
  BY <1>1 DEF Elements, Manager!Removed, Manager!Front, Manager!Last
<1>3. /\ plugins' \in Seq(Manager!Files) /\ Len(plugins') = Len(plugins) - 1
      /\ Distinct(plugins') /\ Elements(plugins') = Elements(plugins) \ {f}
  <2>1. plugins \in Seq(Manager!Files) /\ Distinct(plugins)
    BY <1>0
  <2> QED
    BY <1>2, <2>1, LastFillsGap
<1>4. /\ handles' \in [Manager!Files -> Nat]
      /\ \A g \in Manager!Files : handles'[g] = (IF g \in Elements(plugins') THEN 1 ELSE 0)
  BY <1>0, <1>1, <1>3
<1>5. Manager!TypeOK'
  BY <1>1, <1>3, <1>4 DEF PluginInv, Manager!TypeOK
<1>6. Len(plugins') <= (IF allocated' THEN maxSize' ELSE 0)
  <2>1. maxSize \in Nat
    BY DEF PluginInv, Manager!TypeOK
  <2>2. CASE allocated
    BY <1>0, <1>1, <1>3, <2>1, <2>2
  <2>3. CASE ~allocated
    BY <1>0, <1>1, <1>3, <2>3
  <2> QED
    BY <2>2, <2>3
<1> QED
  BY <1>0, <1>1, <1>3, <1>4, <1>5, <1>6 DEF PluginInv

\* In the end the array and the handles are empty together.
LEMMA PluginCleanup ==
  ASSUME PluginInv, ~crashed, Manager!Cleanup
  PROVE  PluginInv'
<1>0. /\ handles \in [Manager!Files -> Nat] /\ users \subseteq mapped
      /\ \A g \in Manager!Files : handles[g] = (IF g \in Elements(plugins) THEN 1 ELSE 0)
  BY DEF PluginInv, Manager!TypeOK
<1>1. /\ plugins' = <<>> /\ allocated' = FALSE
      /\ handles' = [f \in Manager!Files |->
                       IF f \in Elements(plugins) THEN handles[f] - 1 ELSE handles[f]]
      /\ UNCHANGED <<maxSize, loading, mapped, users, opens, crashed>>
  BY PluginRange DEF Manager!Cleanup
<1>2. Elements(plugins') = {} /\ Distinct(plugins') /\ Len(plugins') = 0
  BY <1>1 DEF Elements, Distinct
<1>3. \A g \in Manager!Files : handles'[g] = 0
  BY <1>0, <1>1
<1>4. handles' \in [Manager!Files -> Nat]
  <2>1. \A g \in Manager!Files :
          (IF g \in Elements(plugins) THEN handles[g] - 1 ELSE handles[g]) \in Nat
    BY <1>0
  <2> QED
    BY <1>1, <2>1
<1>5. Manager!TypeOK'
  <2>1. plugins' \in Seq(Manager!Files)
    BY <1>1
  <2>2. {allocated', crashed'} \subseteq BOOLEAN
    <3>1. crashed \in BOOLEAN /\ allocated' = FALSE /\ crashed' = crashed
      BY <1>1 DEF PluginInv, Manager!TypeOK
    <3> QED
      BY <3>1
  <2> QED
    BY <1>1, <1>4, <2>1, <2>2 DEF PluginInv, Manager!TypeOK
<1>6. Elements(plugins') \subseteq mapped' /\ users' \subseteq mapped'
  BY <1>0, <1>1, <1>2
<1>7. \A g \in Manager!Files : handles'[g] = (IF g \in Elements(plugins') THEN 1 ELSE 0)
  BY <1>2, <1>3
<1>8. Len(plugins') <= (IF allocated' THEN maxSize' ELSE 0)
  BY <1>1, <1>2
<1> QED
  BY <1>2, <1>5, <1>6, <1>7, <1>8 DEF PluginInv

\* A set of numbers that is not empty has a least one.
LEMMA LeastNumber ==
  ASSUME NEW T \in SUBSET Nat, T # {}
  PROVE  \E n \in T : \A m \in T : n <= m
<1>1. IsWellFoundedOn(OpToRel(<, Nat), Nat)
  BY NatLessThanWellFounded
<1>2. PICK n \in T : \A m \in T : ~(<<m, n>> \in OpToRel(<, Nat))
  BY <1>1, WFMin
<1>3. \A m \in T : ~(m < n)
  BY <1>2 DEF OpToRel
<1> QED
  BY <1>3

\* The plugin found first has the type that is looked for, and is in the array.
LEMMA FindFacts ==
  ASSUME plugins \in Seq(Manager!Files), NEW type,
         \E f \in Elements(plugins) : TypeOf[f] = type
  PROVE  Manager!Find(type) \in Elements(plugins) /\ TypeOf[Manager!Find(type)] = type
<1> DEFINE T == {i \in DOMAIN plugins : TypeOf[plugins[i]] = type}
<1>1. T # {} /\ T \in SUBSET Nat /\ DOMAIN plugins = 1 .. Len(plugins) /\ Len(plugins) \in Nat
  BY DEF Elements
<1> HIDE DEF T
<1>2. PICK n \in T : \A m \in T : n <= m
  BY <1>1, LeastNumber
<1>3. /\ n \in DOMAIN plugins /\ TypeOf[plugins[n]] = type
      /\ \A j \in 1 .. n - 1 : TypeOf[plugins[j]] # type
  BY <1>1, <1>2 DEF T
<1> QED
  BY <1>3 DEF Manager!Find, Elements

\* The invariant of the plugin manager is inductive.
LEMMA PluginStep == PluginInv /\ [Manager!Next]_Manager!vars => PluginInv'
<1> SUFFICES ASSUME PluginInv, [Manager!Next]_Manager!vars PROVE PluginInv'
  OBVIOUS
<1>0. Manager!TypeOK
  BY DEF PluginInv
<1>b. allocated \in BOOLEAN /\ crashed \in BOOLEAN
  BY <1>0 DEF Manager!TypeOK
<1>n. opens \in Nat /\ Len(loading) \in Nat /\ opens + Len(loading) <= MaxOpens /\ MaxOpens \in Nat
  BY <1>0, InputsAssumption DEF Manager!TypeOK
<1>1. ASSUME ~crashed, Manager!LoadNext PROVE PluginInv'
  <2>1. /\ loading \in Seq(Manager!Files) /\ loading # <<>> /\ loading' = Tail(loading)
        /\ Manager!Add(Head(loading)) /\ users' = users
    BY <1>0, <1>1 DEF Manager!TypeOK, Manager!LoadNext
  <2>2. /\ Head(loading) \in Manager!Files /\ loading' \in Seq(Manager!Files)
        /\ Len(loading') = Len(loading) - 1
    BY <2>1
  <2>3. opens + 1 + Len(loading') <= MaxOpens
    BY <1>n, <2>2
  <2> QED
    BY <1>1, <2>1, <2>2, <2>3, PluginAdd
<1>2. ASSUME ~crashed, loading = <<>>, NEW f \in Manager!Files, Manager!LoadFile(f) PROVE PluginInv'
  <2>1. /\ loading' = <<>> /\ Manager!Add(f) /\ users' = users /\ opens < MaxOpens
    BY <1>2 DEF Manager!LoadFile
  <2>2. opens + 1 + Len(loading') <= MaxOpens /\ loading' \in Seq(Manager!Files)
    BY <1>n, <2>1
  <2> QED
    BY <1>2, <2>1, <2>2, PluginAdd
<1>3. ASSUME ~crashed, Manager!LoadFolder PROVE PluginInv'
  <2>1. /\ opens + Len(Folder) <= MaxOpens /\ loading' = Folder
        /\ UNCHANGED <<plugins, allocated, maxSize, handles, mapped, users, opens, crashed>>
    BY <1>3 DEF Manager!LoadFolder
  <2>2. Manager!TypeOK'
    BY <1>0, <2>1, FolderFiles DEF Manager!TypeOK
  <2> QED
    BY <2>1, <2>2 DEF PluginInv, Distinct, Elements
<1>4. ASSUME ~crashed, Manager!Start PROVE PluginInv'
  <2>1. /\ opens + Len(Folder) <= MaxOpens /\ loading' = Folder /\ Manager!Resize(0)
        /\ UNCHANGED <<plugins, handles, mapped, users, opens, crashed>>
    BY <1>4 DEF Manager!Start
  <2>2. /\ maxSize' \in Nat /\ allocated' \in BOOLEAN /\ maxSize' >= maxSize
        /\ allocated => allocated'
    BY <1>0, <2>1, ResizeFacts
  <2>3. {allocated', crashed'} \subseteq BOOLEAN
    BY <1>b, <2>1, <2>2
  <2>4. Manager!TypeOK'
    BY <1>0, <2>1, <2>2, <2>3, FolderFiles DEF Manager!TypeOK
  <2>5. Len(plugins) <= (IF allocated' THEN maxSize' ELSE 0)
    <3>0. /\ Len(plugins) <= (IF allocated THEN maxSize ELSE 0)
          /\ Len(plugins) \in Nat /\ maxSize \in Nat
      BY <1>0, <1>4 DEF PluginInv, Manager!TypeOK
    <3>1. CASE allocated
      <4>1. Len(plugins) <= maxSize
        BY <3>0, <3>1
      <4>2. Len(plugins) <= maxSize'
        BY <2>2, <3>0, <4>1
      <4> QED
        BY <2>2, <3>1, <4>2
    <3>2. CASE ~allocated
      <4>1. Len(plugins) <= 0
        BY <3>0, <3>2
      <4>2. Len(plugins) <= maxSize'
        BY <2>2, <3>0, <4>1
      <4> QED
        BY <4>1, <4>2
    <3> QED
      BY <3>1, <3>2
  <2> QED
    BY <1>4, <2>1, <2>4, <2>5 DEF PluginInv, Distinct, Elements
<1>5. ASSUME ~crashed, NEW f \in Manager!Files, TypeOf[f] # "", Manager!Create(TypeOf[f])
      PROVE  PluginInv'
  <2>0. \E g \in Elements(plugins) : TypeOf[g] = TypeOf[f]
    BY <1>5, PluginRange DEF Manager!Create
  <2> DEFINE g == Manager!Find(TypeOf[f])
  <2>1. g \in Elements(plugins)
    BY <1>0, <2>0, FindFacts DEF Manager!TypeOK
  <2>2. g \in mapped /\ g \in Manager!Files
    BY <1>0, <1>5, <2>1 DEF PluginInv, Manager!TypeOK, Elements
  <2>3. /\ UNCHANGED <<plugins, allocated, maxSize, loading, handles, mapped, opens>>
        /\ \/ users' = users \cup {g} /\ crashed' = crashed
           \/ users' = users /\ crashed' = TRUE
    BY <1>5 DEF Manager!Create
  <2> HIDE DEF g
  <2>4. {allocated', crashed'} \subseteq BOOLEAN
    BY <1>b, <2>3
  <2>5. users' \subseteq Manager!Files
    BY <1>0, <2>2, <2>3 DEF Manager!TypeOK
  <2>6. Manager!TypeOK'
    BY <1>0, <2>3, <2>4, <2>5 DEF Manager!TypeOK
  <2>7. users' \subseteq mapped
    BY <1>5, <2>2, <2>3 DEF PluginInv
  <2> QED
    BY <1>5, <2>3, <2>6, <2>7 DEF PluginInv, Distinct, Elements
<1>6. ASSUME NEW f \in Manager!Files, Manager!Destroy(f) PROVE PluginInv'
  <2>1. Manager!TypeOK'
    BY <1>0, <1>6 DEF Manager!Destroy, Manager!TypeOK
  <2> QED
    BY <1>6, <2>1 DEF Manager!Destroy, PluginInv, Distinct, Elements
<1>7. CASE UNCHANGED Manager!vars
  <2>1. Manager!TypeOK'
    BY <1>0, <1>7 DEF Manager!vars, Manager!TypeOK
  <2> QED
    BY <1>7, <2>1 DEF Manager!vars, PluginInv, Distinct, Elements
<1> QED
  BY <1>1, <1>2, <1>3, <1>4, <1>5, <1>6, <1>7, PluginUnload, PluginCleanup DEF Manager!Next

\* The invariant says what the specification asks for.
LEMMA PluginHolds == PluginInv => Manager!PluginsHeld
  BY PluginRange DEF PluginInv, Manager!PluginsHeld, Distinct

\* Whatever is added, added again, removed and cleaned up, in whichever order: the
\* array holds each file with an open handle once and no other, within its slots
\* (ann-plugins.c:56-95), and inputs and engines call code that is still mapped.
THEOREM PluginsAreHeld == Manager!Spec => []Manager!PluginsHeld
  BY PluginHolds, PluginInit, PluginStep, PTL DEF Manager!Spec

-----------------------------------------------------------------------------
\* The camera switch.  The owners of a picture are the cameras, the manager and the
\* upload that refer to it.
One(b) == IF b THEN 1 ELSE 0
Holders(p) == {c \in Switch!Index : current[c] = p}
Owners(p) == Cardinality(Holders(p)) + One(frame = p) + One(uploaded = p)
Owned == \A p \in Switch!Pictures : refs[p] = Owners(p)

\* While the program runs the counts are those of the owners, one picture is in
\* flight at a time, and the upload owns it.
Uploads ==
  /\ busy <=> message # 0
  /\ upc = "addref" => held # 0
  /\ upc \in {"addref", "post"} => ~busy
  /\ upc = "post" => uploaded # 0
  /\ message # 0 => message = uploaded
SwitchInv == Switch!TypeOK /\ (main \notin {"done", "undefined"} => Owned /\ Uploads)

\* What the proofs use of the bounds.
LEMMA SwitchConstants == Cameras \in Nat /\ Cameras > 0 /\ MaxMemory \in Nat /\ MaxMemory >= Cameras + 3
                /\ Interval \in Nat /\ MaxFaults \in Nat
BY InputsAssumption

\* Two subsets that agree outside x differ in size by x.
LEMMA OneChanges ==
  ASSUME NEW S, IsFiniteSet(S), NEW A \in SUBSET S, NEW B \in SUBSET S, NEW x,
         \A y \in S \ {x} : y \in A <=> y \in B
  PROVE  /\ Cardinality(A) \in Nat /\ Cardinality(B) \in Nat
         /\ Cardinality(B) = Cardinality(A) - One(x \in A) + One(x \in B)
<1>1. IsFiniteSet(A) /\ IsFiniteSet(B)
  BY FS_Subset
<1>2. Cardinality(A) \in Nat /\ Cardinality(B) \in Nat
  BY <1>1, FS_CardinalityType
<1>3. A \ {x} = B \ {x}
  OBVIOUS
<1>4. Cardinality(A \ {x}) = IF x \in A THEN Cardinality(A) - 1 ELSE Cardinality(A)
  BY <1>1, FS_RemoveElement
<1>5. Cardinality(B \ {x}) = IF x \in B THEN Cardinality(B) - 1 ELSE Cardinality(B)
  BY <1>1, FS_RemoveElement
<1> QED
  BY <1>2, <1>3, <1>4, <1>5 DEF One

\* There are finitely many cameras, so that owners can be counted.
LEMMA CamerasAreFinite ==
  /\ IsFiniteSet(Switch!Index)
  /\ \A p : IsFiniteSet(Holders(p)) /\ Cardinality(Holders(p)) \in Nat /\ Owners(p) \in Nat
<1>1. IsFiniteSet(0 .. Cameras - 1)
  <2>1. 0 \in Int /\ Cameras - 1 \in Int
    BY SwitchConstants
  <2> QED
    BY <2>1, FS_Interval
<1>2. IsFiniteSet(Switch!Index)
  BY <1>1 DEF Switch!Index
<1>3. ASSUME NEW p PROVE IsFiniteSet(Holders(p)) /\ Cardinality(Holders(p)) \in Nat
  <2>1. Holders(p) \in SUBSET Switch!Index
    BY DEF Holders
  <2> QED
    BY <1>2, <2>1, FS_Subset, FS_CardinalityType
<1>4. ASSUME NEW p PROVE Owners(p) \in Nat
  BY <1>3 DEF Owners, One
<1> QED
  BY <1>2, <1>3, <1>4

\* A camera that changes its picture is one owner more or less.
LEMMA CurrentChanges ==
  ASSUME NEW c \in Switch!Index, \A d \in Switch!Index \ {c} : current'[d] = current[d], NEW p
  PROVE  /\ Cardinality(Holders(p)) \in Nat /\ Cardinality(Holders(p))' \in Nat
         /\ Cardinality(Holders(p))' =
              Cardinality(Holders(p)) - One(current[c] = p) + One(current'[c] = p)
<1>1. Holders(p) \in SUBSET Switch!Index /\ Holders(p)' \in SUBSET Switch!Index
  BY DEF Holders
<1>2. \A d \in Switch!Index \ {c} : d \in Holders(p) <=> d \in Holders(p)'
  BY DEF Holders
<1>3. (c \in Holders(p) <=> current[c] = p) /\ (c \in Holders(p)' <=> current'[c] = p)
  BY DEF Holders
<1> QED
  BY <1>1, <1>2, <1>3, CamerasAreFinite, OneChanges DEF One

\* There is a free picture: every other one has an owner, and there are fewer owners
\* than pictures.
LEMMA FreePicture ==
  ASSUME Switch!TypeOK, Owned
  PROVE  /\ Switch!Free # {}
         /\ Switch!NewPicture \in Switch!Pictures /\ refs[Switch!NewPicture] = 0
<1>1. Switch!Free # {}
  <2> SUFFICES ASSUME Switch!Free = {} PROVE FALSE
    OBVIOUS
  <2> DEFINE slot(p) == IF \E c \in Switch!Index : current[c] = p
                        THEN CHOOSE c \in Switch!Index : current[c] = p
                        ELSE IF frame = p THEN Cameras ELSE Cameras + 1
             f == [p \in Switch!Pictures |-> slot(p)]
             T == 0 .. Cameras + 1
  <2>1. \A p \in Switch!Pictures : Holders(p) # {} \/ frame = p \/ uploaded = p
    <3> TAKE p \in Switch!Pictures
    <3>1. refs[p] # 0 /\ refs[p] = Owners(p)
      BY DEF Switch!Free, Owned
    <3>2. Holders(p) = {} => Cardinality(Holders(p)) = 0
      BY FS_EmptySet
    <3> QED
      BY <3>1, <3>2 DEF Owners, One
  <2>2. \A p \in Switch!Pictures :
          /\ slot(p) \in T
          /\ slot(p) \in Switch!Index => current[slot(p)] = p
          /\ slot(p) = Cameras => frame = p
          /\ slot(p) = Cameras + 1 => uploaded = p
    <3> TAKE p \in Switch!Pictures
    <3>0. \A c \in Switch!Index : c \in T /\ c # Cameras /\ c # Cameras + 1
      BY SwitchConstants DEF Switch!Index
    <3>c. /\ Cameras \in T /\ Cameras + 1 \in T /\ Cameras # Cameras + 1
          /\ Cameras \notin Switch!Index /\ Cameras + 1 \notin Switch!Index
      BY SwitchConstants DEF Switch!Index
    <3> HIDE DEF T
    <3>1. CASE Holders(p) # {}
      <4>1. \E c \in Switch!Index : current[c] = p
        BY <3>1 DEF Holders
      <4>2. slot(p) \in Switch!Index /\ current[slot(p)] = p
        BY <4>1
      <4> QED
        BY <3>0, <4>2
    <3>2. CASE Holders(p) = {}
      <4>1. slot(p) = IF frame = p THEN Cameras ELSE Cameras + 1
        BY <3>2 DEF Holders
      <4> QED
        BY <2>1, <3>2, <3>c, <4>1
    <3> QED
      BY <3>1, <3>2
  <2> HIDE DEF slot
  <2>3. f \in [Switch!Pictures -> T]
    BY <2>2
  <2>4. \A t \in T : t \in Switch!Index \/ t = Cameras \/ t = Cameras + 1
    BY SwitchConstants DEF Switch!Index
  <2>5. \A p, q \in Switch!Pictures : f[p] = f[q] => p = q
    BY <2>2, <2>4
  <2>6. /\ IsFiniteSet(Switch!Pictures) /\ Cardinality(Switch!Pictures) = MaxMemory
        /\ IsFiniteSet(T) /\ Cardinality(T) = Cameras + 2
    <3>1. 1 \in Int /\ 0 \in Int /\ MaxMemory \in Int /\ Cameras + 1 \in Int
      BY SwitchConstants
    <3>2. IsFiniteSet(1 .. MaxMemory) /\ Cardinality(1 .. MaxMemory) = MaxMemory
      <4>1. ~(1 > MaxMemory) /\ MaxMemory - 1 + 1 = MaxMemory
        BY SwitchConstants
      <4> QED
        BY <3>1, <4>1, FS_Interval
    <3>3. IsFiniteSet(0 .. Cameras + 1) /\ Cardinality(0 .. Cameras + 1) = Cameras + 2
      <4>1. ~(0 > Cameras + 1) /\ Cameras + 1 - 0 + 1 = Cameras + 2
        BY SwitchConstants
      <4> QED
        BY <3>1, <4>1, FS_Interval
    <3> QED
      BY <3>2, <3>3 DEF Switch!Pictures
  <2> HIDE DEF f, T
  <2>7. Cardinality(T) < Cardinality(Switch!Pictures)
    BY <2>6, SwitchConstants
  <2> QED
    BY <2>3, <2>5, <2>6, <2>7, FS_PigeonHole
<1>2. Switch!Free \in SUBSET Nat
  BY DEF Switch!Free, Switch!Pictures
<1>3. \E p \in Switch!Free : \A q \in Switch!Free : p <= q
  BY <1>1, <1>2, LeastNumber
<1>4. Switch!NewPicture \in Switch!Free
  BY <1>3 DEF Switch!NewPicture
<1> QED
  BY <1>1, <1>4 DEF Switch!Free

\* What changes the owners and counts the references accordingly.
LEMMA Recounted ==
  ASSUME Switch!TypeOK, Owned, NEW more, NEW less, refs' = Switch!Counted(more, less),
         \A p \in Switch!Pictures : Owners(p)' = Owners(p) + One(p = more) - One(p = less)
  PROVE  Owned' /\ refs' \in [Switch!Pictures -> Nat]
<1>1. \A p \in Switch!Pictures : Owners(p) \in Nat /\ Owners(p)' \in Nat
  <2>1. \A p : Owners(p) \in Nat
    BY CamerasAreFinite
  <2>2. ASSUME NEW p PROVE Owners(p)' \in Nat
    <3>1. Holders(p)' \in SUBSET Switch!Index
      BY DEF Holders
    <3>2. Cardinality(Holders(p)') \in Nat
      BY <3>1, CamerasAreFinite, FS_Subset, FS_CardinalityType
    <3> QED
      BY <3>2 DEF Owners, One
  <2> QED
    BY <2>1, <2>2
<1>2. \A p \in Switch!Pictures : refs'[p] = refs[p] + One(p = more) - One(p = less)
  BY DEF Switch!Counted, One
<1>3. \A p \in Switch!Pictures : refs'[p] = Owners(p)'
  BY <1>2 DEF Owned
<1>4. refs' = [p \in Switch!Pictures |-> Owners(p)']
  BY <1>3 DEF Switch!Counted
<1> QED
  BY <1>1, <1>3, <1>4 DEF Owned

\* A picture more or less for one camera.
LEMMA CurrentOwned ==
  ASSUME Switch!TypeOK, Owned, NEW c \in Switch!Index, NEW q \in 0 .. MaxMemory,
         current' = [current EXCEPT ![c] = q], refs' = Switch!Counted(q, current[c]),
         UNCHANGED <<frame, uploaded>>
  PROVE  /\ Owned' /\ refs' \in [Switch!Pictures -> Nat]
         /\ current' \in [Switch!Index -> 0 .. MaxMemory]
<1>1. current'[c] = q /\ \A d \in Switch!Index \ {c} : current'[d] = current[d]
  BY DEF Switch!TypeOK
<1>2. ASSUME NEW p \in Switch!Pictures
      PROVE  Owners(p)' = Owners(p) + One(p = q) - One(p = current[c])
  <2>1. /\ Cardinality(Holders(p)) \in Nat /\ Cardinality(Holders(p))' \in Nat
        /\ Cardinality(Holders(p))' =
             Cardinality(Holders(p)) - One(current[c] = p) + One(current'[c] = p)
    BY <1>1, CurrentChanges
  <2> QED
    BY <1>1, <2>1 DEF Owners, One
<1>3. current' \in [Switch!Index -> 0 .. MaxMemory]
  BY DEF Switch!TypeOK
<1> QED
  BY <1>2, <1>3, Recounted

\* Another picture for the manager.
LEMMA FrameOwned ==
  ASSUME Switch!TypeOK, Owned, NEW q \in Switch!Pictures, Switch!SetFrame(q),
         UNCHANGED <<current, uploaded>>
  PROVE  Owned' /\ refs' \in [Switch!Pictures -> Nat] /\ frame' = q /\ main' = "signal"
<1>1. refs' = Switch!Counted(q, frame) /\ frame' = q /\ main' = "signal"
  BY DEF Switch!SetFrame
<1>2. ASSUME NEW p \in Switch!Pictures
      PROVE  Owners(p)' = Owners(p) + One(p = q) - One(p = frame)
  <2>1. Holders(p)' = Holders(p) /\ Cardinality(Holders(p)) \in Nat
    BY CamerasAreFinite DEF Holders
  <2> QED
    BY <1>1, <2>1 DEF Owners, One
<1> QED
  BY <1>1, <1>2, Recounted

\* Another one for the upload, or none.
LEMMA UploadOwned ==
  ASSUME Switch!TypeOK, Owned, NEW q \in 0 .. MaxMemory, uploaded' = q,
         refs' = Switch!Counted(q, uploaded), UNCHANGED <<current, frame>>
  PROVE  Owned' /\ refs' \in [Switch!Pictures -> Nat]
<1>2. ASSUME NEW p \in Switch!Pictures
      PROVE  Owners(p)' = Owners(p) + One(p = q) - One(p = uploaded)
  <2>1. Holders(p)' = Holders(p) /\ Cardinality(Holders(p)) \in Nat
    BY CamerasAreFinite DEF Holders
  <2> QED
    BY <2>1 DEF Owners, One
<1> QED
  BY <1>2, Recounted

\* No count and no owner changes.
LEMMA SameOwned ==
  ASSUME Owned, UNCHANGED <<refs, current, frame, uploaded>>
  PROVE  Owned'
BY DEF Owned, Owners, Holders

\* No camera has a picture.
LEMMA SwitchInit == Switch!Init => SwitchInv
<1> SUFFICES ASSUME Switch!Init PROVE SwitchInv
  OBVIOUS
<1> USE DEF Switch!Init
<1>1. 0 \in Switch!Index /\ 0 \in 0 .. Interval + 1 /\ 0 \in 0 .. MaxMemory
  BY SwitchConstants DEF Switch!Index
<1>2. /\ pipeline \in [Switch!Index -> BOOLEAN] /\ playing \in [Switch!Index -> BOOLEAN]
      /\ sized \in [Switch!Index -> BOOLEAN]
  OBVIOUS
<1>3. current \in [Switch!Index -> 0 .. MaxMemory] /\ refs \in [Switch!Pictures -> Nat]
  BY <1>1
<1>4. busy \in BOOLEAN /\ quit \in BOOLEAN /\ missed \in BOOLEAN
  OBVIOUS
<1>5. Switch!TypeOK
  BY <1>1, <1>2, <1>3, <1>4 DEF Switch!TypeOK
<1>6. ASSUME NEW p \in Switch!Pictures PROVE refs[p] = Owners(p)
  <2>1. p # 0 /\ refs[p] = 0
    BY DEF Switch!Pictures
  <2>2. Holders(p) = {}
    BY <2>1 DEF Holders
  <2>3. Cardinality(Holders(p)) = 0
    BY <2>2, FS_EmptySet
  <2> QED
    BY <2>1, <2>3 DEF Owners, One
<1>7. Uploads
  BY DEF Uploads
<1> QED
  BY <1>5, <1>6, <1>7 DEF SwitchInv, Owned

\* The turn that is due.
LEMMA TurnFacts ==
  ASSUME Switch!TypeOK, Switch!Turn
  PROVE  Switch!Turned \in Switch!Index /\ index' \in Switch!Index /\ seconds' \in 0 .. Interval + 1
<1>1. index \in 0 .. Cameras - 1 /\ seconds \in 0 .. Interval + 1
  BY DEF Switch!TypeOK, Switch!Index
<1>2. (index + 1) % Cameras \in 0 .. Cameras - 1
  BY <1>1, SwitchConstants
<1>3. Switch!Turned \in Switch!Index
  BY <1>1, <1>2 DEF Switch!Turned, Switch!NextIndex, Switch!Index
<1> QED
  BY <1>1, <1>3, SwitchConstants DEF Switch!Turn

\* The cameras.
LEMMA SwitchCameras ==
  ASSUME SwitchInv, NEW c \in Switch!Index,
         \/ Switch!NewSample(c) \/ Switch!StateChanged(c)
         \/ Switch!OnError(c) \/ Switch!OnEos(c)
  PROVE  SwitchInv'
<1>0. Switch!TypeOK
  BY DEF SwitchInv
<1>1. CASE Switch!NewSample(c)
  <2>1. main \in {"run", "signal"} /\ Owned /\ Uploads
    BY <1>1 DEF Switch!NewSample, SwitchInv
  <2>2. Switch!NewPicture \in 0 .. MaxMemory
    BY <1>0, <2>1, SwitchConstants, FreePicture DEF Switch!Pictures
  <2>3. /\ current' = [current EXCEPT ![c] = Switch!NewPicture]
        /\ refs' = Switch!Counted(Switch!NewPicture, current[c])
        /\ UNCHANGED <<index, seconds, pipeline, playing, sized, faults, frame, uploaded, busy,
                       message, upc, held, missed, quit, main>>
    BY <1>1 DEF Switch!NewSample, Switch!turnVars, Switch!threadVars
  <2>4. /\ Owned' /\ refs' \in [Switch!Pictures -> Nat]
        /\ current' \in [Switch!Index -> 0 .. MaxMemory]
    BY <1>0, <2>1, <2>2, <2>3, CurrentOwned
  <2>5. Switch!TypeOK'
    BY <1>0, <2>3, <2>4 DEF Switch!TypeOK
  <2>6. Uploads'
    BY <2>1, <2>3 DEF Uploads
  <2> QED
    BY <2>4, <2>5, <2>6 DEF SwitchInv
<1>2. CASE Switch!StateChanged(c) \/ Switch!OnError(c)
  <2>1. /\ UNCHANGED <<index, seconds, sized, current, refs, frame, uploaded, busy, message,
                       upc, held, missed, quit, main>>
        /\ pipeline' \in [Switch!Index -> BOOLEAN] /\ playing' \in [Switch!Index -> BOOLEAN]
        /\ main = "run"
    BY <1>0, <1>2 DEF Switch!StateChanged, Switch!OnError, Switch!turnVars, Switch!threadVars,
                      Switch!TypeOK
  <2>2. Switch!TypeOK'
    BY <1>0, <2>1 DEF Switch!TypeOK
  <2>3. Uploads' /\ Owned'
    BY <2>1, SameOwned DEF Uploads, SwitchInv
  <2> QED
    BY <2>2, <2>3 DEF SwitchInv
<1>3. CASE Switch!OnEos(c)
  <2>1. /\ UNCHANGED <<index, seconds, frame, uploaded, busy, message,
                       upc, held, missed, quit, main>>
        /\ sized' = [sized EXCEPT ![c] = FALSE]
        /\ main = "run"
        /\ \/ current' = [current EXCEPT ![c] = 0] /\ refs' = Switch!Counted(0, current[c])
           \/ current' = current /\ refs' = refs
    BY <1>3 DEF Switch!OnEos, Switch!turnVars, Switch!threadVars
  <2>2. /\ pipeline' \in [Switch!Index -> BOOLEAN] /\ playing' \in [Switch!Index -> BOOLEAN]
        /\ sized' \in [Switch!Index -> BOOLEAN]
    BY <1>0, <1>3 DEF Switch!OnEos, Switch!TypeOK
  <2>3. Owned
    BY <2>1 DEF SwitchInv
  <2>4. /\ Owned' /\ refs' \in [Switch!Pictures -> Nat]
        /\ current' \in [Switch!Index -> 0 .. MaxMemory]
    <3>1. CASE current' = [current EXCEPT ![c] = 0] /\ refs' = Switch!Counted(0, current[c])
      <4>1. 0 \in 0 .. MaxMemory
        BY SwitchConstants
      <4> QED
        BY <1>0, <2>1, <2>3, <3>1, <4>1, CurrentOwned
    <3>2. CASE current' = current /\ refs' = refs
      BY <1>0, <2>1, <2>3, <3>2, SameOwned DEF Switch!TypeOK
    <3> QED
      BY <2>1, <3>1, <3>2
  <2>5. Switch!TypeOK'
    BY <1>0, <2>1, <2>2, <2>4 DEF Switch!TypeOK
  <2>6. Uploads'
    BY <2>1 DEF Uploads, SwitchInv
  <2> QED
    BY <2>4, <2>5, <2>6 DEF SwitchInv
<1> QED
  BY <1>1, <1>2, <1>3

\* The timer.
LEMMA SwitchTimer ==
  ASSUME SwitchInv, Switch!Timer \/ Switch!Second
  PROVE  SwitchInv'
<1>0. Switch!TypeOK
  BY DEF SwitchInv
<1>1. CASE Switch!Second
  <2>1. /\ seconds' = seconds + 1 /\ seconds <= Interval
        /\ UNCHANGED <<index, pipeline, playing, sized, current, faults, refs, frame, uploaded,
                       busy, message, upc, held, missed, quit, main>>
    BY <1>1 DEF Switch!Second, Switch!cameraVars, Switch!threadVars
  <2>2. seconds' \in 0 .. Interval + 1
    BY <1>0, <2>1, SwitchConstants DEF Switch!TypeOK
  <2>3. Switch!TypeOK'
    BY <1>0, <2>1, <2>2 DEF Switch!TypeOK
  <2> QED
    BY <2>1, <2>3, SameOwned DEF SwitchInv, Uploads
<1>2. CASE Switch!Signal
  <2>1. /\ main = "signal" /\ main' = "run"
        /\ upc' = upc \/ (upc = "wait" /\ upc' = "woken")
        /\ UNCHANGED <<index, seconds, pipeline, playing, sized, current, faults, refs, frame,
                       uploaded, busy, message, held, missed, quit>>
    BY <1>2 DEF Switch!Signal, Switch!turnVars, Switch!cameraVars
  <2>2. Switch!TypeOK'
    BY <1>0, <2>1 DEF Switch!TypeOK
  <2> QED
    BY <2>1, <2>2, SameOwned DEF SwitchInv, Uploads
<1>3. CASE Switch!SendNothing
  <2>1. /\ Switch!Turn
        /\ UNCHANGED <<pipeline, playing, sized, current, faults, refs, frame, uploaded, busy,
                       message, upc, held, missed, quit, main>>
    BY <1>3 DEF Switch!SendNothing, Switch!threadVars, Switch!cameraVars
  <2>2. Switch!TypeOK'
    BY <1>0, <2>1, TurnFacts DEF Switch!TypeOK
  <2> QED
    BY <2>1, <2>2, SameOwned DEF SwitchInv, Uploads
<1>4. ASSUME NEW q, Switch!Turn, Switch!SetFrame(q), main = "run",
             q = Switch!NewPicture \/ (q = current[Switch!Turned] /\ q # 0),
             UNCHANGED <<Switch!cameraVars, uploaded, busy, message, Switch!threadVars, quit>>
      PROVE  SwitchInv'
  <2>0. Owned /\ Uploads
    BY <1>4 DEF SwitchInv
  <2>1. UNCHANGED <<pipeline, playing, sized, current, faults, uploaded, busy, message, upc,
                    held, missed, quit>>
    BY <1>4 DEF Switch!threadVars, Switch!cameraVars
  <2>2. q \in Switch!Pictures
    <3>1. CASE q = Switch!NewPicture
      BY <1>0, <2>0, <3>1, FreePicture
    <3>2. CASE q = current[Switch!Turned] /\ q # 0
      <4>1. q \in 0 .. MaxMemory
        BY <1>0, <1>4, <3>2, TurnFacts DEF Switch!TypeOK
      <4> QED
        BY <3>2, <4>1, SwitchConstants DEF Switch!Pictures
    <3> QED
      BY <1>4, <3>1, <3>2
  <2>3. Owned' /\ refs' \in [Switch!Pictures -> Nat] /\ frame' = q /\ main' = "signal"
    BY <1>0, <1>4, <2>0, <2>1, <2>2, FrameOwned
  <2>4. q \in 0 .. MaxMemory
    BY <2>2, SwitchConstants DEF Switch!Pictures
  <2>5. Switch!TypeOK'
    BY <1>0, <1>4, <2>1, <2>3, <2>4, TurnFacts DEF Switch!TypeOK
  <2> QED
    BY <2>0, <2>1, <2>3, <2>5 DEF SwitchInv, Uploads
<1>5. CASE Switch!SendBlank
  BY <1>4, <1>5 DEF Switch!SendBlank
<1>6. CASE Switch!SendPicture
  BY <1>4, <1>6 DEF Switch!SendPicture
<1>7. ASSUME NEW launched \in BOOLEAN, Switch!Retry(launched) PROVE SwitchInv'
  <2>0. Owned /\ Uploads
    BY <1>7 DEF SwitchInv, Switch!Retry
  <2>1. PICK c \in Switch!Index : c = Switch!Turned
    BY <1>0, <1>7, TurnFacts DEF Switch!Retry
  <2>2. /\ Switch!Turn /\ Switch!Reinit(c, launched)
        /\ UNCHANGED <<faults, frame, uploaded, busy, message, upc, held, missed, quit, main>>
    BY <1>7, <2>1 DEF Switch!Retry, Switch!threadVars
  <2>3. /\ pipeline' \in [Switch!Index -> BOOLEAN] /\ playing' \in [Switch!Index -> BOOLEAN]
        /\ sized' \in [Switch!Index -> BOOLEAN]
    BY <1>0, <1>7, <2>2 DEF Switch!Reinit, Switch!TypeOK
  <2>4. \/ current' = [current EXCEPT ![c] = 0] /\ refs' = Switch!Counted(0, current[c])
        \/ current' = current /\ refs' = refs
    BY <2>2 DEF Switch!Reinit
  <2>5. /\ Owned' /\ refs' \in [Switch!Pictures -> Nat]
        /\ current' \in [Switch!Index -> 0 .. MaxMemory]
    <3>1. CASE current' = [current EXCEPT ![c] = 0] /\ refs' = Switch!Counted(0, current[c])
      <4>1. 0 \in 0 .. MaxMemory
        BY SwitchConstants
      <4> QED
        BY <1>0, <2>0, <2>2, <3>1, <4>1, CurrentOwned
    <3>2. CASE current' = current /\ refs' = refs
      BY <1>0, <2>0, <2>2, <3>2, SameOwned DEF Switch!TypeOK
    <3> QED
      BY <2>4, <3>1, <3>2
  <2>6. Switch!TypeOK'
    BY <1>0, <2>2, <2>3, <2>5, TurnFacts DEF Switch!TypeOK
  <2> QED
    BY <2>0, <2>2, <2>5, <2>6 DEF SwitchInv, Uploads
<1> QED
  BY <1>1, <1>2, <1>3, <1>5, <1>6, <1>7 DEF Switch!Timer

\* The answer arrives: the upload gives its picture back.
LEMMA SwitchAnswer ==
  ASSUME SwitchInv, Switch!UploadFinished
  PROVE  SwitchInv'
<1>0. Switch!TypeOK /\ Owned /\ Uploads
  BY DEF SwitchInv, Switch!UploadFinished
<1>1. /\ main = "run" /\ message # 0 /\ busy' = FALSE /\ message' = 0 /\ uploaded' = 0
      /\ \/ refs' = Switch!Counted(0, uploaded) /\ main' = main
         \/ main' = "done" /\ refs' = refs
      /\ UNCHANGED <<index, seconds, pipeline, playing, sized, current, faults, frame,
                     upc, held, missed, quit>>
  BY DEF Switch!UploadFinished, Switch!turnVars, Switch!cameraVars, Switch!threadVars
<1>2. 0 \in 0 .. MaxMemory
  BY SwitchConstants
<1>3. CASE refs' = Switch!Counted(0, uploaded) /\ main' = main
  <2>1. Owned' /\ refs' \in [Switch!Pictures -> Nat]
    BY <1>0, <1>1, <1>2, <1>3, UploadOwned
  <2>2. Switch!TypeOK'
    BY <1>0, <1>1, <1>2, <1>3, <2>1 DEF Switch!TypeOK
  <2>3. Uploads'
    BY <1>0, <1>1 DEF Uploads
  <2> QED
    BY <2>1, <2>2, <2>3 DEF SwitchInv
<1>4. CASE main' = "done" /\ refs' = refs
  <2>1. Switch!TypeOK'
    BY <1>0, <1>1, <1>2, <1>4 DEF Switch!TypeOK
  <2> QED
    BY <1>4, <2>1 DEF SwitchInv
<1> QED
  BY <1>1, <1>3, <1>4

\* The uploading thread.
LEMMA SwitchThread ==
  ASSUME SwitchInv, Switch!Thread
  PROVE  SwitchInv'
<1>0. Switch!TypeOK
  BY DEF SwitchInv
<1>1. CASE Switch!Check
  <2>1. /\ upc' \in {"ended", "wait"}
        /\ UNCHANGED <<index, seconds, pipeline, playing, sized, current, faults, refs, frame,
                       uploaded, busy, message, held, missed, quit, main>>
    BY <1>1 DEF Switch!Check, Switch!turnVars, Switch!cameraVars
  <2>2. Switch!TypeOK'
    BY <1>0, <2>1 DEF Switch!TypeOK
  <2> QED
    BY <2>1, <2>2, SameOwned DEF SwitchInv, Uploads
<1>2. CASE Switch!ReadFrame
  <2>1. /\ \/ upc' = "check" /\ held' = held
           \/ upc' = "addref" /\ held' = frame /\ ~busy /\ frame # 0
        /\ UNCHANGED <<index, seconds, pipeline, playing, sized, current, faults, refs, frame,
                       uploaded, busy, message, missed, quit, main>>
    BY <1>2 DEF Switch!ReadFrame, Switch!turnVars, Switch!cameraVars
  <2>2. Switch!TypeOK'
    BY <1>0, <2>1 DEF Switch!TypeOK
  <2>3. main \notin {"done", "undefined"} => Uploads'
    BY <2>1 DEF SwitchInv, Uploads
  <2> QED
    BY <2>1, <2>2, <2>3, SameOwned DEF SwitchInv
<1>3. CASE Switch!AddRef
  <2>0. Owned /\ Uploads
    BY <1>3 DEF SwitchInv, Switch!AddRef, Switch!Running
  <2>1. /\ upc = "addref" /\ held' = 0
        /\ UNCHANGED <<index, seconds, pipeline, playing, sized, current, faults, frame,
                       busy, message, missed, quit>>
        /\ \/ main' = "undefined" /\ UNCHANGED <<upc, refs, uploaded>>
           \/ /\ upc' = "post" /\ refs' = Switch!Counted(held, uploaded) /\ uploaded' = held
              /\ main' = main
    BY <1>3 DEF Switch!AddRef, Switch!CountedHeld, Switch!turnVars, Switch!cameraVars
  <2>2. held \in 0 .. MaxMemory /\ held # 0 /\ ~busy /\ message = 0 /\ 0 \in 0 .. MaxMemory
    BY <1>0, <2>0, <2>1, SwitchConstants DEF Switch!TypeOK, Uploads
  <2>3. CASE main' = "undefined" /\ UNCHANGED <<upc, refs, uploaded>>
    <3>1. Switch!TypeOK'
      BY <1>0, <2>1, <2>2, <2>3 DEF Switch!TypeOK
    <3> QED
      BY <2>3, <3>1 DEF SwitchInv
  <2>4. CASE /\ upc' = "post" /\ refs' = Switch!Counted(held, uploaded) /\ uploaded' = held
             /\ main' = main
    <3>1. Owned' /\ refs' \in [Switch!Pictures -> Nat]
      BY <1>0, <2>0, <2>1, <2>2, <2>4, UploadOwned
    <3>2. Switch!TypeOK'
      BY <1>0, <2>1, <2>2, <2>4, <3>1 DEF Switch!TypeOK
    <3>3. Uploads'
      BY <2>0, <2>1, <2>2, <2>4 DEF Uploads
    <3> QED
      BY <3>1, <3>2, <3>3 DEF SwitchInv
  <2> QED
    BY <2>1, <2>3, <2>4
<1>4. CASE Switch!Post
  <2>0. Owned /\ Uploads
    BY <1>4 DEF SwitchInv, Switch!Post, Switch!Running
  <2>1. /\ upc = "post" /\ busy' = TRUE /\ message' = uploaded /\ upc' = "check"
        /\ UNCHANGED <<index, seconds, pipeline, playing, sized, current, faults, refs, frame,
                       uploaded, held, missed, quit, main>>
    BY <1>4 DEF Switch!Post, Switch!turnVars, Switch!cameraVars
  <2>2. Switch!TypeOK'
    BY <1>0, <2>1 DEF Switch!TypeOK
  <2>3. Uploads'
    BY <2>0, <2>1 DEF Uploads
  <2> QED
    BY <2>0, <2>1, <2>2, <2>3, SameOwned DEF SwitchInv
<1> QED
  BY <1>1, <1>2, <1>3, <1>4 DEF Switch!Thread

\* The start, the end of the main loop, and the join.
LEMMA SwitchEnds ==
  ASSUME SwitchInv, Switch!Start \/ Switch!Stop \/ Switch!StopMissed \/ Switch!Join
  PROVE  SwitchInv'
<1>0. Switch!TypeOK
  BY DEF SwitchInv
<1>1. CASE Switch!Start \/ Switch!Stop \/ Switch!StopMissed
  <2>1. /\ UNCHANGED <<index, seconds, playing, sized, current, faults, refs, frame, uploaded,
                       busy, message, held>>
        /\ upc' = upc \/ upc' \in {"woken", "wait"}
        /\ main \in {"new", "run"} /\ main' \in {"run", "join"}
    BY <1>1 DEF Switch!Start, Switch!Stop, Switch!StopMissed, Switch!turnVars, Switch!threadVars
  <2>2. /\ pipeline' \in [Switch!Index -> BOOLEAN]
        /\ quit' \in BOOLEAN /\ missed' \in BOOLEAN
    BY <1>0, <1>1 DEF Switch!Start, Switch!Stop, Switch!StopMissed, Switch!threadVars,
                      Switch!TypeOK
  <2>3. Switch!TypeOK'
    BY <1>0, <2>1, <2>2 DEF Switch!TypeOK
  <2> QED
    BY <2>1, <2>3, SameOwned DEF SwitchInv, Uploads
<1>2. CASE Switch!Join
  <2>1. /\ main = "join" /\ main' = "done" /\ frame' = 0 /\ uploaded' = 0
        /\ refs' = [p \in Switch!Pictures |-> refs[p] - (IF p = frame THEN 1 ELSE 0)
                                                      - (IF p = uploaded THEN 1 ELSE 0)]
        /\ UNCHANGED <<index, seconds, pipeline, playing, sized, current, faults, busy, message,
                       upc, held, missed, quit>>
    BY <1>2 DEF Switch!Join, Switch!turnVars, Switch!cameraVars, Switch!threadVars
  <2>2. Owned
    BY <2>1 DEF SwitchInv
  <2>3. \A p \in Switch!Pictures :
          refs[p] - (IF p = frame THEN 1 ELSE 0) - (IF p = uploaded THEN 1 ELSE 0) \in Nat
    <3> TAKE p \in Switch!Pictures
    <3>1. refs[p] = Cardinality(Holders(p)) + One(frame = p) + One(uploaded = p)
      BY <2>2 DEF Owned, Owners
    <3> QED
      BY <3>1, CamerasAreFinite DEF One
  <2>4. refs' \in [Switch!Pictures -> Nat] /\ 0 \in 0 .. MaxMemory
    BY <2>1, <2>3, SwitchConstants
  <2>5. Switch!TypeOK'
    BY <1>0, <2>1, <2>4 DEF Switch!TypeOK
  <2> QED
    BY <2>1, <2>5 DEF SwitchInv
<1> QED
  BY <1>1, <1>2

\* The invariant of the camera switch is inductive.
LEMMA SwitchStep == SwitchInv /\ [Switch!Next]_Switch!vars => SwitchInv'
<1> SUFFICES ASSUME SwitchInv, [Switch!Next]_Switch!vars PROVE SwitchInv'
  OBVIOUS
<1>1. CASE UNCHANGED Switch!vars
  BY <1>1 DEF Switch!vars, SwitchInv, Switch!TypeOK, Uploads, Owned, Owners, Holders
<1> QED
  BY <1>1, SwitchCameras, SwitchTimer, SwitchAnswer, SwitchThread, SwitchEnds DEF Switch!Next

\* The counts of the invariant are those of the specification.
LEMMA SwitchHolds == SwitchInv => Switch!RefsAreOwners /\ Switch!MessageLives
<1> SUFFICES ASSUME SwitchInv PROVE Switch!RefsAreOwners /\ Switch!MessageLives
  OBVIOUS
<1>1. ASSUME main \in {"run", "signal"}, NEW p \in Switch!Pictures
      PROVE  refs[p] = Switch!Cardinality({c \in Switch!Index : current[c] = p})
                       + (IF frame = p THEN 1 ELSE 0) + (IF uploaded = p THEN 1 ELSE 0)
  <2>1. Owned
    BY <1>1 DEF SwitchInv
  <2>2. Switch!Cardinality(Holders(p)) = Cardinality(Holders(p))
    BY Zenon DEF Switch!Cardinality, Cardinality, Switch!IsFiniteSet, IsFiniteSet
  <2> QED
    BY <2>1, <2>2 DEF Owned, Owners, One, Holders
<1>2. ASSUME Switch!Running, message # 0 PROVE message = uploaded /\ refs[message] > 0
  <2>1. Owned /\ message = uploaded /\ message \in Switch!Pictures
    BY <1>2, SwitchConstants DEF SwitchInv, Uploads, Switch!Running, Switch!TypeOK, Switch!Pictures
  <2>2. refs[message] = Cardinality(Holders(message)) + One(frame = message) + 1
    BY <2>1, CamerasAreFinite DEF Owned, Owners, One
  <2>3. refs[message] > 0
    BY <2>2, CamerasAreFinite DEF One
  <2> QED
    BY <2>1, <2>3
<1> QED
  <2>1. Switch!RefsAreOwners
    BY <1>1 DEF Switch!RefsAreOwners
  <2>2. Switch!MessageLives
    BY <1>2 DEF Switch!MessageLives
  <2> QED
    BY <2>1, <2>2

\* A picture is kept by the cameras, the manager and the upload that refer to it, and
\* by nobody else; the bytes of the message in flight are those of the upload
\* (demo/camera-switch.c:236-277).
THEOREM PicturesKept == Switch!Spec => [](Switch!RefsAreOwners /\ Switch!MessageLives)
BY SwitchInit, SwitchStep, SwitchHolds, PTL DEF Switch!Spec

-----------------------------------------------------------------------------
\* The composition.
InputsInv == Inv /\ FolderInv /\ SwitchInv /\ PluginInv /\ SocketInv

\* A step of it is a step of each of its components, or leaves them alone.
LEMMA InputsCorrect == MCSpec => []InputsInv
<1>1. MCInit => InputsInv
  BY InitInv, FolderInit, SwitchInit, PluginInit, SocketInit DEF MCInit, InputsInv
<1>2. [MCNext]_allVars => /\ [Next]_vars /\ [Watch!Next]_Watch!vars /\ [Switch!Next]_Switch!vars
                          /\ [Manager!Next]_Manager!vars /\ [Sockets!Next]_Sockets!vars
  BY DEF MCNext, OfClient, OfWatch, OfSwitch, OfManager, OfSockets, allVars, clientVars,
     folderVars, switchVars, pluginVars, socketVars, Watch!vars, Switch!vars, Manager!vars,
     Sockets!vars
<1>3. InputsInv /\ [MCNext]_allVars => InputsInv'
  BY <1>2, ClientStep, FolderStep, SwitchStep, PluginStep, SocketStep DEF InputsInv
<1> QED
  BY <1>1, <1>3, PTL DEF MCSpec

\* What the programs take their pictures from is well-typed.
THEOREM InputsTypeCorrect == MCSpec => []MCTypeOK
<1>1. InputsInv => MCTypeOK
  BY FolderFollowed DEF InputsInv, Inv, SwitchInv, PluginInv, SocketInv, MCTypeOK
<1> QED
  BY <1>1, InputsCorrect, PTL

\* In the composition too the client stays in step (http-client.c:307, 342;
\* io-input.c:85),
THEOREM InputsStayInStep == MCSpec => []ClientInStep
<1>1. InputsInv => ClientInStep
  BY DEF InputsInv, Inv, InStep, Lateness, ClientInStep, NumbersAgree, OneLateFrame
<1> QED
  BY <1>1, InputsCorrect, PTL

\* the watch and the halves of renames follow the folder (input-source.c:950-964),
THEOREM InputsFollowFolder == MCSpec => []WatchFollowsFolder
<1>1. InputsInv => WatchFollowsFolder
  BY FolderFollowed DEF InputsInv, WatchFollowsFolder
<1> QED
  BY <1>1, InputsCorrect, PTL

\* calm files are shown (input-source.c:887-911),
THEOREM InputsShowCalmFiles == MCSpec => []CalmFileIsShown
<1>1. InputsInv => CalmFileIsShown
  BY FolderFollowed DEF InputsInv, CalmFileIsShown
<1> QED
  BY <1>1, InputsCorrect, PTL

\* pictures live as long as they are needed (demo/camera-switch.c:236-277),
THEOREM InputsHoldPictures == MCSpec => []PicturesAreHeld
<1>1. InputsInv => PicturesAreHeld
  BY SwitchHolds DEF InputsInv, PicturesAreHeld
<1> QED
  BY <1>1, InputsCorrect, PTL

\* and the arrays hold what is open (ann-plugins.c:56-95, websocket.c:225-290).
THEOREM InputsArraysHold == MCSpec => []ArraysHold
<1>1. InputsInv => ArraysHold
  BY PluginHolds, SocketHolds DEF InputsInv, ArraysHold
<1> QED
  BY <1>1, InputsCorrect, PTL
=============================================================================
