-------------------------- MODULE BufferUsersProofs --------------------------
(***************************************************************************)
(* The two components that run on the frame buffer of an io_input, for any *)
(* number of sessions, pipelines, readers and calls.                       *)
(*                                                                         *)
(* The http server: what the theorems of the buffer say still holds with   *)
(* the sessions around it, and when the images come one after the other, a *)
(* client that has seen its POST answered is answered with that picture or *)
(* a newer one.                                                            *)
(*                                                                         *)
(* The sources of the default plugin: their buffer has several writers and *)
(* none of them locks the copy.  A program that stops a source before it   *)
(* sets another makes them take turns, and then everything proved of a     *)
(* buffer with a single writer holds.                                      *)
(***************************************************************************)
EXTENDS HttpServer, InputSource, FrameBufferProofs

USE DEF Threads, Slots, Back

-----------------------------------------------------------------------------
\* The http server.

\* A step of the server is a step of the buffer, or a POST whose body is no image.
LEMMA ServerSteps ==
  [HttpNext]_allVars => [Next]_vars \/ \E w \in Writers : PostGarbage(w)
<1> SUFFICES ASSUME [HttpNext]_allVars, \A w \in Writers : ~PostGarbage(w)
             PROVE  [Next]_vars
  OBVIOUS
<1>1. ASSUME NEW w \in Writers, Post(w) PROVE [Next]_vars
  BY <1>1 DEF Post, PostImage, PostCopy, PostPublish, Next, Set
<1>2. ASSUME NEW r \in Readers, HttpGet(r) PROVE [Next]_vars
  BY <1>2 DEF HttpGet, GetStart, GetEnter, GetCopy, GetAnswer, Next, Get
<1>3. ASSUME NEW t \in Threads, Refuse(t) \/ Accept(t) \/ Lose(t) \/ Unpause(t) \/ Sent(t)
      PROVE  [Next]_vars
  BY <1>3 DEF Refuse, Accept, Lose, Unpause, Sent
<1>4. CASE UNCHANGED allVars
  BY <1>4 DEF allVars
<1> QED
  BY <1>1, <1>2, <1>3, <1>4 DEF HttpNext

\* A body that is no image leaves a well-typed buffer.
LEMMA GarbageTypeOK ==
  ASSUME TypeOK, NEW w \in Writers, PostGarbage(w)
  PROVE  TypeOK'
<1>1. src' = [src EXCEPT ![w] = [frame |-> Blank, num |-> 0]]
      /\ UNCHANGED <<slots, front, number, mutex, calls, pc, tgt, frame, out>>
  BY DEF PostGarbage
<1> QED
  BY <1>1, BlankFacts DEF TypeOK

\* The buffer stays well-typed, whoever posts.
LEMMA ServerBufferTypeOK == TypeOK /\ [HttpNext]_allVars => TypeOK'
  BY ServerSteps, NextTypeOK, GarbageTypeOK

\* The images handed over come from the calls counted so far.
SourcesBounded == \A w \in Writers : src[w].frame.pix <= MaxCalls

\* Every step keeps the sessions well-typed.
LEMMA HttpTypeStep ==
  HttpTypeOK /\ SourcesBounded /\ [HttpNext]_allVars => HttpTypeOK' /\ SourcesBounded'
<1> SUFFICES ASSUME HttpTypeOK, SourcesBounded, [HttpNext]_allVars
             PROVE  HttpTypeOK' /\ SourcesBounded'
  OBVIOUS
<1>0. TypeOK /\ TypeOK'
  BY ServerBufferTypeOK DEF HttpTypeOK
<1>a. \A w \in Writers : src[w].frame.pix \in Nat
  BY <1>0 DEF TypeOK, Frame
<1> DEFINE SessionsTypeOK ==
      /\ session \in [Threads -> {"none", "started", "working", "done", "answered", "lost"}]
      /\ status \in [Threads -> {"none", "OK", "no image", "refused"}]
      /\ acked \in 0 .. MaxCalls
      /\ floor \in [Readers -> 0 .. MaxCalls]
<1>b. SessionsTypeOK
  BY DEF HttpTypeOK
<1> SUFFICES SessionsTypeOK' /\ SourcesBounded'
  BY <1>0 DEF HttpTypeOK
<1>1. ASSUME NEW w \in Writers, PostImage(w) PROVE SessionsTypeOK' /\ SourcesBounded'
  <2>1. SessionsTypeOK'
    BY <1>b, <1>1 DEF PostImage, Goto
  <2>2. PICK type \in Kinds, text \in Texts, num \in Nums :
          src' = [src EXCEPT ![w] = [frame |-> NewFrame(calls + 1, type, text), num |-> num]]
    BY <1>1, Zenon DEF PostImage, SetCall
  <2>3. calls + 1 <= MaxCalls
    BY <1>0, <1>1, MaxCallsAssumption DEF PostImage, SetCall, TypeOK
  <2>4. src'[w].frame.pix = calls + 1 /\ \A v \in Writers \ {w} : src'[v] = src[v]
    BY <1>0, <2>2 DEF TypeOK, NewFrame
  <2> QED
    BY <2>1, <2>3, <2>4 DEF SourcesBounded
<1>2. ASSUME NEW w \in Writers, PostGarbage(w) PROVE SessionsTypeOK' /\ SourcesBounded'
  <2>1. SessionsTypeOK'
    BY <1>b, <1>2 DEF PostGarbage, Goto
  <2>2. src' = [src EXCEPT ![w] = [frame |-> Blank, num |-> 0]]
    BY <1>2 DEF PostGarbage
  <2>3. src'[w].frame.pix = 0 /\ \A v \in Writers \ {w} : src'[v] = src[v]
    BY <1>0, <2>2 DEF Blank, TypeOK
  <2>4. 0 <= MaxCalls
    BY MaxCallsAssumption
  <2>5. SourcesBounded'
    BY <2>3, <2>4 DEF SourcesBounded
  <2> QED
    BY <2>1, <2>5
<1>3. ASSUME NEW w \in Writers, PostCopy(w) \/ PostPublish(w)
      PROVE  SessionsTypeOK' /\ SourcesBounded'
  <2>1. SessionsTypeOK'
    BY <1>b, <1>3 DEF PostCopy, PostPublish, sessionVars, Goto
  <2>2. UNCHANGED src
    BY <1>3 DEF PostCopy, PostPublish, SetPixels, SetHead, SetPublish
  <2> QED
    BY <2>1, <2>2 DEF SourcesBounded
<1>4. ASSUME NEW r \in Readers, HttpGet(r) PROVE SessionsTypeOK' /\ SourcesBounded'
  <2>1. UNCHANGED src
    BY <1>4 DEF HttpGet, GetStart, GetEnter, GetCopy, GetAnswer, GetCall, GetLock, GetPixels,
       GetHead, GetReturn, vars
  <2>2. SessionsTypeOK'
    BY <1>b, <1>4 DEF HttpGet, GetStart, GetEnter, GetCopy, GetAnswer, sessionVars, Goto
  <2> QED
    BY <2>1, <2>2 DEF SourcesBounded
<1>5. ASSUME NEW t \in Threads, Refuse(t) \/ Accept(t) \/ Lose(t) \/ Unpause(t) \/ Sent(t)
      PROVE  SessionsTypeOK' /\ SourcesBounded'
  <2>1. UNCHANGED src
    BY <1>5 DEF Refuse, Accept, Lose, Unpause, Sent, vars
  <2>2. acked' \in 0 .. MaxCalls
    <3>1. CASE Unpause(t)
      <4>1. t \in Writers => src[t].frame.pix \in 0 .. MaxCalls
        BY <1>a, MaxCallsAssumption DEF SourcesBounded
      <4> QED
        BY <1>b, <3>1, <4>1 DEF Unpause, Acknowledge
    <3>2. CASE ~Unpause(t)
      BY <1>b, <1>5, <3>2 DEF Refuse, Accept, Lose, Sent
    <3> QED
      BY <3>1, <3>2
  <2>3. floor' \in [Readers -> 0 .. MaxCalls]
    <3>1. 0 \in 0 .. MaxCalls
      BY MaxCallsAssumption
    <3>2. CASE Accept(t)
      BY <1>b, <3>1, <3>2 DEF Accept
    <3>3. CASE Sent(t)
      BY <1>b, <3>1, <3>3 DEF Sent
    <3>4. CASE Refuse(t) \/ Lose(t) \/ Unpause(t)
      BY <1>b, <3>4 DEF Refuse, Lose, Unpause
    <3> QED
      BY <1>5, <3>2, <3>3, <3>4
  <2>4. SessionsTypeOK'
    BY <1>b, <1>5, <2>2, <2>3 DEF Refuse, Accept, Lose, Unpause, Sent, Goto
  <2> QED
    BY <2>1, <2>4 DEF SourcesBounded
<1>6. CASE UNCHANGED allVars
  BY <1>b, <1>6 DEF allVars, sessionVars, vars, SourcesBounded
<1> QED
  BY <1>1, <1>2, <1>3, <1>4, <1>5, <1>6 DEF HttpNext, Post

\* The sessions and the buffer stay well-typed whoever posts, and no client is told
\* of a frame beyond the last call (http-server.c:380-410).
THEOREM HttpTypeCorrect == HttpSpec => []HttpTypeOK
<1>1. HttpInit => HttpTypeOK /\ SourcesBounded
  <2> SUFFICES ASSUME HttpInit PROVE HttpTypeOK /\ SourcesBounded
    OBVIOUS
  <2>1. TypeOK
    BY InitTypeOK DEF HttpInit
  <2> QED
    BY <2>1, MaxCallsAssumption DEF HttpInit, HttpTypeOK, Init, Blank, SourcesBounded
<1> QED
  BY <1>1, HttpTypeStep, PTL DEF HttpSpec

-----------------------------------------------------------------------------
\* The invariants of the buffer are invariants of the server: a POST without an
\* image changes the frame of a writer that is not writing.
IdleOK == \A t \in Threads : session[t] # "working" => pc[t] = "idle"

ServerBuffer == TypeOK /\ CopiesOK /\ PublishedOK

\* Every step of the server keeps what the buffer is known to be.
LEMMA ServerBufferStep ==
  ASSUME SingleWriter, AlwaysCopyable, ServerBuffer, IdleOK, [HttpNext]_allVars
  PROVE  ServerBuffer'
<1> USE DEF ServerBuffer
<1>1. CASE [Next]_vars
  BY <1>1, NextTypeOK, NextCopiesOK, NextPublishedOK
<1>2. ASSUME NEW w \in Writers, PostGarbage(w) PROVE ServerBuffer'
  <2>1. /\ src' = [src EXCEPT ![w] = [frame |-> Blank, num |-> 0]]
        /\ pc[w] = "idle"
        /\ UNCHANGED <<slots, front, number, mutex, calls, pc, tgt, frame, out>>
    BY <1>2 DEF PostGarbage, Goto, IdleOK
  <2>2. TypeOK'
    BY <1>2, GarbageTypeOK
  <2>3. /\ src'[w].frame = Blank
        /\ \A v \in Writers \ {w} : src'[v] = src[v]
    BY <2>1 DEF TypeOK
  <2>4. SourcesOK'
    BY <2>3, BlankFacts DEF CopiesOK, SourcesOK
  <2>5. PcsOK' /\ ReadersLocked' /\ WritersOffFront' /\ ReaderFramesOK'
    BY <2>1 DEF CopiesOK, PcsOK, ReadersLocked, Getting, WritersOffFront, Setting, ReaderFramesOK
  <2>6. SlotsOK'
    BY <2>1, <2>3 DEF CopiesOK, SlotsOK
  <2>7. PublishedOK'
    BY <2>1, <2>3 DEF PublishedOK, Setting
  <2> QED
    BY <2>2, <2>4, <2>5, <2>6, <2>7 DEF CopiesOK
<1> QED
  BY <1>1, <1>2, ServerSteps

\* What a GET session answers is at least as new as its floor.
AnswerOK(r) ==
  /\ session[r] = "working" /\ pc[r] = "idle" =>
       /\ out[r].frame.pix >= floor[r]
       /\ out[r].num = 0 => floor[r] = 0
  /\ session[r] \in {"done", "answered"} =>
       /\ status[r] = "OK" => out[r].frame.pix >= floor[r]
       /\ status[r] = "no image" => floor[r] = 0

\* What was acknowledged is published, and so is what a finished POST handed over.
PromisesOK ==
  /\ acked <= slots[front].pix
  /\ \A r \in Readers : floor[r] <= acked /\ AnswerOK(r)
  /\ \A w \in Writers : session[w] = "done" => src[w].frame.pix <= slots[front].pix

ServerOK == HttpTypeOK /\ ServerBuffer /\ IdleOK /\ PromisesOK

\* A session calls the buffer only while it works.
LEMMA IdleStep ==
  ASSUME HttpTypeOK, IdleOK, [HttpNext]_allVars
  PROVE  IdleOK'
<1> USE DEF HttpTypeOK, TypeOK, IdleOK, Goto
<1>1. ASSUME NEW w \in Writers, PostImage(w) PROVE IdleOK'
  <2>1. /\ \A t \in Threads \ {w} : pc'[t] = pc[t] /\ session'[t] = session[t]
        /\ session'[w] = "working"
    BY <1>1 DEF PostImage, SetCall
  <2> QED
    BY <2>1
<1>2. ASSUME NEW w \in Writers, PostGarbage(w) PROVE IdleOK'
  BY <1>2 DEF PostGarbage
<1>3. ASSUME NEW w \in Writers, PostCopy(w) \/ PostPublish(w) PROVE IdleOK'
  BY <1>3 DEF PostCopy, PostPublish, SetPixels, SetHead, SetPublish, sessionVars
<1>4. ASSUME NEW r \in Readers, HttpGet(r) PROVE IdleOK'
  <2>1. CASE GetStart(r)
    BY <2>1 DEF GetStart, GetCall
  <2>2. CASE GetEnter(r)
    BY <2>2 DEF GetEnter, GetLock, sessionVars
  <2>3. CASE GetCopy(r)
    BY <2>3 DEF GetCopy, GetPixels, GetHead, GetReturn, sessionVars
  <2>4. CASE GetAnswer(r)
    BY <2>4 DEF GetAnswer, vars
  <2> QED
    BY <1>4, <2>1, <2>2, <2>3, <2>4 DEF HttpGet
<1>5. ASSUME NEW t \in Threads, Refuse(t) \/ Accept(t) \/ Lose(t) \/ Unpause(t) \/ Sent(t)
      PROVE  IdleOK'
  BY <1>5 DEF Refuse, Accept, Lose, Unpause, Sent, vars
<1>6. CASE UNCHANGED allVars
  BY <1>6 DEF allVars, vars, sessionVars
<1> QED
  BY <1>1, <1>2, <1>3, <1>4, <1>5, <1>6 DEF HttpNext, Post

\* What is published only gets newer.
LEMMA FrontGrows ==
  ASSUME ServerBuffer, [HttpNext]_allVars
  PROVE  slots'[front'].pix >= slots[front].pix
<1>1. /\ front \in Slots /\ Back \in Slots /\ front # Back
      /\ slots[front].pix \in Nat /\ calls \in Nat
  BY MaxCallsAssumption DEF ServerBuffer, TypeOK, Frame
<1>2. ASSUME NEW w \in Writers, SetCall(w) \/ SetPixels(w) \/ SetHead(w)
      PROVE  slots'[front'] = slots[front]
  BY <1>1, <1>2 DEF SetCall, SetPixels, SetHead, ServerBuffer, CopiesOK, WritersOffFront,
                    Setting, TypeOK
<1>3. ASSUME NEW w \in Writers, SetPublish(w)
      PROVE  slots'[front'].pix >= slots[front].pix
  <2>1. pc[w] = "publish" /\ slots' = slots /\ front' = Back
    BY <1>3 DEF SetPublish
  <2>2. slots[Back].pix = calls /\ slots[front].pix < calls
    BY <2>1 DEF ServerBuffer, PublishedOK, Setting
  <2> QED
    BY <1>1, <2>1, <2>2
<1>4. ASSUME NEW r \in Readers, Get(r)
      PROVE  slots'[front'] = slots[front]
  BY <1>4 DEF Get, GetCall, GetLock, GetPixels, GetHead, GetReturn
<1>5. (\E w \in Writers : PostGarbage(w)) \/ UNCHANGED vars => slots'[front'] = slots[front]
  BY DEF PostGarbage, vars
<1> QED
  BY <1>1, <1>2, <1>3, <1>4, <1>5, ServerSteps DEF Next, Set

\* The numbers the promises compare.
LEMMA PromiseTypes ==
  ASSUME HttpTypeOK
  PROVE  /\ slots[front].pix \in Nat /\ acked \in Nat
         /\ \A r \in Readers : floor[r] \in Nat /\ out[r].frame.pix \in Nat
         /\ \A w \in Writers : src[w].frame.pix \in Nat
<1>0. TypeOK
  BY DEF HttpTypeOK
<1>1. slots[front].pix \in Nat
  BY <1>0 DEF TypeOK, Frame
<1>2. acked \in Nat
  <2>1. acked \in 0 .. MaxCalls
    BY DEF HttpTypeOK
  <2> QED
    BY <2>1, MaxCallsAssumption
<1>5. ASSUME NEW r \in Readers PROVE floor[r] \in Nat
  <2>1. floor[r] \in 0 .. MaxCalls
    BY DEF HttpTypeOK
  <2> QED
    BY <2>1, MaxCallsAssumption
<1>3. ASSUME NEW r \in Readers PROVE out[r].frame.pix \in Nat
  BY <1>0 DEF TypeOK, Frame
<1>4. ASSUME NEW w \in Writers PROVE src[w].frame.pix \in Nat
  BY <1>0 DEF TypeOK, Frame
<1> QED
  BY <1>1, <1>2, <1>3, <1>4, <1>5

\* The functions the steps update at one thread.
Shapes ==
  /\ session \in [Threads -> {"none", "started", "working", "done", "answered", "lost"}]
  /\ status \in [Threads -> {"none", "OK", "no image", "refused"}]
  /\ pc \in [Threads -> {"idle", "pixels", "head", "publish", "lock", "return"}]
  /\ floor \in [Readers -> 0 .. MaxCalls]

\* They have these shapes whenever the server is well-typed.
LEMMA TypeGivesShapes == HttpTypeOK => Shapes
  BY DEF HttpTypeOK, TypeOK, Shapes

\* As long as nothing is acknowledged and no request comes in, what is published
\* stays ahead of what was acknowledged.
LEMMA PromisesKept ==
  ASSUME ServerOK, slots'[front'].pix \in Nat, slots'[front'].pix >= slots[front].pix,
         UNCHANGED <<acked, floor>>,
         \A r \in Readers : AnswerOK(r)',
         \A w \in Writers : session'[w] = "done" => src'[w].frame.pix <= slots'[front'].pix
  PROVE  PromisesOK'
<1>1. acked <= slots'[front'].pix
  BY PromiseTypes DEF ServerOK, PromisesOK
<1>2. \A r \in Readers : floor'[r] <= acked'
  BY DEF ServerOK, PromisesOK
<1> QED
  BY <1>1, <1>2 DEF PromisesOK

\* A POST session: set_frame, then the answer.
LEMMA PostPromises ==
  ASSUME ServerOK, slots'[front'].pix \in Nat, slots'[front'].pix >= slots[front].pix,
         NEW w \in Writers, Post(w)
  PROVE  PromisesOK'
<1>0. HttpTypeOK /\ TypeOK /\ ServerBuffer /\ IdleOK /\ PromisesOK
  BY DEF ServerOK, HttpTypeOK
<1>a. \A v \in Writers : src[v].frame.pix \in Nat
  BY <1>0, PromiseTypes
<1>b. slots[front].pix \in Nat
  BY <1>0, PromiseTypes
<1>f. Shapes
  BY <1>0, TypeGivesShapes
<1> USE DEF Goto
<1>1. /\ UNCHANGED <<acked, floor, out>>
      /\ \A t \in Threads \ {w} : pc'[t] = pc[t] /\ session'[t] = session[t] /\ status'[t] = status[t]
      /\ \A v \in Writers \ {w} : src'[v] = src[v]
  <2>0. src \in [Writers -> [frame : Frame, num : Nat]]
    BY <1>0 DEF TypeOK
  <2>1. CASE PostImage(w)
    <3>1. \E s : src' = [src EXCEPT ![w] = s]
      BY <2>1, Zenon DEF PostImage, SetCall
    <3>2. \A v \in Writers \ {w} : src'[v] = src[v]
      BY <2>0, <3>1
    <3>3. \A t \in Threads \ {w} : pc'[t] = pc[t]
      BY <1>f, <2>1 DEF PostImage, SetCall, Shapes
    <3>4. /\ UNCHANGED <<acked, floor, out, status>>
          /\ \A t \in Threads \ {w} : session'[t] = session[t]
      BY <1>f, <2>1 DEF PostImage, SetCall, Shapes
    <3> QED
      BY <3>2, <3>3, <3>4
  <2>2. CASE PostGarbage(w)
    <3>1. \A v \in Writers \ {w} : src'[v] = src[v]
      BY <2>0, <2>2 DEF PostGarbage
    <3> QED
      BY <1>f, <2>2, <3>1 DEF PostGarbage, Shapes
  <2>3. CASE PostCopy(w)
    BY <1>f, <2>3 DEF PostCopy, SetPixels, SetHead, sessionVars, Shapes
  <2>4. CASE PostPublish(w)
    BY <1>f, <2>4 DEF PostPublish, SetPublish, Shapes
  <2> QED
    BY <2>1, <2>2, <2>3, <2>4 DEF Post
<1>2. \A r \in Readers : AnswerOK(r)'
  <2>1. \A r \in Readers : r \in Threads \ {w}
    BY ThreadsAssumption
  <2>2. ASSUME NEW r \in Readers PROVE AnswerOK(r)'
    <3>1. UNCHANGED <<floor, out>> /\ pc'[r] = pc[r] /\ session'[r] = session[r] /\ status'[r] = status[r]
      BY <1>1, <2>1
    <3>2. AnswerOK(r)
      BY <1>0 DEF PromisesOK
    <3> QED
      BY <3>1, <3>2 DEF AnswerOK
  <2> QED
    BY <2>2
<1>3. session'[w] = "done" => src'[w].frame.pix <= slots'[front'].pix
  <2>1. CASE PostImage(w)
    <3>1. session'[w] = "working"
      BY <1>f, <2>1 DEF PostImage, Shapes
    <3> QED
      BY <3>1
  <2>2. CASE PostGarbage(w)
    <3>1. src'[w].frame = Blank
      BY <1>0, <2>2 DEF PostGarbage, TypeOK
    <3> QED
      BY <3>1 DEF Blank
  <2>3. CASE PostCopy(w)
    <3>1. pc[w] # "idle" /\ session' = session
      BY <2>3 DEF PostCopy, SetPixels, SetHead, sessionVars
    <3> QED
      BY <1>0, <3>1 DEF IdleOK
  <2>4. CASE PostPublish(w)
    <3>1. pc[w] = "publish" /\ front' = Back /\ slots' = slots /\ src' = src
      BY <2>4 DEF PostPublish, SetPublish
    <3>2. slots[Back].pix = src[w].frame.pix
      BY <1>0, <3>1 DEF ServerBuffer, PublishedOK
    <3>3. src'[w].frame.pix = slots'[front'].pix
      BY <3>1, <3>2
    <3> QED
      BY <3>3
  <2> QED
    BY <2>1, <2>2, <2>3, <2>4 DEF Post
<1>4. ASSUME NEW v \in Writers, session'[v] = "done" PROVE src'[v].frame.pix <= slots'[front'].pix
  <2>1. CASE v = w
    BY <1>3, <1>4, <2>1
  <2>2. CASE v # w
    <3>1. src'[v] = src[v] /\ session[v] = "done"
      BY <1>1, <1>4, <2>2
    <3>2. src[v].frame.pix <= slots[front].pix
      BY <1>0, <3>1 DEF PromisesOK
    <3>3. src[v].frame.pix \in Nat
      BY <1>a
    <3>4. src[v].frame.pix <= slots'[front'].pix
      BY <1>b, <3>2, <3>3
    <3> QED
      BY <3>1, <3>4
  <2> QED
    BY <2>1, <2>2
<1> QED
  BY <1>1, <1>2, <1>4, PromisesKept

\* A GET session: get_frame, which returns what is published, then the answer.
LEMMA GetPromises ==
  ASSUME ServerOK, slots'[front'].pix \in Nat, slots'[front'].pix >= slots[front].pix,
         NEW r \in Readers, HttpGet(r)
  PROVE  PromisesOK'
<1>0. HttpTypeOK /\ TypeOK /\ ServerBuffer /\ IdleOK /\ PromisesOK
  BY DEF ServerOK, HttpTypeOK
<1>a. \A v \in Writers : src[v].frame.pix \in Nat
  BY <1>0, PromiseTypes
<1>b. slots[front].pix \in Nat
  BY <1>0, PromiseTypes
<1>c. floor[r] \in Nat /\ floor[r] <= slots[front].pix
  <2>1. acked \in Nat /\ floor[r] \in Nat /\ floor[r] <= acked /\ acked <= slots[front].pix
    BY <1>0, PromiseTypes DEF PromisesOK
  <2> QED
    BY <1>b, <2>1
<1>f. Shapes
  BY <1>0, TypeGivesShapes
<1> USE DEF Goto
<1>1. /\ UNCHANGED <<acked, floor, src>>
      /\ \A t \in Threads \ {r} : pc'[t] = pc[t] /\ session'[t] = session[t] /\ status'[t] = status[t]
      /\ \A q \in Readers \ {r} : out'[q] = out[q]
  <2>1. CASE GetStart(r)
    BY <1>f, <2>1 DEF GetStart, GetCall, Shapes
  <2>2. CASE GetEnter(r)
    BY <1>f, <2>2 DEF GetEnter, GetLock, sessionVars, Shapes
  <2>3. CASE GetCopy(r)
    BY <1>0, <1>f, <2>3 DEF GetCopy, GetPixels, GetHead, GetReturn, sessionVars, Shapes, TypeOK
  <2>4. CASE GetAnswer(r)
    BY <1>f, <2>4 DEF GetAnswer, vars, Shapes
  <2> QED
    BY <2>1, <2>2, <2>3, <2>4 DEF HttpGet
<1>2. AnswerOK(r)'
  <2>1. CASE GetStart(r)
    <3>1. session'[r] = "working" /\ pc'[r] = "lock"
      BY <1>f, <2>1 DEF GetStart, GetCall, Shapes
    <3> QED
      BY <3>1 DEF AnswerOK
  <2>2. CASE GetEnter(r)
    <3>1. pc[r] = "lock" /\ pc'[r] \in {"pixels", "return"} /\ session' = session
      BY <1>f, <2>2 DEF GetEnter, GetLock, sessionVars, Shapes
    <3>2. session[r] = "working"
      BY <1>0, <3>1 DEF IdleOK
    <3> QED
      BY <3>1, <3>2 DEF AnswerOK
  <2>3. CASE GetCopy(r) /\ ~GetReturn(r)
    <3>1. pc[r] \in {"pixels", "head"} /\ pc'[r] \in {"head", "return"} /\ session' = session
      BY <1>f, <2>3 DEF GetCopy, GetPixels, GetHead, sessionVars, Shapes
    <3>2. session[r] = "working"
      BY <1>0, <3>1 DEF IdleOK
    <3> QED
      BY <3>1, <3>2 DEF AnswerOK
  <2>4. CASE GetReturn(r) /\ UNCHANGED sessionVars
    <3>1. /\ pc[r] = "return" /\ session' = session /\ floor' = floor
          /\ out'[r].frame = frame[r]
          /\ out'[r].num = IF number > 0 THEN number ELSE out[r].num
      BY <1>0, <2>4 DEF GetReturn, sessionVars, TypeOK
    <3>2. session[r] = "working"
      BY <1>0, <3>1 DEF IdleOK
    <3>3. frame[r].pix = slots[front].pix
      BY <1>0, <3>1 DEF ServerBuffer, PublishedOK
    <3>4. out'[r].frame.pix >= floor'[r]
      <4>1. out'[r].frame.pix = slots[front].pix /\ floor'[r] = floor[r]
        BY <3>1, <3>3
      <4> QED
        BY <1>b, <1>c, <4>1
    <3>5. ASSUME out'[r].num = 0 PROVE floor'[r] = 0
      <4>0. number \in Nat
        BY <1>0 DEF TypeOK
      <4>1. number = 0
        BY <3>1, <3>5, <4>0
      <4>2. slots[front].pix = 0
        BY <1>0, <4>1 DEF ServerBuffer, PublishedOK
      <4>3. floor[r] = 0
        BY <1>c, <4>2
      <4> QED
        BY <3>1, <4>3
    <3> QED
      BY <3>1, <3>2, <3>4, <3>5 DEF AnswerOK
  <2>5. CASE GetAnswer(r)
    <3>1. /\ pc[r] = "idle" /\ session[r] = "working" /\ session'[r] = "done"
          /\ status'[r] = IF GetHasFrame(r) THEN "OK" ELSE "no image"
          /\ UNCHANGED <<out, floor>>
      BY <1>f, <2>5 DEF GetAnswer, vars, Shapes
    <3>2. out[r].frame.pix >= floor[r] /\ (out[r].num = 0 => floor[r] = 0)
      BY <1>0, <3>1 DEF PromisesOK, AnswerOK
    <3>3. out[r].num \in Nat
      BY <1>0 DEF TypeOK
    <3>4. ASSUME status'[r] = "no image" PROVE floor'[r] = 0
      <4>1. ~(out[r].num > 0)
        BY <3>1, <3>4 DEF GetHasFrame
      <4>2. out[r].num = 0
        BY <3>3, <4>1
      <4> QED
        BY <3>1, <3>2, <4>2
    <3> QED
      BY <3>1, <3>2, <3>4 DEF AnswerOK
  <2> QED
    BY <2>1, <2>2, <2>3, <2>4, <2>5 DEF HttpGet, GetCopy
<1>3. \A q \in Readers : AnswerOK(q)'
  <2>1. ASSUME NEW q \in Readers \ {r} PROVE AnswerOK(q)'
    <3>1. pc'[q] = pc[q] /\ session'[q] = session[q] /\ status'[q] = status[q] /\ out'[q] = out[q]
      BY <1>1
    <3>2. AnswerOK(q)
      BY <1>0 DEF PromisesOK
    <3> QED
      BY <1>1, <3>1, <3>2 DEF AnswerOK
  <2> QED
    BY <1>2, <2>1
<1>4. ASSUME NEW w \in Writers, session'[w] = "done" PROVE src'[w].frame.pix <= slots'[front'].pix
  <2>1. session[w] = "done" /\ src'[w] = src[w]
    BY <1>1, <1>4, ThreadsAssumption
  <2>2. src[w].frame.pix <= slots[front].pix
    BY <1>0, <2>1 DEF PromisesOK
  <2>3. src[w].frame.pix \in Nat
    BY <1>a
  <2>4. src[w].frame.pix <= slots'[front'].pix
    BY <1>b, <2>2, <2>3
  <2> QED
    BY <2>1, <2>4
<1> QED
  BY <1>1, <1>3, <1>4, PromisesKept

\* The main loop: a new request is promised what was acknowledged so far, and an
\* answer acknowledges what its session has published.
LEMMA LoopPromises ==
  ASSUME ServerOK, NEW t \in Threads, Refuse(t) \/ Accept(t) \/ Lose(t) \/ Unpause(t) \/ Sent(t)
  PROVE  PromisesOK'
<1>0. HttpTypeOK /\ TypeOK /\ PromisesOK
  BY DEF ServerOK, HttpTypeOK
<1>a. slots[front].pix \in Nat /\ acked \in Nat /\ acked <= slots[front].pix
  BY <1>0, PromiseTypes DEF PromisesOK
<1>b. \A w \in Writers : src[w].frame.pix \in Nat
  BY <1>0, PromiseTypes
<1>c. \A r \in Readers : floor[r] \in Nat /\ floor[r] <= acked
  BY <1>0, PromiseTypes DEF PromisesOK
<1>f. Shapes
  BY <1>0, TypeGivesShapes
<1> USE DEF Goto
<1>1. /\ UNCHANGED <<slots, front, pc, src, out>>
      /\ \A u \in Threads \ {t} : session'[u] = session[u] /\ status'[u] = status[u]
      /\ \A r \in Readers \ {t} : floor'[r] = floor[r]
  BY <1>f DEF Refuse, Accept, Lose, Unpause, Sent, vars, Shapes
<1>2. acked <= acked' /\ acked' <= slots[front].pix
  <2>1. CASE Unpause(t)
    <3>1. t \in Writers => src[t].frame.pix <= slots[front].pix
      BY <1>0, <2>1 DEF Unpause, PromisesOK
    <3>2. t \in Writers => src[t].frame.pix \in Nat
      BY <1>b
    <3>3. acked' = IF t \in Writers /\ src[t].frame.pix > acked THEN src[t].frame.pix ELSE acked
      BY <2>1 DEF Unpause, Acknowledge
    <3> QED
      BY <1>a, <3>1, <3>2, <3>3
  <2>2. CASE ~Unpause(t)
    BY <1>a, <2>2 DEF Refuse, Accept, Lose, Sent
  <2> QED
    BY <2>1, <2>2
<1>3. acked' \in Nat
  BY <1>a, <1>b DEF Refuse, Accept, Lose, Unpause, Sent, Acknowledge
<1>4. ASSUME NEW r \in Readers PROVE floor'[r] <= acked' /\ AnswerOK(r)'
  <2>1. AnswerOK(r) /\ floor[r] <= acked /\ floor[r] \in Nat
    BY <1>0, <1>c DEF PromisesOK
  <2>2. CASE r # t
    <3>1. session'[r] = session[r] /\ status'[r] = status[r] /\ floor'[r] = floor[r]
      BY <1>1, <2>2
    <3>2. floor'[r] <= acked'
      BY <1>2, <1>3, <1>a, <2>1, <3>1
    <3> QED
      BY <1>1, <2>1, <3>1, <3>2 DEF AnswerOK
  <2>3. CASE r = t /\ Refuse(t)
    <3>1. session'[r] = "answered" /\ status'[r] = "refused" /\ floor' = floor /\ acked' = acked
      BY <1>f, <2>3 DEF Refuse, Shapes
    <3> QED
      BY <2>1, <3>1 DEF AnswerOK
  <2>4. CASE r = t /\ Accept(t)
    <3>1. session'[r] = "started" /\ floor'[r] = acked /\ acked' = acked
      BY <1>f, <2>4 DEF Accept, Shapes
    <3> QED
      BY <1>a, <3>1 DEF AnswerOK
  <2>5. CASE r = t /\ Lose(t)
    <3>1. session'[r] = "lost" /\ floor' = floor /\ acked' = acked
      BY <1>f, <2>5 DEF Lose, Shapes
    <3> QED
      BY <2>1, <3>1 DEF AnswerOK
  <2>6. CASE r = t /\ Unpause(t)
    <3>1. session[r] = "done" /\ session'[r] = "answered" /\ status' = status /\ floor' = floor
      BY <1>f, <2>6 DEF Unpause, Shapes
    <3>2. floor'[r] <= acked'
      BY <1>2, <1>3, <1>a, <2>1, <3>1
    <3> QED
      BY <1>1, <2>1, <3>1, <3>2 DEF AnswerOK
  <2>7. CASE r = t /\ Sent(t)
    <3>1. session'[r] = "none" /\ floor'[r] = 0
      BY <1>f, <2>7 DEF Sent, Shapes
    <3> QED
      BY <1>3, <3>1 DEF AnswerOK
  <2> QED
    BY <2>2, <2>3, <2>4, <2>5, <2>6, <2>7
<1>5. ASSUME NEW w \in Writers, session'[w] = "done" PROVE session[w] = "done"
  BY <1>f, <1>5 DEF Refuse, Accept, Lose, Unpause, Sent, Shapes
<1>6. \A w \in Writers : session'[w] = "done" => src'[w].frame.pix <= slots'[front'].pix
  BY <1>0, <1>1, <1>5 DEF PromisesOK
<1> QED
  BY <1>1, <1>2, <1>4, <1>6 DEF PromisesOK

\* What was acknowledged stays published, and every answer is as new as it promised.
LEMMA PromisesStep ==
  ASSUME ServerOK, [HttpNext]_allVars
  PROVE  PromisesOK'
<1>0. HttpTypeOK /\ TypeOK /\ ServerBuffer /\ PromisesOK
  BY DEF ServerOK, HttpTypeOK
<1>1. slots'[front'].pix >= slots[front].pix
  BY <1>0, FrontGrows
<1>2. slots'[front'].pix \in Nat
  BY <1>0, ServerBufferTypeOK DEF TypeOK, Frame
<1>3. CASE UNCHANGED allVars
  BY <1>0, <1>3 DEF allVars, vars, sessionVars, PromisesOK, AnswerOK
<1> QED
  BY <1>1, <1>2, <1>3, PostPromises, GetPromises, LoopPromises DEF HttpNext

\* Nothing is acknowledged before the first request.
LEMMA InitServerOK == HttpInit => ServerOK /\ SourcesBounded
<1> SUFFICES ASSUME HttpInit PROVE ServerOK /\ SourcesBounded
  OBVIOUS
<1>1. Init /\ TypeOK /\ CopiesOK /\ PublishedOK
  BY InitTypeOK, InitCopiesOK, InitPublishedOK DEF HttpInit
<1>2. HttpTypeOK /\ IdleOK /\ SourcesBounded
  BY <1>1, MaxCallsAssumption DEF HttpInit, Init, Blank, HttpTypeOK, IdleOK, SourcesBounded
<1>3. PromisesOK
  <2>1. /\ slots[front].pix = 0 /\ acked = 0
        /\ \A t \in Threads : session[t] = "none"
    BY DEF HttpInit, Init, Blank
  <2>2. ASSUME NEW r \in Readers PROVE floor[r] <= acked /\ AnswerOK(r)
    <3>1. floor[r] = 0 /\ session[r] = "none"
      BY <2>1 DEF HttpInit
    <3> QED
      BY <2>1, <3>1 DEF AnswerOK
  <2>3. \A w \in Writers : session[w] # "done"
    BY <2>1
  <2> QED
    BY <2>1, <2>2, <2>3 DEF PromisesOK
<1> QED
  BY <1>1, <1>2, <1>3 DEF ServerOK, ServerBuffer

\* Every step of a server whose images come one after the other keeps its promises.
LEMMA NextServerOK ==
  ASSUME SingleWriter, AlwaysCopyable
  PROVE  ServerOK /\ SourcesBounded /\ [HttpNext]_allVars => ServerOK' /\ SourcesBounded'
<1> SUFFICES ASSUME ServerOK, SourcesBounded, [HttpNext]_allVars
             PROVE  ServerOK' /\ SourcesBounded'
  OBVIOUS
<1>1. HttpTypeOK' /\ SourcesBounded'
  BY HttpTypeStep DEF ServerOK
<1>2. ServerBuffer'
  BY ServerBufferStep DEF ServerOK
<1>3. IdleOK'
  BY IdleStep DEF ServerOK
<1>4. PromisesOK'
  BY PromisesStep
<1> QED
  BY <1>1, <1>2, <1>3, <1>4 DEF ServerOK

\* When the images are put one after the other and have a type the copy knows, a
\* client that has seen its POST answered gets that picture or a newer one, and is
\* never told that there is none (http-server.c:399, 405).
THEOREM AnsweredIsVisible ==
  ASSUME SingleWriter, AlwaysCopyable
  PROVE  HttpSpec => []AnsweredPostIsVisible
<1>1. ServerOK => AnsweredPostIsVisible
  BY DEF ServerOK, PromisesOK, AnswerOK, AnsweredPostIsVisible, Answered
<1> QED
  BY InitServerOK, NextServerOK, <1>1, PTL DEF HttpSpec

-----------------------------------------------------------------------------
\* With unnumbered images the numbers still count: a body that is no image takes no
\* number and gives none away.
LEMMA ServerNumberingStep ==
  ASSUME SingleWriter, NeverNumbered
  PROVE  ServerOK /\ NumberingOK /\ [HttpNext]_allVars => NumberingOK'
<1> SUFFICES ASSUME ServerOK, NumberingOK, [HttpNext]_allVars PROVE NumberingOK'
  OBVIOUS
<1>0. HttpTypeOK /\ TypeOK /\ CopiesOK /\ PublishedOK /\ IdleOK
  BY DEF ServerOK, HttpTypeOK, ServerBuffer
<1>1. ASSUME NEW w \in Writers, PostGarbage(w) PROVE NumberingOK'
  <2>1. UNCHANGED <<slots, front, number, calls, pc, out>>
    BY <1>1 DEF PostGarbage
  <2>2. \A v \in Writers : src'[v].num = 0
    BY <1>0, <1>1 DEF PostGarbage, TypeOK, NumberingOK
  <2> QED
    BY <2>1, <2>2 DEF NumberingOK, NumberCountsFrames, Setting
<1> QED
  BY <1>0, <1>1, ServerSteps, NextNumberingOK

\* A client that is given number n of an unnumbered stream is given its n-th image,
\* through the sessions of the server too (http-server.c:443-545, io-input.c:107).
THEOREM HttpNumbersCount ==
  ASSUME SingleWriter, AlwaysCopyable, NeverNumbered
  PROVE  HttpSpec => []NumberCountsFrames
<1>1. HttpInit => NumberingOK
  BY DEF HttpInit, Init, NumberingOK, NumberCountsFrames, Blank, Setting
<1>2. ServerOK /\ SourcesBounded /\ [HttpNext]_allVars => ServerOK' /\ SourcesBounded'
  BY NextServerOK
<1>3. ServerOK /\ NumberingOK /\ [HttpNext]_allVars => NumberingOK'
  BY ServerNumberingStep
<1>4. NumberingOK => NumberCountsFrames
  BY DEF NumberingOK
<1> QED
  BY InitServerOK, <1>1, <1>2, <1>3, <1>4, PTL DEF HttpSpec

\* The server's buffer implements the register too: a POST without an image is
\* invisible, every other step of a session is one of the buffer's
\* (io-input.c:78-115, http-server.c:443-545).
THEOREM HttpRefinement ==
  ASSUME SingleWriter, AlwaysCopyable
  PROVE  HttpSpec => ImplementsLatestFrame
<1>1. HttpInit => Latest!Init
  BY InitIsLatest DEF HttpInit
<1>2. ServerOK /\ SourcesBounded /\ [HttpNext]_allVars => ServerOK' /\ SourcesBounded'
  BY NextServerOK
<1>3. ServerOK /\ [HttpNext]_allVars => [Latest!Next]_Latest!vars
  <2>1. ASSUME NEW w \in Writers, PostGarbage(w) PROVE UNCHANGED Latest!vars
    <3>1. UNCHANGED <<slots, front, number, out>>
      BY <2>1 DEF PostGarbage
    <3> QED
      BY <3>1 DEF Latest!vars, Seen, Whole
  <2> QED
    BY <2>1, ServerSteps, NextIsLatest DEF ServerOK, ServerBuffer
<1> QED
  BY InitServerOK, <1>1, <1>2, <1>3, PTL DEF HttpSpec, ImplementsLatestFrame, Latest!Spec

-----------------------------------------------------------------------------
\* The sources of the default plugin.

\* Every step of the sources is a step of the buffer.
LEMMA SourceSteps == [SourceNext]_inputVars => [Next]_vars
<1> SUFFICES ASSUME [SourceNext]_inputVars PROVE [Next]_vars
  OBVIOUS
<1> USE MainAssumption
<1>1. ASSUME NEW p \in Pipelines, PipelineFrame(p) PROVE [Next]_vars
  BY <1>1 DEF PipelineFrame, Pipelines, Next, Set
<1>2. ASSUME NEW w \in Writers, CopyStep(w) PROVE [Next]_vars
  BY <1>2 DEF CopyStep, Next, Set
<1>3. ASSUME NEW r \in Readers, Consumer(r) PROVE [Next]_vars
  BY <1>3 DEF Consumer, Next
<1>4. CASE SetPicture
  BY <1>4 DEF SetPicture, Next, Set
<1>5. CASE SetVideo \/ Play \/ Pause \/ Stop \/ \E p \in Pipelines : Error(p)
  BY <1>5 DEF SetVideo, Play, Pause, Stop, Error
<1>6. CASE UNCHANGED inputVars
  BY <1>6 DEF inputVars
<1> QED
  BY <1>1, <1>2, <1>3, <1>4, <1>5, <1>6 DEF SourceNext

\* Every step keeps the sources and the buffer well-typed, disciplined or not.
LEMMA SourceTypeStep == SourceTypeOK /\ [SourceNext]_inputVars => SourceTypeOK'
<1> SUFFICES ASSUME SourceTypeOK, [SourceNext]_inputVars PROVE SourceTypeOK'
  OBVIOUS
<1>1. TypeOK'
  BY SourceSteps, NextTypeOK DEF SourceTypeOK
<1> DEFINE PipesTypeOK ==
      /\ kind \in {"none", "video", "picture"}
      /\ current \in Pipelines \cup {None}
      /\ pipe \in [Pipelines -> {"none", "ready", "playing", "pausing", "paused", "stopped"}]
<1>2. PipesTypeOK
  BY DEF SourceTypeOK
<1>3. PipesTypeOK'
  <2>1. ASSUME NEW p \in Pipelines, PipelineFrame(p) PROVE PipesTypeOK'
    BY <1>2, <2>1 DEF PipelineFrame
  <2>2. CASE UNCHANGED sourceVars
    BY <1>2, <2>2 DEF sourceVars
  <2>3. CASE SetVideo
    BY <1>2, <2>3 DEF SetVideo
  <2>4. CASE SetPicture
    BY <1>2, <2>4 DEF SetPicture
  <2>5. CASE Play \/ Pause
    BY <1>2, <2>5 DEF Play, Pause
  <2>6. CASE Stop
    BY <1>2, <2>6 DEF Stop
  <2> QED
    BY <2>1, <2>2, <2>3, <2>4, <2>5, <2>6 DEF SourceNext, CopyStep, Consumer, Error, inputVars
<1> QED
  BY <1>1, <1>3 DEF SourceTypeOK

\* The pipelines and the buffer stay well-typed, whatever the program does
\* (input-source.c:405-460, 525-760).
THEOREM SourceTypeCorrect == SourceSpec => []SourceTypeOK
<1>1. SourceInit => SourceTypeOK
  BY InitTypeOK DEF SourceInit, SourceTypeOK
<1> QED
  BY <1>1, SourceTypeStep, PTL DEF SourceSpec

-----------------------------------------------------------------------------
\* Only the pipeline that is current can hand over a frame; while the main thread
\* hands over a picture, none can.  stop waits for the callback that runs.
Live(p) == pipe[p] \notin {"none", "stopped"}

TurnsOK ==
  /\ \A p \in Pipelines : Live(p) => p = current
  /\ current # None => Live(current)
  /\ \A p \in Pipelines : Setting(p) => Live(p)
  /\ Setting(Main) => \A p \in Pipelines : ~Live(p)

\* Then the sources take turns.
LEMMA TurnsTaken == TurnsOK => SourcesTakeTurns
<1> SUFFICES ASSUME TurnsOK, NEW a \in Writers, NEW b \in Writers, Setting(a), Setting(b)
             PROVE  a = b
  BY DEF SourcesTakeTurns
<1>1. CASE a # Main /\ b # Main
  BY <1>1 DEF TurnsOK, Pipelines
<1>2. CASE a = Main \/ b = Main
  BY <1>2 DEF TurnsOK, Pipelines
<1> QED
  BY <1>1, <1>2

\* Whoever begins a set_frame finds nobody between two steps of his.
LEMMA CallsAlone ==
  ASSUME Disciplined, TurnsOK
  PROVE  /\ \A p \in Pipelines : PipelineFrame(p) => Alone(p)
         /\ SetPicture => Alone(Main)
         /\ \A w \in Writers : CopyStep(w) => Alone(w)
<1>1. ASSUME NEW p \in Pipelines, PipelineFrame(p) PROVE Alone(p)
  <2>1. Live(p)
    BY <1>1 DEF PipelineFrame, Streaming, Live
  <2> QED
    BY <2>1 DEF TurnsOK, Alone, Pipelines
<1>2. ASSUME SetPicture PROVE Alone(Main)
  <2>1. \A p \in Pipelines : ~Live(p)
    BY <1>2 DEF SetPicture, MaySetUri, Live
  <2> QED
    BY <2>1 DEF TurnsOK, Alone, Pipelines
<1>3. ASSUME NEW w \in Writers, CopyStep(w) PROVE Alone(w)
  <2>1. Setting(w)
    BY <1>3 DEF CopyStep, SetPixels, SetHead, SetPublish, Setting
  <2> QED
    BY <2>1, TurnsTaken DEF SourcesTakeTurns, Alone
<1> QED
  BY <1>1, <1>2, <1>3

\* A change of source waits for the old one, so its turn is over.
LEMMA TurnsStep ==
  ASSUME Disciplined, SourceTypeOK, TurnsOK, [SourceNext]_inputVars
  PROVE  TurnsOK'
<1>0. /\ pc \in [Threads -> {"idle", "pixels", "head", "publish", "lock", "return"}]
      /\ pipe \in [Pipelines -> {"none", "ready", "playing", "pausing", "paused", "stopped"}]
      /\ current \in Pipelines \cup {None}
  BY DEF SourceTypeOK, TypeOK
<1>m. Main \in Writers /\ Main \notin Pipelines /\ None \notin Pipelines
      /\ \A p \in Pipelines : p \in Writers
  BY MainAssumption, ThreadsAssumption DEF Pipelines
<1>1. ASSUME NEW p \in Pipelines, PipelineFrame(p) PROVE TurnsOK'
  <2>1. \A t \in Threads \ {p} : pc'[t] = pc[t]
    BY <1>0, <1>1 DEF PipelineFrame, SetCall
  <2>2. Live(p) /\ Live(p)' /\ \A q \in Pipelines \ {p} : pipe'[q] = pipe[q]
    BY <1>0, <1>1 DEF PipelineFrame, Streaming, Live
  <2>3. current' = current
    BY <1>1 DEF PipelineFrame
  <2>4. ~Setting(Main)'
    BY <1>m, <2>1, <2>2 DEF TurnsOK, Setting
  <2>5. \A q \in Pipelines : (Live(q)' <=> Live(q)) /\ (Setting(q)' => Live(q)')
    <3>1. \A q \in Pipelines \ {p} : Live(q)' <=> Live(q)
      BY <2>2 DEF Live
    <3>2. \A q \in Pipelines \ {p} : Setting(q)' => Setting(q)
      BY <1>m, <2>1 DEF Setting
    <3> QED
      BY <2>2, <3>1, <3>2 DEF TurnsOK
  <2>6. current' # None => Live(current)'
    <3>1. current = p
      BY <2>2 DEF TurnsOK
    <3> QED
      BY <2>2, <2>3, <3>1 DEF Live
  <2> QED
    BY <2>3, <2>4, <2>5, <2>6 DEF TurnsOK
<1>2. ASSUME \A w \in Writers : Setting(w)' => Setting(w), UNCHANGED <<current, pipe>>
      PROVE  TurnsOK'
  BY <1>2, <1>m DEF TurnsOK, Live
<1>3. ASSUME NEW w \in Writers, CopyStep(w) PROVE TurnsOK'
  <2>1. \A v \in Writers : Setting(v)' => Setting(v)
    BY <1>0, <1>3 DEF CopyStep, SetPixels, SetHead, SetPublish, Setting
  <2> QED
    BY <1>2, <1>3, <2>1 DEF CopyStep, sourceVars
<1>4. ASSUME NEW r \in Readers, Consumer(r) PROVE TurnsOK'
  <2>1. \A v \in Writers : pc'[v] = pc[v]
    BY <1>0, <1>4, ThreadsAssumption DEF Consumer, Get, GetCall, GetLock, GetPixels, GetHead, GetReturn
  <2>2. \A v \in Writers : Setting(v)' => Setting(v)
    BY <2>1 DEF Setting
  <2> QED
    BY <1>2, <1>4, <2>2 DEF Consumer, sourceVars
<1>5. CASE SetVideo
  <2>1. /\ \A p \in Pipelines : ~Live(p)
        /\ ~Setting(Main) /\ UNCHANGED pc
    BY <1>5 DEF SetVideo, MaySetUri, MainIdle, Live, Setting, vars
  <2>2. CASE UNCHANGED <<current, pipe>>
    BY <1>2, <2>1, <2>2 DEF Setting
  <2>3. ASSUME NEW p \in Pipelines, pipe' = [pipe EXCEPT ![p] = "ready"], current' = p
        PROVE  TurnsOK'
    <3>1. Live(p)' /\ \A q \in Pipelines \ {p} : ~Live(q)'
      BY <1>0, <2>1, <2>3 DEF Live
    <3>2. \A q \in Writers : ~Setting(q)'
      BY <2>1 DEF TurnsOK, Pipelines, Setting
    <3>3. Live(current)'
      BY <2>3, <3>1 DEF Live
    <3> QED
      BY <1>m, <2>3, <3>1, <3>2, <3>3 DEF TurnsOK
  <2> QED
    BY <1>5, <2>2, <2>3 DEF SetVideo
<1>6. CASE SetPicture
  <2>1. /\ \A p \in Pipelines : ~Live(p)
        /\ current' = None /\ UNCHANGED pipe
        /\ \A t \in Threads \ {Main} : pc'[t] = pc[t]
    BY <1>0, <1>6 DEF SetPicture, MaySetUri, Live, SetCall, vars
  <2>2. \A p \in Pipelines : ~Setting(p)' /\ ~Live(p)'
    BY <1>m, <2>1 DEF TurnsOK, Setting, Live
  <2> QED
    BY <2>1, <2>2 DEF TurnsOK
<1>7. ASSUME HasPipeline, NEW state \in {"playing", "pausing"},
             pipe' = [pipe EXCEPT ![current] = state], UNCHANGED <<pc, current>>
      PROVE  TurnsOK'
  <2>1. current \in Pipelines /\ Live(current) /\ ~Setting(Main)
    BY <1>0, <1>7 DEF HasPipeline, MainIdle, Setting, TurnsOK
  <2>2. pipe'[current] = state /\ \A q \in Pipelines \ {current} : pipe'[q] = pipe[q]
    BY <1>0, <1>7, <2>1
  <2>3. \A q \in Pipelines : Live(q)' <=> Live(q)
    BY <2>1, <2>2 DEF Live
  <2>4. Live(current)'
    BY <1>7, <2>2 DEF Live
  <2>5. \A w \in Writers : Setting(w)' <=> Setting(w)
    BY <1>7 DEF Setting
  <2> QED
    BY <1>7, <1>m, <2>1, <2>3, <2>4, <2>5 DEF TurnsOK
<1>8. CASE Play \/ Pause
  BY <1>7, <1>8 DEF Play, Pause, vars
<1>9. CASE Stop
  <2>1. /\ current \in Pipelines /\ ~Setting(Main) /\ ~Setting(current)
        /\ pipe' = [pipe EXCEPT ![current] = "stopped"] /\ current' = None /\ UNCHANGED pc
    BY <1>0, <1>9 DEF Stop, HasPipeline, MainIdle, Setting, vars
  <2>2. \A q \in Pipelines : ~Live(q)'
    BY <1>0, <2>1 DEF Live, TurnsOK
  <2>3. \A w \in Writers : ~Setting(w)'
    BY <1>m, <2>1 DEF Setting, TurnsOK, Pipelines
  <2> QED
    BY <1>m, <2>1, <2>2, <2>3 DEF TurnsOK
<1>10. CASE UNCHANGED inputVars
  BY <1>2, <1>10 DEF inputVars, sourceVars, vars, Setting
<1> QED
  BY <1>1, <1>3, <1>4, <1>5, <1>6, <1>8, <1>9, <1>10 DEF SourceNext, Error

\* No source is set before the first set_uri.
LEMMA InitTurnsOK == SourceInit => TurnsOK
  BY MainAssumption DEF SourceInit, Init, TurnsOK, Live, Setting, Pipelines

\* A program that stops a source before it sets another never has two set_frame
\* calls at a time: the streaming thread of the old pipeline has returned from its
\* callback when stop returns (input-source.c:588-727).
THEOREM TakeTurns == ASSUME Disciplined PROVE SourceSpec => []SourcesTakeTurns
<1>1. SourceTypeOK /\ TurnsOK /\ [SourceNext]_inputVars => TurnsOK'
  BY TurnsStep
<1> QED
  BY <1>1, InitTurnsOK, SourceTypeCorrect, TurnsTaken, PTL DEF SourceSpec

-----------------------------------------------------------------------------
\* Sources that take turns are as good as a single writer.
SourceBuffer == TypeOK /\ CopiesOK /\ TurnsOK

\* What a step of the sources is to the buffer: nothing, a step of a reader, or a
\* step of a writer that is alone.
LEMMA StepIsAlone ==
  ASSUME Disciplined, TurnsOK, [SourceNext]_inputVars
  PROVE  \/ UNCHANGED vars
         \/ \E w \in Writers : Alone(w) /\ Set(w)
         \/ \E r \in Readers : Get(r)
<1>1. ASSUME NEW p \in Pipelines, PipelineFrame(p) PROVE Alone(p) /\ Set(p) /\ p \in Writers
  BY <1>1, CallsAlone DEF PipelineFrame, Set, Pipelines
<1>2. ASSUME NEW w \in Writers, CopyStep(w) PROVE Alone(w) /\ Set(w)
  BY <1>2, CallsAlone DEF CopyStep, Set
<1>3. ASSUME NEW r \in Readers, Consumer(r) PROVE Get(r)
  BY <1>3 DEF Consumer
<1>4. ASSUME SetPicture PROVE UNCHANGED vars \/ (Alone(Main) /\ Set(Main) /\ Main \in Writers)
  BY <1>4, CallsAlone, MainAssumption DEF SetPicture, Set
<1>5. ASSUME SetVideo \/ Play \/ Pause \/ Stop \/ UNCHANGED inputVars PROVE UNCHANGED vars
  BY <1>5 DEF SetVideo, Play, Pause, Stop, inputVars
<1> QED
  BY <1>1, <1>2, <1>3, <1>4, <1>5 DEF SourceNext, Error

\* Every step of such sources keeps the copies of the buffer whole.
LEMMA NextSourceBuffer ==
  ASSUME Disciplined
  PROVE  SourceTypeOK /\ SourceBuffer /\ [SourceNext]_inputVars => SourceBuffer'
<1> SUFFICES ASSUME SourceTypeOK, SourceBuffer, [SourceNext]_inputVars PROVE SourceBuffer'
  OBVIOUS
<1>1. TypeOK' /\ TurnsOK'
  BY SourceTypeStep, TurnsStep DEF SourceTypeOK, SourceBuffer
<1>2. CASE UNCHANGED vars
  BY <1>1, <1>2 DEF SourceBuffer, vars, CopiesOK, PcsOK, ReadersLocked, Getting,
              WritersOffFront, Setting, SourcesOK, SlotsOK, ReaderFramesOK
<1> QED
  BY <1>1, <1>2, StepIsAlone, SetCopiesOK, GetCopiesOK DEF SourceBuffer

\* The copies of the buffer are what they seem under sources that take turns.
LEMMA SourceBufferCorrect == ASSUME Disciplined PROVE SourceSpec => []SourceBuffer
<1>1. SourceInit => SourceBuffer
  BY InitTypeOK, InitCopiesOK, InitTurnsOK DEF SourceInit, SourceBuffer
<1>2. SourceTypeOK /\ SourceBuffer /\ [SourceNext]_inputVars => SourceBuffer'
  BY NextSourceBuffer
<1> QED
  BY <1>1, <1>2, SourceTypeCorrect, PTL DEF SourceSpec

\* No consumer of a disciplined program is handed a frame put together from two,
\* however many pipelines have written it (input-source.c:525-586, io-input.c:82).
THEOREM SourcesNeverTear == ASSUME Disciplined PROVE SourceSpec => []NoTornFrame
<1>1. SourceBuffer => NoTornFrame
  BY DEF SourceBuffer, CopiesOK, ReaderFramesOK, NoTornFrame
<1> QED
  BY <1>1, SourceBufferCorrect, PTL

\* The json text of the picture before never passes for that of the frame after it
\* when the source changes (input-source.c:525-586, input-frame.c:219).
THEOREM SourcesTellOwnText == ASSUME Disciplined PROVE SourceSpec => []FlagIsOwnText
<1>1. SourceBuffer => FlagIsOwnText
  BY DEF SourceBuffer, CopiesOK, ReaderFramesOK, FlagIsOwnText, OwnText
<1> QED
  BY <1>1, SourceBufferCorrect, PTL

\* With images of a known type, as those of a video are, what is published is the
\* last frame set by any source.
LEMMA SourcePublishedCorrect ==
  ASSUME Disciplined, AlwaysCopyable
  PROVE  SourceSpec => []PublishedOK
<1>1. SourceInit => PublishedOK
  BY InitPublishedOK DEF SourceInit
<1>2. SourceBuffer /\ PublishedOK /\ [SourceNext]_inputVars => PublishedOK'
  <2> SUFFICES ASSUME SourceBuffer, PublishedOK, [SourceNext]_inputVars PROVE PublishedOK'
    OBVIOUS
  <2>1. CASE UNCHANGED vars
    BY <2>1 DEF vars, PublishedOK, Setting
  <2> QED
    BY <2>1, StepIsAlone, SetPublishedOK, GetPublishedOK DEF SourceBuffer
<1> QED
  BY <1>1, <1>2, SourceBufferCorrect, PTL DEF SourceSpec

\* Then the buffer of several sources is the same register as that of one: a change
\* of source never brings back an older frame (input-source.c:525-586,
\* io-input.c:78-115).
THEOREM SourcesAreRegister ==
  ASSUME Disciplined, AlwaysCopyable
  PROVE  SourceSpec => ImplementsLatestFrame
<1>1. SourceInit => Latest!Init
  BY InitIsLatest DEF SourceInit
<1>2. SourceBuffer /\ PublishedOK /\ [SourceNext]_inputVars => [Latest!Next]_Latest!vars
  BY SourceSteps, NextIsLatest DEF SourceBuffer
<1> QED
  BY <1>1, <1>2, SourceBufferCorrect, SourcePublishedCorrect, PTL
  DEF SourceSpec, ImplementsLatestFrame, Latest!Spec
=============================================================================
