-------------------------- MODULE MotionJpegProofs --------------------------
(***************************************************************************)
(* The motion jpeg server for any number of connections and frames: its    *)
(* array of clients loses nobody, no client is freed under its thread, and *)
(* the references of every frame are those somebody holds.                 *)
(***************************************************************************)
EXTENDS MotionJpeg, FiniteSetTheorems, TLAPS

-----------------------------------------------------------------------------
\* The array of clients.

\* A new client goes to the end.
LEMMA AppendFacts ==
  ASSUME NEW S, NEW s \in Seq(S), IsInjective(s), NEW c \in S, c \notin ToSet(s)
  PROVE  /\ Append(s, c) \in Seq(S)
         /\ IsInjective(Append(s, c))
         /\ ToSet(Append(s, c)) = ToSet(s) \cup {c}
<1> DEFINE t == Append(s, c)
<1>1. /\ t \in Seq(S) /\ Len(t) = Len(s) + 1 /\ Len(s) \in Nat
      /\ \A i \in 1 .. Len(s) : t[i] = s[i]
      /\ t[Len(s) + 1] = c
      /\ DOMAIN s = 1 .. Len(s) /\ DOMAIN t = 1 .. Len(s) + 1
  OBVIOUS
<1> HIDE DEF t
<1>2. \A i \in 1 .. Len(s) : s[i] # c
  BY <1>1 DEF ToSet
<1>3. \A i \in 1 .. Len(s) + 1 : i \in 1 .. Len(s) \/ i = Len(s) + 1
  BY <1>1
<1>4. IsInjective(t)
  BY <1>1, <1>2, <1>3 DEF IsInjective
<1>5. ToSet(t) = ToSet(s) \cup {c}
  <2>1. \A x \in ToSet(t) : x \in ToSet(s) \cup {c}
    BY <1>1, <1>3 DEF ToSet
  <2>2. \A x \in ToSet(s) : x \in ToSet(t)
    <3>1. \A i \in 1 .. Len(s) : i \in 1 .. Len(s) + 1
      BY <1>1
    <3> QED
      BY <1>1, <3>1 DEF ToSet
  <2>3. c \in ToSet(t)
    <3>1. Len(s) + 1 \in 1 .. Len(s) + 1
      BY <1>1
    <3> QED
      BY <1>1, <3>1 DEF ToSet
  <2> QED
    BY <2>1, <2>2, <2>3
<1> QED
  BY <1>1, <1>4, <1>5 DEF t

\* The last client fills the gap of the one removed, and nobody else is lost
\* (http-server.c:370-390).
LEMMA UnlinkFacts ==
  ASSUME NEW S, NEW s \in Seq(S), IsInjective(s), NEW c \in ToSet(s), NEW t,
         t = [i \in 1 .. Len(s) - 1 |-> IF s[i] = c THEN s[Len(s)] ELSE s[i]]
  PROVE  /\ t \in Seq(S)
         /\ IsInjective(t)
         /\ ToSet(t) = ToSet(s) \ {c}
<1> DEFINE n == Len(s)
<1>0. n \in Nat /\ DOMAIN s = 1 .. n /\ \A i \in 1 .. n : s[i] \in S
  OBVIOUS
<1>f. t = [i \in 1 .. n - 1 |-> IF s[i] = c THEN s[n] ELSE s[i]]
  OBVIOUS
<1> HIDE DEF n
<1>1. PICK k \in 1 .. n : s[k] = c
  BY <1>0 DEF ToSet
<1>2. n \in 1 .. n
  BY <1>0, <1>1
<1>3. \A i, j \in 1 .. n : s[i] = s[j] => i = j
  BY <1>0 DEF IsInjective
<1>4. \A i \in 1 .. n - 1 : i \in 1 .. n /\ i # n
  BY <1>0
<1>5. \A i \in 1 .. n : i \in 1 .. n - 1 \/ i = n
  BY <1>0
<1>6. DOMAIN t = 1 .. n - 1 /\ n - 1 \in Nat
  BY <1>f, <1>0, <1>2
<1>7. \A i \in 1 .. n - 1 : t[i] = IF i = k THEN s[n] ELSE s[i]
  <2> TAKE i \in 1 .. n - 1
  <2>1. t[i] = IF s[i] = c THEN s[n] ELSE s[i]
    BY <1>f
  <2>2. s[i] = c <=> i = k
    BY <1>1, <1>3, <1>4
  <2> QED
    BY <2>1, <2>2
<1>8. t \in Seq(S)
  <2>1. \A i \in 1 .. n - 1 : t[i] \in S
    BY <1>0, <1>2, <1>4, <1>7
  <2>2. t \in [1 .. n - 1 -> S]
    BY <1>f, <2>1
  <2> QED
    BY <1>6, <2>2
<1>9. IsInjective(t)
  <2> SUFFICES ASSUME NEW i \in 1 .. n - 1, NEW j \in 1 .. n - 1, t[i] = t[j] PROVE i = j
    BY <1>6 DEF IsInjective
  <2>1. i \in 1 .. n /\ j \in 1 .. n /\ i # n /\ j # n
    BY <1>4
  <2>a. t[i] = IF i = k THEN s[n] ELSE s[i]
    BY <1>7
  <2>b. t[j] = IF j = k THEN s[n] ELSE s[j]
    BY <1>7
  <2>2. CASE i # k /\ j # k
    BY <1>3, <2>1, <2>a, <2>b, <2>2
  <2>3. CASE i = k /\ j # k
    BY <1>2, <1>3, <2>1, <2>a, <2>b, <2>3
  <2>4. CASE i # k /\ j = k
    BY <1>2, <1>3, <2>1, <2>a, <2>b, <2>4
  <2> QED
    BY <2>2, <2>3, <2>4
<1>10. ToSet(t) = ToSet(s) \ {c}
  <2>1. ASSUME NEW i \in 1 .. n - 1 PROVE t[i] \in ToSet(s) /\ t[i] # c
    BY <1>0, <1>1, <1>2, <1>3, <1>4, <1>7 DEF ToSet
  <2>2. ASSUME NEW i \in 1 .. n, s[i] # c PROVE s[i] \in ToSet(t)
    <3>1. CASE i # n
      <4>1. i \in 1 .. n - 1 /\ t[i] = s[i]
        BY <1>1, <1>5, <1>7, <2>2, <3>1
      <4> QED
        BY <1>6, <4>1 DEF ToSet
    <3>2. CASE i = n
      <4>1. k \in 1 .. n - 1 /\ t[k] = s[n]
        BY <1>1, <1>5, <1>7, <2>2, <3>2
      <4> QED
        BY <1>6, <3>2, <4>1 DEF ToSet
    <3> QED
      BY <3>1, <3>2
  <2> QED
    <3>1. \A x \in ToSet(t) : x \in ToSet(s) \ {c}
      BY <1>6, <2>1 DEF ToSet
    <3>2. \A x \in ToSet(s) \ {c} : x \in ToSet(t)
      BY <1>0, <2>2 DEF ToSet
    <3> QED
      BY <3>1, <3>2
<1> QED
  BY <1>8, <1>9, <1>10

-----------------------------------------------------------------------------
\* The server and its clients.
Removing == at \in {"destroy", "join", "free"}
Connected == {c \in Conns : stage[c] \in {"open", "stream"}}

ScalarsOK ==
  /\ shown \in 0 .. MaxFrames /\ made \in 0 .. MaxFrames /\ holds \in 0 .. MaxFrames
  /\ at \in {"wait", "written", "disarm", "destroy", "join", "free", "collect", "stopped", "aborted"}
  /\ cur \in Conns \cup {None}
  /\ gc \in [next : Nat, count : Nat]

ClientsOK ==
  /\ stage \in [Conns -> {"none", "open", "stream", "freed"}]
  /\ epoll \in [Conns -> {"off", "armed", "ready"}]
  /\ full \in [Conns -> BOOLEAN]
  /\ tpc \in [Conns -> {"none", "idle", "get", "push", "arm", "done"}]
  /\ quit \in [Conns -> BOOLEAN]
  /\ last \in [Conns -> 0 .. MaxFrames] /\ got \in [Conns -> 0 .. MaxFrames]

ArrayOK ==
  /\ clients \in Seq(Conns)
  /\ IsInjective(clients)
  /\ ToSet(clients) = Connected \ (IF Removing THEN {cur} ELSE {})

\* The client that is removed is one whose thread is gone before it is freed, and a
\* garbage collection starts at the first client.
RemovalOK ==
  /\ Removing => cur \in Connected
  /\ at = "free" => tpc[cur] \in {"none", "done"}
  /\ gc # NoGC => gc.next >= 1
  /\ at = "collect" => gc # NoGC
  /\ ClientOutlivesThread

ServerOK == ScalarsOK /\ ClientsOK /\ ArrayOK /\ RemovalOK

\* A server without clients.
LEMMA InitServerOK == Init => ServerOK
<1> SUFFICES ASSUME Init PROVE ServerOK
  OBVIOUS
<1>1. ScalarsOK /\ ClientsOK
  BY MaxFramesAssumption DEF Init, ScalarsOK, ClientsOK, NoGC
<1>2. ArrayOK
  BY DEF Init, ArrayOK, IsInjective, ToSet, Connected, Removing
<1>3. RemovalOK
  BY DEF Init, RemovalOK, Removing, ClientOutlivesThread
<1> QED
  BY <1>1, <1>2, <1>3 DEF ServerOK

\* Counters, flags and the frame on show keep their types.
LEMMA ScalarsStep ==
  ASSUME ServerOK, [Next]_vars
  PROVE  ScalarsOK'
<1>0. ScalarsOK /\ ClientsOK /\ ArrayOK /\ RemovalOK
  BY DEF ServerOK
<1> USE <1>0 DEF ScalarsOK, channelVars, serverVars, clientVars, threadVars
<1>1. CASE Update
  BY <1>1, MaxFramesAssumption DEF Update
<1>2. CASE Drop
  BY <1>2, MaxFramesAssumption DEF Drop
<1>3. ASSUME NEW c \in Conns, Thread(c) PROVE ScalarsOK'
  BY <1>3 DEF Thread, Enter, Get, Skip, Push, Arm
<1>4. ASSUME NEW c \in Conns, Accept(c) \/ Read(c) \/ Write(c) PROVE ScalarsOK'
  BY <1>4 DEF Accept, Read, Write, RemoveClient
<1>5. CASE AcceptFails \/ LookAgain \/ Disarm
  BY <1>5 DEF AcceptFails, LookAgain, Disarm
<1>6. CASE Removal
  BY <1>6 DEF Removal, Destroy, Join, Free
<1>7. CASE Collect
  BY <1>7 DEF Collect, ArrayOK
<1>8. CASE CollectNext
  <2>1. \A i \in 1 .. Len(clients) : clients[i] \in Conns
    BY DEF ArrayOK
  <2>2. ASSUME gc.next <= Len(clients), gc.next >= 1 PROVE clients[gc.next] \in Conns
    BY <2>1, <2>2 DEF ArrayOK
  <2> QED
    BY <1>8, <2>2 DEF CollectNext, RemoveClient, NoGC, RemovalOK
<1>9. CASE Environment
  BY <1>9 DEF Environment, Writable
<1>10. CASE UNCHANGED vars
  BY <1>10 DEF vars
<1> QED
  BY <1>1, <1>2, <1>3, <1>4, <1>5, <1>6, <1>7, <1>8, <1>9, <1>10 DEF Next, Server

\* So does what each client and its thread have in hand.
LEMMA ClientsStep ==
  ASSUME ServerOK, [Next]_vars
  PROVE  ClientsOK'
<1>0. ScalarsOK /\ ClientsOK
  BY DEF ServerOK
<1>s. shown \in 0 .. MaxFrames
  BY <1>0 DEF ScalarsOK
<1>z. 0 \in 0 .. MaxFrames
  BY MaxFramesAssumption
<1> USE <1>0 DEF ClientsOK, channelVars, serverVars, clientVars, threadVars
<1>1. CASE Update \/ Drop
  BY <1>1 DEF Update, Drop
<1>2. ASSUME NEW c \in Conns, Thread(c) PROVE ClientsOK'
  <2>1. CASE Enter(c)
    BY <2>1 DEF Enter
  <2>2. CASE Get(c)
    BY <1>s, <2>2 DEF Get, GetFrame
  <2>3. CASE Skip(c)
    BY <1>z, <2>3 DEF Skip, Unref
  <2>4. CASE Push(c)
    BY <1>z, <2>4 DEF Push, Unref
  <2>5. CASE Arm(c)
    BY <2>5 DEF Arm
  <2> QED
    BY <1>2, <2>1, <2>2, <2>3, <2>4, <2>5 DEF Thread
<1>3. ASSUME NEW c \in Conns, Accept(c) PROVE ClientsOK'
  BY <1>3 DEF Accept
<1>4. ASSUME NEW c \in Conns, Read(c) PROVE ClientsOK'
  BY <1>4 DEF Read
<1>5. ASSUME NEW c \in Conns, Write(c) PROVE ClientsOK'
  BY <1>5 DEF Write
<1>6. CASE AcceptFails \/ LookAgain \/ Disarm
  BY <1>6 DEF AcceptFails, LookAgain, Disarm
<1>7. CASE Removal
  BY <1>7 DEF Removal, Destroy, Join, Free, Quit
<1>8. CASE Collect \/ CollectNext
  BY <1>8 DEF Collect, CollectNext
<1>9. CASE Environment
  BY <1>9 DEF Environment, Writable
<1>10. CASE UNCHANGED vars
  BY <1>10 DEF vars
<1> QED
  BY <1>1, <1>2, <1>3, <1>4, <1>5, <1>6, <1>7, <1>8, <1>9, <1>10 DEF Next, Server

\* What is not a removal, an accept or a free leaves the array alone.
LEMMA ArraySame ==
  ASSUME ArrayOK, clients' = clients, Connected' = Connected, Removing' <=> Removing,
         Removing => cur' = cur
  PROVE  ArrayOK'
  BY DEF ArrayOK

\* http_server_remove_client takes exactly the client that is destroyed next out of it.
LEMMA ArrayRemoves ==
  ASSUME ArrayOK, ~Removing, NEW c, Registered(c), RemoveClient(c), stage' = stage
  PROVE  ArrayOK' /\ c \in Connected /\ cur' = c
<1>1. /\ clients \in Seq(Conns) /\ IsInjective(clients) /\ ToSet(clients) = Connected
      /\ c \in ToSet(clients)
  BY DEF ArrayOK, Registered
<1>2. clients' = [i \in 1 .. Len(clients) - 1 |->
                    IF clients[i] = c THEN clients[Len(clients)] ELSE clients[i]]
      /\ cur' = c /\ at' = "destroy"
  BY DEF RemoveClient, Unlink
<1>3. /\ clients' \in Seq(Conns) /\ IsInjective(clients')
      /\ ToSet(clients') = ToSet(clients) \ {c}
  BY <1>1, <1>2, UnlinkFacts
<1>4. Removing' /\ Connected' = Connected
  BY <1>2 DEF Removing, Connected
<1> QED
  BY <1>1, <1>2, <1>3, <1>4 DEF ArrayOK

\* The array lists the connected clients, each once, whatever happens to it.
LEMMA ArrayStep ==
  ASSUME ServerOK, [Next]_vars
  PROVE  ArrayOK'
<1>0. ScalarsOK /\ ClientsOK /\ ArrayOK /\ RemovalOK
  BY DEF ServerOK
<1> USE DEF channelVars, serverVars, clientVars, threadVars
<1>1. CASE Update \/ Drop \/ UNCHANGED vars
  BY <1>0, <1>1, ArraySame DEF Update, Drop, vars, Connected, Removing
<1>2. ASSUME NEW c \in Conns, Thread(c) PROVE ArrayOK'
  BY <1>0, <1>2, ArraySame DEF Thread, Enter, Get, Skip, Push, Arm, Connected, Removing
<1>3. ASSUME NEW c \in Conns, Accept(c) PROVE ArrayOK'
  <2>1. /\ ~Removing /\ ~Removing' /\ c \notin Connected
        /\ clients' = Append(clients, c)
    BY <1>3 DEF Accept, Removing, Connected
  <2>2. Connected' = Connected \cup {c}
    <3>1. stage'[c] = "open" /\ \A d \in Conns \ {c} : stage'[d] = stage[d]
      BY <1>0, <1>3 DEF Accept, ClientsOK
    <3> QED
      BY <3>1 DEF Connected
  <2>3. /\ clients' \in Seq(Conns) /\ IsInjective(clients')
        /\ ToSet(clients') = ToSet(clients) \cup {c}
    BY <1>0, <2>1, AppendFacts DEF ArrayOK
  <2> QED
    BY <1>0, <2>1, <2>2, <2>3 DEF ArrayOK
<1>4. ASSUME NEW c \in Conns, Read(c) PROVE ArrayOK'
  <2>1. ~Removing /\ at = "wait" /\ Registered(c)
    BY <1>4 DEF Read, Removing
  <2>2. CASE UNCHANGED <<at, cur, clients, stage>>
    BY <1>0, <2>2, ArraySame DEF Connected, Removing
  <2>3. CASE RemoveClient(c) /\ UNCHANGED stage
    BY <1>0, <2>1, <2>3, ArrayRemoves
  <2>4. CASE stage[c] = "open" /\ stage' = [stage EXCEPT ![c] = "stream"] /\ UNCHANGED <<at, cur, clients>>
    <3>1. stage'[c] = "stream" /\ \A d \in Conns \ {c} : stage'[d] = stage[d]
      BY <1>0, <2>4 DEF ClientsOK
    <3>2. Connected' = Connected
      BY <2>4, <3>1 DEF Connected
    <3> QED
      BY <1>0, <2>4, <3>2, ArraySame DEF Removing
  <2> QED
    BY <1>4, <2>2, <2>3, <2>4 DEF Read
<1>5. ASSUME NEW c \in Conns, Write(c) PROVE ArrayOK'
  <2>1. ~Removing /\ Registered(c) /\ stage' = stage
    BY <1>5 DEF Write, Removing
  <2>2. CASE RemoveClient(c)
    BY <1>0, <2>1, <2>2, ArrayRemoves
  <2>3. CASE ~RemoveClient(c)
    <3>1. clients' = clients /\ ~Removing'
      BY <1>5, <2>3 DEF Write, Removing
    <3> QED
      BY <1>0, <2>1, <3>1, ArraySame DEF Connected
  <2> QED
    BY <2>2, <2>3
<1>6. CASE AcceptFails \/ LookAgain \/ Disarm \/ Collect
  <2>1. ~Removing /\ ~Removing' /\ clients' = clients /\ stage' = stage
    BY <1>6 DEF AcceptFails, LookAgain, Disarm, Collect, Removing
  <2> QED
    BY <1>0, <2>1, ArraySame DEF Connected
<1>7. CASE Destroy \/ Join
  <2>1. Removing /\ Removing' /\ cur' = cur /\ clients' = clients /\ stage' = stage
    BY <1>7 DEF Destroy, Join, Removing
  <2> QED
    BY <1>0, <2>1, ArraySame DEF Connected
<1>8. CASE Free
  <2>1. Removing /\ ~Removing' /\ clients' = clients
    BY <1>8 DEF Free, Removing
  <2>2. cur \in Conns /\ stage'[cur] = "freed" /\ \A d \in Conns \ {cur} : stage'[d] = stage[d]
    BY <1>0, <1>8, <2>1 DEF Free, ClientsOK, RemovalOK, Connected
  <2>3. Connected' = Connected \ {cur}
    BY <2>2 DEF Connected
  <2> QED
    BY <1>0, <2>1, <2>3 DEF ArrayOK
<1>9. CASE CollectNext
  <2>1. ~Removing /\ stage' = stage
    BY <1>9 DEF CollectNext, Removing
  <2>2. CASE gc.next <= Len(clients) /\ RemoveClient(clients[gc.next])
    <3>1. gc.next \in 1 .. Len(clients)
      BY <1>0, <1>9, <2>2 DEF CollectNext, RemovalOK, ScalarsOK, ArrayOK
    <3>2. Registered(clients[gc.next])
      BY <1>0, <3>1 DEF Registered, ToSet, ArrayOK
    <3> QED
      BY <1>0, <2>1, <2>2, <3>2, ArrayRemoves
  <2>3. CASE clients' = clients /\ at' \in {"wait", "aborted"}
    <3>1. ~Removing'
      BY <2>3 DEF Removing
    <3> QED
      BY <1>0, <2>1, <2>3, <3>1, ArraySame DEF Connected
  <2> QED
    BY <1>9, <2>2, <2>3 DEF CollectNext
<1>10. CASE Environment
  BY <1>0, <1>10, ArraySame DEF Environment, Writable, Connected, Removing
<1> QED
  BY <1>1, <1>2, <1>3, <1>4, <1>5, <1>6, <1>7, <1>8, <1>9, <1>10 DEF Next, Server, Removal

\* No step of a thread is one of a client that is freed or about to be, and the
\* server frees a client only when it has seen its thread end.
LEMMA RemovalStep ==
  ASSUME ServerOK, [Next]_vars
  PROVE  RemovalOK'
<1>0. ScalarsOK /\ ClientsOK /\ ArrayOK /\ RemovalOK
  BY DEF ServerOK
<1>f. /\ stage \in [Conns -> {"none", "open", "stream", "freed"}]
      /\ tpc \in [Conns -> {"none", "idle", "get", "push", "arm", "done"}]
  BY <1>0 DEF ClientsOK
<1> USE DEF channelVars, serverVars, clientVars, threadVars
<1>1. CASE UNCHANGED <<at, cur, gc, stage, tpc>>
  BY <1>0, <1>1 DEF RemovalOK, Removing, Connected, ClientOutlivesThread
<1>2. ASSUME NEW c \in Conns, Thread(c) PROVE RemovalOK'
  <2>1. /\ UNCHANGED <<at, cur, gc, stage>>
        /\ \A d \in Conns \ {c} : tpc'[d] = tpc[d]
        /\ tpc[c] \notin {"none", "done"}
    BY <1>f, <1>2 DEF Thread, Enter, Get, Skip, Push, Arm
  <2>2. at' = "free" => tpc'[cur'] \in {"none", "done"}
    BY <1>0, <2>1 DEF RemovalOK, Removing, Connected
  <2>3. ClientOutlivesThread'
    BY <1>0, <2>1 DEF RemovalOK, ClientOutlivesThread
  <2> QED
    BY <1>0, <2>1, <2>2, <2>3 DEF RemovalOK, Removing, Connected
<1>3. ASSUME UNCHANGED <<gc, stage, tpc>>, at \notin {"destroy", "join", "free"},
             at' \in {"wait", "written", "disarm", "stopped", "aborted"}
      PROVE  RemovalOK'
  BY <1>0, <1>3 DEF RemovalOK, Removing, Connected, ClientOutlivesThread
<1>4. ASSUME NEW c \in Connected, cur' = c, at' = "destroy", UNCHANGED <<stage, tpc>>,
             gc' # NoGC => gc'.next >= 1
      PROVE  RemovalOK'
  BY <1>0, <1>4 DEF RemovalOK, Removing, Connected, ClientOutlivesThread
<1>5. ASSUME NEW c \in Conns, Accept(c) PROVE RemovalOK'
  <2>1. /\ UNCHANGED <<at, cur, gc, tpc>> /\ ~Removing /\ ~Removing' /\ at = "wait"
        /\ stage'[c] = "open" /\ \A d \in Conns \ {c} : stage'[d] = stage[d]
    BY <1>f, <1>5 DEF Accept, Removing
  <2>2. ClientOutlivesThread'
    BY <1>0, <2>1 DEF RemovalOK, ClientOutlivesThread
  <2> QED
    BY <1>0, <2>1, <2>2 DEF RemovalOK
<1>6. ASSUME NEW c \in Conns, Read(c) PROVE RemovalOK'
  <2>1. ~Removing /\ at = "wait" /\ Registered(c) /\ gc' = gc
    BY <1>6 DEF Read, Removing
  <2>2. CASE UNCHANGED <<at, cur, stage, tpc>>
    BY <1>1, <2>1, <2>2
  <2>3. CASE RemoveClient(c) /\ UNCHANGED <<stage, tpc>>
    <3>1. c \in Connected /\ cur' = c /\ at' = "destroy"
      BY <1>0, <2>1, <2>3, ArrayRemoves DEF RemoveClient
    <3> QED
      BY <1>0, <1>4, <2>1, <2>3, <3>1 DEF RemovalOK
  <2>4. CASE /\ stage' = [stage EXCEPT ![c] = "stream"] /\ tpc' = [tpc EXCEPT ![c] = "idle"]
             /\ UNCHANGED <<at, cur>>
    <3>1. /\ stage'[c] = "stream"
          /\ \A d \in Conns \ {c} : stage'[d] = stage[d] /\ tpc'[d] = tpc[d]
      BY <1>f, <2>4
    <3>2. ClientOutlivesThread'
      BY <1>0, <3>1 DEF RemovalOK, ClientOutlivesThread
    <3>3. ~Removing' /\ at' = "wait"
      BY <2>1, <2>4 DEF Removing
    <3> QED
      BY <1>0, <2>1, <3>2, <3>3 DEF RemovalOK
  <2> QED
    BY <1>6, <2>2, <2>3, <2>4 DEF Read
<1>7. ASSUME NEW c \in Conns, Write(c) PROVE RemovalOK'
  <2>1. ~Removing /\ at = "wait" /\ Registered(c) /\ UNCHANGED <<gc, stage, tpc>>
    BY <1>7 DEF Write, Removing
  <2>2. CASE RemoveClient(c)
    <3>1. c \in Connected /\ cur' = c /\ at' = "destroy"
      BY <1>0, <2>1, <2>2, ArrayRemoves DEF RemoveClient
    <3> QED
      BY <1>0, <1>4, <2>1, <2>2, <3>1 DEF RemovalOK
  <2>3. CASE ~RemoveClient(c)
    <3>1. at' \in {"wait", "written"}
      BY <1>7, <2>3 DEF Write
    <3> QED
      BY <1>3, <2>1, <3>1
  <2> QED
    BY <2>2, <2>3
<1>8. CASE AcceptFails \/ LookAgain \/ Disarm
  <2>1. /\ UNCHANGED <<gc, stage, tpc>> /\ at \notin {"destroy", "join", "free"}
        /\ at' \in {"wait", "disarm", "stopped"}
    BY <1>8 DEF AcceptFails, LookAgain, Disarm
  <2> QED
    BY <1>3, <2>1
<1>9. CASE Destroy
  <2>1. /\ UNCHANGED <<cur, gc, stage, tpc>> /\ at = "destroy"
        /\ at' = "join" \/ (at' = "free" /\ tpc[cur] = "none")
    BY <1>9 DEF Destroy
  <2> QED
    BY <1>0, <2>1 DEF RemovalOK, Removing, Connected, ClientOutlivesThread
<1>10. CASE Join
  <2>1. /\ UNCHANGED <<cur, gc, stage, tpc>> /\ at = "join" /\ at' = "free" /\ tpc[cur] = "done"
    BY <1>10 DEF Join, Joined
  <2> QED
    BY <1>0, <2>1 DEF RemovalOK, Removing, Connected, ClientOutlivesThread
<1>11. CASE Free
  <2>1. /\ at = "free" /\ UNCHANGED <<gc, tpc>>
        /\ at' = (IF gc = NoGC THEN "wait" ELSE "collect") /\ tpc[cur] \in {"none", "done"}
        /\ \A d \in Conns \ {cur} : stage'[d] = stage[d]
    BY <1>0, <1>f, <1>11 DEF Free, RemovalOK
  <2>2. ClientOutlivesThread'
    BY <1>0, <2>1 DEF RemovalOK, ClientOutlivesThread
  <2>3. ~Removing' /\ (at' = "collect" => gc' # NoGC)
    BY <2>1 DEF Removing
  <2>4. at' # "free"
    BY <2>1
  <2> QED
    BY <1>0, <2>1, <2>2, <2>3, <2>4 DEF RemovalOK
<1>12. CASE Collect
  <2>1. gc'.next = 1 /\ gc' # NoGC /\ at' = "collect" /\ UNCHANGED <<stage, tpc>>
    BY <1>12 DEF Collect, NoGC
  <2> QED
    BY <1>0, <2>1 DEF RemovalOK, Removing, ClientOutlivesThread
<1>13. CASE CollectNext
  <2>1. ~Removing /\ UNCHANGED <<stage, tpc>>
    BY <1>13 DEF CollectNext, Removing
  <2>2. CASE /\ gc.next <= Len(clients) /\ RemoveClient(clients[gc.next])
             /\ gc' = [gc EXCEPT !.next = @ + 1]
    <3>0. gc.next >= 1 /\ gc \in [next : Nat, count : Nat]
      BY <1>0, <1>13 DEF CollectNext, RemovalOK, ScalarsOK
    <3>1. gc.next \in 1 .. Len(clients)
      BY <1>0, <2>2, <3>0 DEF ArrayOK
    <3>2. Registered(clients[gc.next])
      BY <1>0, <3>1 DEF Registered, ToSet, ArrayOK
    <3>3. clients[gc.next] \in Connected /\ cur' = clients[gc.next] /\ at' = "destroy"
      BY <1>0, <2>1, <2>2, <3>2, ArrayRemoves DEF RemoveClient
    <3>4. gc'.next >= 1
      BY <2>2, <3>0
    <3> QED
      BY <1>4, <2>1, <3>3, <3>4
  <2>3. CASE at' \in {"wait", "aborted"} /\ (gc' = NoGC \/ gc' = gc)
    <3>1. ~Removing' /\ at' # "free" /\ at' # "collect"
      BY <2>3 DEF Removing
    <3> QED
      BY <1>0, <2>1, <2>3, <3>1 DEF RemovalOK, ClientOutlivesThread
  <2> QED
    BY <1>13, <2>2, <2>3 DEF CollectNext
<1>14. CASE Update \/ Drop \/ Environment \/ UNCHANGED vars
  <2>1. UNCHANGED <<at, cur, gc, stage, tpc>>
    BY <1>14 DEF Update, Drop, Environment, Writable, vars
  <2> QED
    BY <1>1, <2>1
<1> QED
  BY <1>2, <1>5, <1>6, <1>7, <1>8, <1>9, <1>10, <1>11, <1>12, <1>13, <1>14
  DEF Next, Server, Removal

\* Every step keeps the invariant of the server.
LEMMA NextServerOK == ServerOK /\ [Next]_vars => ServerOK'
  BY ScalarsStep, ClientsStep, ArrayStep, RemovalStep DEF ServerOK

\* The inductive invariant of the server.
LEMMA ServerCorrect == Spec => []ServerOK
  BY InitServerOK, NextServerOK, PTL DEF Spec

\* A client is freed only after its thread has ended, for any number of clients
\* that come, go and are collected (motion-jpeg-client.c:36-54, 70-127).
THEOREM ThreadsEndFirst == Spec => []ClientOutlivesThread
<1>1. ServerOK => ClientOutlivesThread
  BY DEF ServerOK, RemovalOK
<1> QED
  BY <1>1, ServerCorrect, PTL

-----------------------------------------------------------------------------
\* The references of a frame: the channel has one of the frame on show, the main
\* thread one of the frame it has just made, and every client thread one of the
\* frame it is about to copy.
Bit(b) == IF b THEN 1 ELSE 0
Holders(f) == {c \in Conns : got[c] = f}
Total(f) == Bit(shown = f) + Bit(holds = f) + Cardinality(Holders(f))

FramesOK ==
  /\ shown <= made /\ holds <= made
  /\ \A c \in Conns : got[c] <= made /\ (got[c] # 0 => tpc[c] = "push")

\* A client has a thread once it streams.
StartedOK == \A c \in Conns : tpc[c] # "none" => stage[c] \in {"stream", "freed"}

CountOK ==
  /\ refs \in [Frames -> Int]
  /\ \A f \in Frames : refs[f] = Total(f)

\* There are finitely many holders, and as long as no thread takes or gives back a
\* frame they stay the same.
LEMMA HoldersTypes ==
  \A f : /\ IsFiniteSet(Holders(f)) /\ Cardinality(Holders(f)) \in Nat
         /\ Cardinality(Holders(f)) <= Cardinality(Conns)
         /\ Cardinality(Conns) \in Nat
<1> TAKE f
<1>1. Holders(f) \in SUBSET Conns
  BY DEF Holders
<1> QED
  BY <1>1, ConnsAssumption, FS_Subset, FS_CardinalityType

\* A step that takes nothing and gives nothing back changes no holder.
LEMMA HoldersSame ==
  ASSUME got' = got
  PROVE  \A f : Holders(f)' = Holders(f)
  BY DEF Holders

\* A thread that takes a frame, or gives one back, is one holder more or less.
LEMMA HoldersChange ==
  ASSUME NEW c \in Conns, NEW f, \A d \in Conns \ {c} : got'[d] = got[d]
  PROVE  /\ Cardinality(Holders(f))' \in Nat
         /\ Cardinality(Holders(f))' = Cardinality(Holders(f)) - Bit(got[c] = f) + Bit(got'[c] = f)
<1> DEFINE A == Holders(f)
           B == Holders(f)'
<1>1. /\ A \in SUBSET Conns /\ B \in SUBSET Conns /\ A \ {c} = B \ {c}
      /\ (c \in A <=> got[c] = f) /\ (c \in B <=> got'[c] = f)
  BY DEF Holders
<1> HIDE DEF A, B
<1>2. IsFiniteSet(A) /\ IsFiniteSet(B)
  BY <1>1, ConnsAssumption, FS_Subset
<1>3. Cardinality(A) \in Nat /\ Cardinality(B) \in Nat
  BY <1>2, FS_CardinalityType
<1>4. Cardinality(A \ {c}) = IF c \in A THEN Cardinality(A) - 1 ELSE Cardinality(A)
  BY <1>2, FS_RemoveElement
<1>5. Cardinality(B \ {c}) = IF c \in B THEN Cardinality(B) - 1 ELSE Cardinality(B)
  BY <1>2, FS_RemoveElement
<1>6. Cardinality(B) = Cardinality(A) - Bit(c \in A) + Bit(c \in B)
  BY <1>1, <1>3, <1>4, <1>5 DEF Bit
<1>7. Bit(c \in A) = Bit(got[c] = f) /\ Bit(c \in B) = Bit(got'[c] = f)
  BY <1>1 DEF Bit
<1> QED
  BY <1>3, <1>6, <1>7 DEF A, B

\* A frame that was never built is held by nobody.
LEMMA FreshUnheld ==
  ASSUME ClientsOK, FramesOK, made \in Nat
  PROVE  Cardinality(Holders(made + 1)) = 0
<1>1. \A c \in Conns : got[c] \in Nat /\ got[c] <= made
  BY MaxFramesAssumption DEF ClientsOK, FramesOK
<1>2. \A c \in Conns : got[c] # made + 1
  BY <1>1
<1>3. Holders(made + 1) = {}
  BY <1>2 DEF Holders
<1> QED
  BY <1>3, FS_EmptySet

\* A thread runs only for a client that was started.
LEMMA StartedStep ==
  ASSUME ServerOK, StartedOK, [Next]_vars
  PROVE  StartedOK'
<1>0. /\ stage \in [Conns -> {"none", "open", "stream", "freed"}]
      /\ tpc \in [Conns -> {"none", "idle", "get", "push", "arm", "done"}]
  BY DEF ServerOK, ClientsOK
<1> USE DEF channelVars, serverVars, clientVars, threadVars
<1>1. CASE UNCHANGED <<stage, tpc>>
  BY <1>1 DEF StartedOK
<1>2. ASSUME NEW c \in Conns, Thread(c) PROVE StartedOK'
  <2>1. /\ UNCHANGED stage /\ tpc[c] # "none"
        /\ \A d \in Conns \ {c} : tpc'[d] = tpc[d]
    BY <1>0, <1>2 DEF Thread, Enter, Get, Skip, Push, Arm
  <2> QED
    BY <2>1 DEF StartedOK
<1>3. ASSUME NEW c \in Conns, Accept(c) PROVE StartedOK'
  <2>1. /\ UNCHANGED tpc /\ stage[c] = "none"
        /\ \A d \in Conns \ {c} : stage'[d] = stage[d]
    BY <1>0, <1>3 DEF Accept
  <2> QED
    BY <2>1 DEF StartedOK
<1>4. ASSUME NEW c \in Conns, Read(c) PROVE StartedOK'
  <2>1. CASE stage' = [stage EXCEPT ![c] = "stream"] /\ tpc' = [tpc EXCEPT ![c] = "idle"]
    <3>1. /\ stage'[c] = "stream"
          /\ \A d \in Conns \ {c} : stage'[d] = stage[d] /\ tpc'[d] = tpc[d]
      BY <1>0, <2>1
    <3> QED
      BY <3>1 DEF StartedOK
  <2> QED
    BY <1>1, <1>4, <2>1 DEF Read
<1>5. CASE Free
  <2>1. /\ UNCHANGED tpc /\ stage' = [stage EXCEPT ![cur] = "freed"]
    BY <1>5 DEF Free
  <2>2. \A d \in Conns : stage'[d] = stage[d] \/ stage'[d] = "freed"
    BY <1>0, <2>1
  <2> QED
    BY <2>1, <2>2 DEF StartedOK
<1>6. ASSUME NEW c \in Conns, Write(c) PROVE StartedOK'
  BY <1>1, <1>6 DEF Write
<1>7. CASE Update \/ Drop \/ AcceptFails \/ LookAgain \/ Disarm \/ Destroy \/ Join \/ Collect
             \/ CollectNext \/ Environment \/ UNCHANGED vars
  BY <1>1, <1>7 DEF Update, Drop, AcceptFails, LookAgain, Disarm, Destroy, Join, Collect,
                    CollectNext, Environment, Writable, vars
<1> QED
  BY <1>2, <1>3, <1>4, <1>5, <1>6, <1>7 DEF Next, Server, Removal

\* What is shown and held are frames that were built.
LEMMA FramesStep ==
  ASSUME ServerOK, StartedOK, FramesOK, [Next]_vars
  PROVE  FramesOK'
<1>0. /\ made \in Nat /\ shown \in Nat /\ holds \in Nat
      /\ \A c \in Conns : got[c] \in Nat
      /\ tpc \in [Conns -> {"none", "idle", "get", "push", "arm", "done"}]
      /\ got \in [Conns -> 0 .. MaxFrames]
  BY MaxFramesAssumption DEF ServerOK, ScalarsOK, ClientsOK
<1> USE DEF channelVars, serverVars, clientVars, threadVars
<1>1. CASE UNCHANGED <<shown, made, holds, tpc, got>>
  BY <1>1 DEF FramesOK
<1>2. CASE Update
  <2>1. made' = made + 1 /\ shown' = made + 1 /\ holds' = made + 1 /\ UNCHANGED <<tpc, got>>
    BY <1>2 DEF Update
  <2>2. \A c \in Conns : got[c] <= made + 1
    BY <1>0 DEF FramesOK
  <2> QED
    BY <1>0, <2>1, <2>2 DEF FramesOK
<1>3. CASE Drop
  BY <1>0, <1>3 DEF Drop, FramesOK
<1>4. ASSUME NEW c \in Conns, Thread(c) PROVE FramesOK'
  <2>1. /\ UNCHANGED <<shown, made, holds>>
        /\ \A d \in Conns \ {c} : tpc'[d] = tpc[d] /\ got'[d] = got[d]
    BY <1>0, <1>4 DEF Thread, Enter, Get, GetFrame, Skip, Push, Unref, Arm
  <2>2. got'[c] <= made /\ (got'[c] # 0 => tpc'[c] = "push")
    <3>1. CASE Enter(c) \/ Arm(c)
      BY <1>0, <3>1 DEF Enter, Arm, FramesOK
    <3>2. CASE Get(c)
      BY <1>0, <3>2 DEF Get, GetFrame, FramesOK
    <3>3. CASE Skip(c) \/ Push(c)
      BY <1>0, <3>3 DEF Skip, Push, Unref
    <3> QED
      BY <1>4, <3>1, <3>2, <3>3 DEF Thread
  <2> QED
    BY <2>1, <2>2 DEF FramesOK
<1>5. ASSUME NEW c \in Conns, Read(c) PROVE FramesOK'
  <2>1. /\ UNCHANGED <<shown, made, holds, got>>
        /\ tpc' = tpc \/ (stage[c] = "open" /\ tpc' = [tpc EXCEPT ![c] = "idle"])
    BY <1>5 DEF Read
  <2>2. CASE tpc' = tpc
    BY <1>1, <2>1, <2>2
  <2>3. CASE stage[c] = "open" /\ tpc' = [tpc EXCEPT ![c] = "idle"]
    <3>1. tpc[c] = "none"
      BY <2>3 DEF StartedOK
    <3> QED
      BY <1>0, <2>1, <2>3, <3>1 DEF FramesOK
  <2> QED
    BY <2>1, <2>2, <2>3
<1>6. ASSUME NEW c \in Conns, Accept(c) \/ Write(c) PROVE FramesOK'
  BY <1>1, <1>6 DEF Accept, Write
<1>7. CASE AcceptFails \/ LookAgain \/ Disarm \/ Removal \/ Collect \/ CollectNext \/ Environment
  BY <1>1, <1>7 DEF AcceptFails, LookAgain, Disarm, Removal, Destroy, Join, Free, Collect,
                    CollectNext, Environment, Writable
<1>8. CASE UNCHANGED vars
  BY <1>1, <1>8 DEF vars
<1> QED
  BY <1>2, <1>3, <1>4, <1>5, <1>6, <1>7, <1>8 DEF Next, Server

\* Each step changes a count together with the holders it counts.
LEMMA CountStep ==
  ASSUME ServerOK, FramesOK, CountOK, [Next]_vars
  PROVE  CountOK'
<1>0. /\ made \in Nat /\ shown \in Nat /\ holds \in Nat /\ ClientsOK
      /\ tpc \in [Conns -> {"none", "idle", "get", "push", "arm", "done"}]
      /\ got \in [Conns -> 0 .. MaxFrames]
  BY MaxFramesAssumption DEF ServerOK, ScalarsOK, ClientsOK
<1>r. refs \in [Frames -> Int] /\ \A f \in Frames : refs[f] = Total(f)
  BY DEF CountOK
<1>h. \A f : Cardinality(Holders(f)) \in Nat
  BY HoldersTypes
<1>1. ASSUME refs' \in [Frames -> Int], got' = got,
             \A f \in Frames : refs'[f] = refs[f] - Bit(shown = f) - Bit(holds = f)
                                          + Bit(shown' = f) + Bit(holds' = f)
      PROVE  CountOK'
  <2> SUFFICES ASSUME NEW f \in Frames PROVE refs'[f] = Total(f)'
    BY <1>1 DEF CountOK
  <2>1. Cardinality(Holders(f))' = Cardinality(Holders(f))
    BY <1>1, HoldersSame
  <2>2. refs[f] = Bit(shown = f) + Bit(holds = f) + Cardinality(Holders(f))
    BY <1>r DEF Total
  <2>3. refs'[f] = refs[f] - Bit(shown = f) - Bit(holds = f) + Bit(shown' = f) + Bit(holds' = f)
    BY <1>1
  <2>4. refs'[f] = Bit(shown' = f) + Bit(holds' = f) + Cardinality(Holders(f))
    BY <1>h, <2>2, <2>3 DEF Bit
  <2> QED
    BY <2>1, <2>4 DEF Total
<1>2. ASSUME NEW c \in Conns, refs' \in [Frames -> Int], UNCHANGED <<shown, holds>>,
             \A d \in Conns \ {c} : got'[d] = got[d],
             \A f \in Frames : refs'[f] = refs[f] - Bit(got[c] = f) + Bit(got'[c] = f)
      PROVE  CountOK'
  <2> SUFFICES ASSUME NEW f \in Frames PROVE refs'[f] = Total(f)'
    BY <1>2 DEF CountOK
  <2>1. Cardinality(Holders(f))' = Cardinality(Holders(f)) - Bit(got[c] = f) + Bit(got'[c] = f)
    BY <1>2, HoldersChange
  <2>2. refs[f] = Bit(shown = f) + Bit(holds = f) + Cardinality(Holders(f))
    BY <1>r DEF Total
  <2>3. refs'[f] = refs[f] - Bit(got[c] = f) + Bit(got'[c] = f)
    BY <1>2
  <2>4. refs'[f] = Bit(shown = f) + Bit(holds = f) + Cardinality(Holders(f))'
    BY <1>h, <2>1, <2>2, <2>3 DEF Bit
  <2> QED
    BY <1>2, <2>4 DEF Total
<1> USE DEF channelVars, serverVars, clientVars, threadVars
<1>3. CASE UNCHANGED <<refs, shown, holds, got>>
  <2>1. \A f \in Frames : refs[f] = refs[f] - Bit(shown = f) - Bit(holds = f)
                                      + Bit(shown = f) + Bit(holds = f)
    BY <1>r DEF Bit
  <2> QED
    BY <1>1, <1>3, <1>r, <2>1
<1>4. CASE Update
  <2>1. /\ holds = 0 /\ made' = made + 1 /\ shown' = made + 1 /\ holds' = made + 1 /\ got' = got
        /\ refs' = [f \in Frames |-> IF f = made + 1 THEN 2
                                     ELSE IF f = shown THEN refs[f] - 1 ELSE refs[f]]
    BY <1>4 DEF Update
  <2>2. \A f \in Frames : refs[f] \in Int
    BY <1>r
  <2>3. refs' \in [Frames -> Int]
    BY <2>1, <2>2
  <2>4. ASSUME NEW f \in Frames
        PROVE  refs'[f] = refs[f] - Bit(shown = f) - Bit(holds = f) + Bit(shown' = f) + Bit(holds' = f)
    <3>0. f # 0 /\ shown # made + 1
      BY <1>0 DEF Frames, FramesOK
    <3>1. CASE f = made + 1
      <4>1. refs[f] = 0
        <5>1. Cardinality(Holders(f)) = 0
          BY <1>0, <3>1, FreshUnheld
        <5> QED
          BY <1>r, <2>1, <3>0, <3>1, <5>1 DEF Total, Bit
      <4> QED
        BY <2>1, <3>0, <3>1, <4>1 DEF Bit
    <3>2. CASE f # made + 1
      BY <2>1, <2>2, <3>0, <3>2 DEF Bit
    <3> QED
      BY <3>1, <3>2
  <2> QED
    BY <1>1, <2>1, <2>3, <2>4
<1>5. CASE Drop
  <2>1. /\ holds # 0 /\ refs' = [refs EXCEPT ![holds] = @ - 1] /\ holds' = 0
        /\ UNCHANGED <<shown, got>>
    BY <1>5 DEF Drop
  <2>2. refs' \in [Frames -> Int]
    <3>a. \A f \in Frames : refs[f] \in Int
      BY <1>r
    <3>b. refs' = [f \in Frames |-> IF f = holds THEN refs[f] - 1 ELSE refs[f]]
      BY <1>r, <2>1
    <3> QED
      BY <3>a, <3>b
  <2>3. ASSUME NEW f \in Frames
        PROVE  refs'[f] = refs[f] - Bit(shown = f) - Bit(holds = f) + Bit(shown' = f) + Bit(holds' = f)
    <3>1. refs[f] \in Int /\ f # 0
      BY <1>r DEF Frames
    <3>2. refs'[f] = IF f = holds THEN refs[f] - 1 ELSE refs[f]
      BY <1>r, <2>1
    <3> QED
      BY <2>1, <3>1, <3>2 DEF Bit
  <2> QED
    BY <1>1, <2>1, <2>2, <2>3
<1>6. ASSUME NEW c \in Conns, Thread(c) PROVE CountOK'
  <2>1. CASE Enter(c) \/ Arm(c)
    BY <1>3, <2>1 DEF Enter, Arm
  <2>2. CASE Get(c) /\ shown = 0
    BY <1>3, <2>2 DEF Get
  <2>3. CASE Get(c) /\ shown # 0
    <3>1. /\ tpc[c] = "get" /\ got' = [got EXCEPT ![c] = shown]
          /\ refs' = [refs EXCEPT ![shown] = @ + 1] /\ UNCHANGED <<shown, holds>>
      BY <2>3 DEF Get, GetFrame
    <3>2. got[c] = 0 /\ got'[c] = shown /\ \A d \in Conns \ {c} : got'[d] = got[d]
      BY <1>0, <3>1 DEF FramesOK
    <3>3. refs' \in [Frames -> Int]
      <4>a. \A f \in Frames : refs[f] \in Int
        BY <1>r
      <4>b. refs' = [f \in Frames |-> IF f = shown THEN refs[f] + 1 ELSE refs[f]]
        BY <1>r, <3>1
      <4> QED
        BY <4>a, <4>b
    <3>4. ASSUME NEW f \in Frames PROVE refs'[f] = refs[f] - Bit(got[c] = f) + Bit(got'[c] = f)
      <4>1. refs[f] \in Int /\ f # 0
        BY <1>r DEF Frames
      <4>2. refs'[f] = IF f = shown THEN refs[f] + 1 ELSE refs[f]
        BY <1>r, <3>1
      <4> QED
        BY <3>2, <4>1, <4>2 DEF Bit
    <3> QED
      BY <1>2, <3>1, <3>2, <3>3, <3>4
  <2>4. CASE Skip(c) \/ Push(c)
    <3>1. /\ got' = [got EXCEPT ![c] = 0]
          /\ refs' = [refs EXCEPT ![got[c]] = @ - 1] /\ UNCHANGED <<shown, holds>>
      BY <2>4 DEF Skip, Push, Unref
    <3>2. got'[c] = 0 /\ \A d \in Conns \ {c} : got'[d] = got[d]
      BY <1>0, <3>1
    <3>3. refs' \in [Frames -> Int]
      <4>a. \A f \in Frames : refs[f] \in Int
        BY <1>r
      <4>b. refs' = [f \in Frames |-> IF f = got[c] THEN refs[f] - 1 ELSE refs[f]]
        BY <1>r, <3>1
      <4> QED
        BY <4>a, <4>b
    <3>4. ASSUME NEW f \in Frames PROVE refs'[f] = refs[f] - Bit(got[c] = f) + Bit(got'[c] = f)
      <4>1. refs[f] \in Int /\ f # 0
        BY <1>r DEF Frames
      <4>2. refs'[f] = IF f = got[c] THEN refs[f] - 1 ELSE refs[f]
        BY <1>r, <3>1
      <4> QED
        BY <3>2, <4>1, <4>2 DEF Bit
    <3> QED
      BY <1>2, <3>1, <3>2, <3>3, <3>4
  <2> QED
    BY <1>6, <2>1, <2>2, <2>3, <2>4 DEF Thread
<1>7. ASSUME NEW c \in Conns, Accept(c) \/ Read(c) \/ Write(c) PROVE CountOK'
  BY <1>3, <1>7 DEF Accept, Read, Write
<1>8. CASE AcceptFails \/ LookAgain \/ Disarm \/ Removal \/ Collect \/ CollectNext \/ Environment
           \/ UNCHANGED vars
  BY <1>3, <1>8 DEF AcceptFails, LookAgain, Disarm, Removal, Destroy, Join, Free, Collect,
                    CollectNext, Environment, Writable, vars
<1> QED
  BY <1>4, <1>5, <1>6, <1>7, <1>8 DEF Next, Server

\* All of it together: what the server, the main thread and the clients know.
Inv == ServerOK /\ StartedOK /\ FramesOK /\ CountOK

\* The inductive invariant.
LEMMA InvCorrect == Spec => []Inv
<1>1. Init => Inv
  <2> SUFFICES ASSUME Init PROVE Inv
    OBVIOUS
  <2>1. ServerOK
    BY InitServerOK
  <2>2. StartedOK /\ FramesOK
    BY DEF Init, StartedOK, FramesOK
  <2>3. CountOK
    <3>1. refs = [f \in Frames |-> 0] /\ shown = 0 /\ holds = 0 /\ got = [c \in Conns |-> 0]
      BY DEF Init
    <3>2. ASSUME NEW f \in Frames PROVE refs[f] = Total(f)
      <4>1. f # 0
        BY DEF Frames
      <4>2. Holders(f) = {}
        BY <3>1, <4>1 DEF Holders
      <4>3. Cardinality(Holders(f)) = 0
        BY <4>2, FS_EmptySet
      <4> QED
        BY <3>1, <4>1, <4>3 DEF Total, Bit
    <3> QED
      BY <3>1, <3>2 DEF CountOK
  <2> QED
    BY <2>1, <2>2, <2>3 DEF Inv
<1>2. Inv /\ [Next]_vars => Inv'
  BY NextServerOK, StartedStep, FramesStep, CountStep DEF Inv
<1> QED
  BY <1>1, <1>2, PTL DEF Spec

\* The variables have their types, a frame has at most as many references as there
\* are clients and two, and the array of clients lists every connected one once,
\* whoever is removed out of its middle (http-server.c:370-390).
THEOREM TypeCorrect == Spec => []TypeOK
<1>1. Inv => TypeOK
  <2> SUFFICES ASSUME Inv PROVE TypeOK
    OBVIOUS
  <2>1. ScalarsOK /\ ClientsOK /\ ArrayOK /\ CountOK
    BY DEF Inv, ServerOK
  <2>2. refs \in [Frames -> 0 .. 2 + Cardinality(Conns)]
    <3>1. ASSUME NEW f \in Frames PROVE refs[f] \in 0 .. 2 + Cardinality(Conns)
      <4>1. refs[f] = Bit(shown = f) + Bit(holds = f) + Cardinality(Holders(f))
        BY <2>1 DEF CountOK, Total
      <4>2. /\ Cardinality(Holders(f)) \in Nat /\ Cardinality(Conns) \in Nat
            /\ Cardinality(Holders(f)) <= Cardinality(Conns)
        BY HoldersTypes
      <4>3. Bit(shown = f) \in 0 .. 1 /\ Bit(holds = f) \in 0 .. 1
        BY DEF Bit
      <4> QED
        BY <4>1, <4>2, <4>3
    <3> QED
      BY <2>1, <3>1 DEF CountOK
  <2>3. ToSet(clients) = {c \in Conns : stage[c] \in {"open", "stream"}} \
                           (IF at \in {"destroy", "join", "free"} THEN {cur} ELSE {})
    BY <2>1 DEF ArrayOK, Connected, Removing
  <2>4. clients \in Seq(Conns) /\ IsInjective(clients)
    BY <2>1 DEF ArrayOK
  <2> QED
    BY <2>1, <2>2, <2>3, <2>4 DEF ScalarsOK, ClientsOK, TypeOK
<1> QED
  BY <1>1, InvCorrect, PTL

\* The frame a thread copies from has a reference of the thread, and when nobody is
\* copying only the frame on show is kept (motion-jpeg-server.c:99-137).
THEOREM FramesCounted == Spec => []FramesAreCounted
<1>1. Inv => FramesAreCounted
  <2> SUFFICES ASSUME Inv PROVE FramesAreCounted
    OBVIOUS
  <2>1. /\ \A c \in Conns : got[c] \in 0 .. MaxFrames
        /\ \A f \in Frames : refs[f] = Bit(shown = f) + Bit(holds = f) + Cardinality(Holders(f))
    BY DEF Inv, ServerOK, ClientsOK, CountOK, Total
  <2>2. ASSUME NEW c \in Conns, got[c] # 0 PROVE refs[got[c]] > 0
    <3>1. got[c] \in Frames
      BY <2>1, <2>2, MaxFramesAssumption DEF Frames
    <3>2. c \in Holders(got[c])
      BY DEF Holders
    <3>3. Cardinality(Holders(got[c])) \in Nat /\ Cardinality(Holders(got[c])) # 0
      BY <3>2, HoldersTypes, FS_EmptySet
    <3>4. refs[got[c]] = Bit(shown = got[c]) + Bit(holds = got[c]) + Cardinality(Holders(got[c]))
      BY <2>1, <3>1
    <3>5. Bit(shown = got[c]) \in Nat /\ Bit(holds = got[c]) \in Nat
      BY DEF Bit
    <3> QED
      BY <3>3, <3>4, <3>5
  <2>3. ASSUME holds = 0, \A c \in Conns : got[c] = 0, NEW f \in Frames
        PROVE  refs[f] = IF f = shown THEN 1 ELSE 0
    <3>1. f # 0
      BY DEF Frames
    <3>2. Holders(f) = {}
      BY <2>3, <3>1 DEF Holders
    <3>3. Cardinality(Holders(f)) = 0
      BY <3>2, FS_EmptySet
    <3>4. refs[f] = Bit(shown = f) + Bit(holds = f) + 0
      BY <2>1, <3>3
    <3> QED
      BY <2>3, <3>1, <3>4 DEF Bit
  <2> QED
    BY <2>2, <2>3 DEF FramesAreCounted
<1> QED
  BY <1>1, InvCorrect, PTL
=============================================================================
