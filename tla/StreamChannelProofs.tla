------------------------ MODULE StreamChannelProofs ------------------------
(***************************************************************************)
(* The channel and its streams, for any number of streams and POSTs: no    *)
(* stream is ever drawn with an older frame than before, with or without   *)
(* torn counts; and in a build whose increments do not interleave a count  *)
(* is the number of the owners of its frame, and the viewer never works on *)
(* a frame that was given back.                                            *)
(*                                                                         *)
(* The first part proves PlacesOK inductive, one conjunct per lemma.  The  *)
(* second counts: a step moves a frame between the channel, the slots and  *)
(* the hands of one thread, and the sum of the four changes by as much as  *)
(* the count.                                                              *)
(***************************************************************************)
EXTENDS StreamChannel, FiniteSetTheorems, TLAPS

Pcs == MainPcs \cup StreamPcs

\* The main thread and the streams are threads, nobody is not.
LEMMA MainIsThread ==
  Main \in Threads /\ Streams \subseteq Threads /\ None \notin Threads
BY ThreadsAssumption DEF Threads

\* The places in the code that the steps below go between.
LEMMA PcNames ==
  {"idle", "publish", "get", "got", "drop", "view", "copied", "draw", "old", "put", "cleared",
   "fetch", "stale", "reject", "fresh", "predict", "swap"} \subseteq Pcs
BY DEF Pcs, MainPcs, StreamPcs

\* An increment and a decrement keep the types, torn or not.
LEMMA CountsType ==
  ASSUME TypeOK, NEW t \in Threads, hold[t] \in Frames
  PROVE  /\ AddRef(t) => refs' \in [Frames -> Nat] /\ freed' \subseteq Frames
         /\ Unref(t) => (/\ refs' \in [Frames -> Nat] /\ freed' \subseteq Frames
                         /\ reg' \in [Threads -> Nat])
<1>1. Count(t) \in Nat
  BY DEF Count, TypeOK
<1>2. ASSUME AddRef(t) PROVE refs' \in [Frames -> Nat] /\ freed' \subseteq Frames
  BY <1>1, <1>2 DEF AddRef, TypeOK
<1>3. ASSUME Unref(t) 
      PROVE refs' \in [Frames -> Nat] /\ freed' \subseteq Frames /\ reg' \in [Threads -> Nat]
  BY <1>1, <1>3 DEF Unref, TypeOK
<1> QED
  BY <1>2, <1>3

\* A thread that works on a frame has one.
LEMMA HasFrame ==
  ASSUME PlacesOK, NEW t \in Threads,
         pc[t] \in {"publish", "get", "got", "drop", "view", "copied", "draw", "old", "put",
                    "cleared", "stale", "reject", "fresh", "predict"}
  PROVE  hold[t] \in Frames
BY DEF PlacesOK, HoldsOK, Working

\* Every step keeps the types.
LEMMA TypeStep == PlacesOK /\ [Next]_vars => TypeOK'
<1> SUFFICES ASSUME PlacesOK, [Next]_vars PROVE TypeOK'
  OBVIOUS
<1>0. TypeOK
  BY DEF PlacesOK
<1> USE <1>0, MainIsThread, PcNames DEF TypeOK, Pcs, Goto, Hold, Lock, Unlock,
        channelVars, countVars, streamVars, viewVars
<1>1. CASE PostGarbage
  BY <1>1, MaxPostsAssumption DEF PostGarbage
<1>2. CASE PostImage
  <2>1. next \in Frames /\ next' \in 0 .. MaxPosts
    BY <1>2, MaxPostsAssumption DEF PostImage, Frames
  <2>2. refs' \in [Frames -> Nat] /\ hold' \in [Threads -> Frames \cup {NoFrame}]
    BY <1>2, <2>1 DEF PostImage
  <2> QED
    BY <1>2, <2>1, <2>2, PcNames DEF PostImage, Pcs
<1>3. CASE Publish
  <2>1. hold[Main] \in Frames /\ hold' \in [Threads -> Frames \cup {NoFrame}]
    BY <1>3, HasFrame DEF Publish
  <2>2. current # NoFrame => refs[current] \in Nat
    OBVIOUS
  <2>3. mutex' \in Threads \cup {None} /\ reg' \in [Threads -> Nat]
    BY <1>3, <2>2 DEF Publish, Load
  <2>4. pc' \in [Threads -> Pcs]
    BY <1>3 DEF Publish
  <2> QED
    BY <1>3, <2>1, <2>3, <2>4 DEF Publish, Pcs
<1>4. ASSUME NEW t \in Threads, NEW from, GetLock(t, from, "idle")
      PROVE TypeOK'
  <2>1. hold' \in [Threads -> Frames \cup {NoFrame}] /\ pc' \in [Threads -> Pcs]
    BY <1>4 DEF GetLock
  <2>2. current # NoFrame => refs[current] \in Nat
    OBVIOUS
  <2>3. mutex' \in Threads \cup {None} /\ reg' \in [Threads -> Nat]
    BY <1>4, <2>2 DEF GetLock, Load
  <2> QED
    BY <1>4, <2>1, <2>3 DEF GetLock
<1>5. ASSUME NEW t \in Threads, GetRef(t) PROVE TypeOK'
  <2>1. refs' \in [Frames -> Nat] /\ freed' \subseteq Frames
    BY <1>5, HasFrame, CountsType DEF GetRef
  <2> QED
    BY <1>5, <2>1 DEF GetRef
<1>6. ASSUME NEW t \in Threads, NEW from, NEW to \in {"drop", "reject"},
             from \in {"got", "cleared", "stale"}, UnrefLock(t, from, to)
      PROVE TypeOK'
  <2>1. reg' \in [Threads -> Nat]
    BY <1>6, HasFrame DEF UnrefLock, Load
  <2> QED
    BY <1>6, <2>1 DEF UnrefLock
<1>7. ASSUME NEW t \in Threads, DropRef(t) \/ Reject(t) PROVE TypeOK'
  <2>1. Unref(t) /\ hold[t] \in Frames
    BY <1>7, HasFrame DEF DropRef, Reject
  <2>2. /\ refs' \in [Frames -> Nat] /\ freed' \subseteq Frames
        /\ reg' \in [Threads -> Nat]
    BY <2>1, CountsType
  <2> QED
    BY <1>7, <2>2 DEF DropRef, Reject
<1>8. ASSUME NEW s \in Streams, View(s) PROVE TypeOK'
  <2>1. refs[front[s]] \in Nat /\ front[s] \in Frames
    BY <1>8 DEF View
  <2>2. reg' \in [Threads -> Nat]
    BY <1>8, <2>1 DEF View, Load
  <2> QED
    BY <1>8, <2>1, <2>2 DEF View
<1>9. CASE ViewRef
  <2>1. hold[Main] \in Frames
    BY <1>9, HasFrame DEF ViewRef
  <2>2. refs' \in [Frames -> Nat] /\ freed' \subseteq Frames
    BY <1>9, <2>1, CountsType DEF ViewRef
  <2>3. reg' \in [Threads -> Nat]
    BY <1>9, <2>1, <2>2 DEF ViewRef
  <2> QED
    BY <1>9, <2>2, <2>3 DEF ViewRef
<1>10. CASE ViewUnref
  <2>1. /\ refs' \in [Frames -> Nat] /\ freed' \subseteq Frames
        /\ reg' \in [Threads -> Nat]
    BY <1>10, HasFrame, CountsType DEF ViewUnref
  <2> QED
    BY <1>10, <2>1 DEF ViewUnref
<1>11. CASE Draw
  <2>1. hold[Main] \in Frames /\ hold[Main] \in Nat
    BY <1>11, HasFrame DEF Draw, Frames
  <2> QED
    BY <1>11, <2>1 DEF Draw
<1>12. ASSUME NEW s \in Streams, Round(s) \/ Put(s) \/ Clear(s) PROVE TypeOK'
  BY <1>12 DEF Round, Put, Clear
<1>13. ASSUME NEW s \in Streams, Check(s) \/ Predict(s) \/ Swap(s) PROVE TypeOK'
  BY <1>13 DEF Check, Predict, Swap
<1>14. ASSUME NEW s \in Streams, Take(s) PROVE TypeOK'
  <2>1. hold[s] \in Frames /\ hold[s] \in Nat
    BY <1>14, HasFrame DEF Take, Frames
  <2> QED
    BY <1>14, <2>1 DEF Take
<1>15. ASSUME NEW s \in Streams, StreamThread(s) PROVE TypeOK'
  BY <1>15, <1>4, <1>5, <1>6, <1>7, <1>12, <1>13, <1>14 DEF StreamThread, Drop, Fetch, Stale
<1>16. CASE UNCHANGED vars
  BY <1>16 DEF vars
<1>17. CASE Get \/ GetAnswered
  BY <1>17, <1>4, <1>6 DEF Get, GetAnswered
<1>18. CASE GetRef(Main) \/ DropRef(Main)
  BY <1>18, <1>5, <1>7
<1> QED
  BY <1>1, <1>2, <1>3, <1>17, <1>18, <1>8, <1>9, <1>10, <1>11, <1>15, <1>16
     DEF Next, Request, Finish, Viewer

-----------------------------------------------------------------------------
\* The steps in groups, by what they do to the places a frame can be in.
Serves == PostGarbage \/ PostImage \/ Publish
Gets(t) == \/ t = Main /\ GetLock(t, "idle", "idle")
           \/ t \in Streams /\ GetLock(t, "fetch", "idle")
UnrefLocks(t) == \/ t = Main /\ UnrefLock(t, "got", "drop")
                 \/ t \in Streams /\ UnrefLock(t, "cleared", "drop")
                 \/ t \in Streams /\ UnrefLock(t, "stale", "reject")
Unrefs(t) == DropRef(t) \/ (t \in Streams /\ Reject(t))
Draws == ViewRef \/ ViewUnref \/ Draw
Prepares(s) == Round(s) \/ Put(s) \/ Clear(s) \/ Check(s)
Shows(s) == Take(s) \/ Predict(s) \/ Swap(s)

\* Every step of the player is in one of the groups.
LEMMA StepGroups == [Next]_vars =>
  \/ Serves \/ Draws \/ UNCHANGED vars
  \/ \E t \in Threads : Gets(t) \/ GetRef(t) \/ UnrefLocks(t) \/ Unrefs(t)
  \/ \E s \in Streams : View(s) \/ Prepares(s) \/ Shows(s)
<1> SUFFICES ASSUME Next PROVE
      \/ Serves \/ Draws
      \/ \E t \in Threads : Gets(t) \/ GetRef(t) \/ UnrefLocks(t) \/ Unrefs(t)
      \/ \E s \in Streams : View(s) \/ Prepares(s) \/ Shows(s)
  OBVIOUS
<1>1. ASSUME NEW t \in Threads, Gets(t) \/ GetRef(t) \/ UnrefLocks(t) \/ Unrefs(t)
      PROVE \E u \in Threads : Gets(u) \/ GetRef(u) \/ UnrefLocks(u) \/ Unrefs(u)
  BY <1>1
<1>2. CASE Request
  <2>1. Get => Gets(Main)
    BY DEF Get, Gets
  <2> QED
    BY <1>1, <1>2, <2>1, MainIsThread DEF Request, Serves
<1>3. CASE Finish
  <2>1. GetAnswered => UnrefLocks(Main)
    BY DEF GetAnswered, UnrefLocks
  <2>2. DropRef(Main) => Unrefs(Main)
    BY DEF Unrefs
  <2>3. Publish \/ GetRef(Main) \/ UnrefLocks(Main) \/ Unrefs(Main)
    BY <1>3, <2>1, <2>2 DEF Finish
  <2> QED
    BY <1>1, <2>3, MainIsThread DEF Serves
<1>4. CASE Viewer
  BY <1>4 DEF Viewer, Draws
<1>5. ASSUME NEW s \in Streams, StreamThread(s)
      PROVE  \/ Gets(s) \/ GetRef(s) \/ UnrefLocks(s) \/ Unrefs(s)
             \/ Prepares(s) \/ Shows(s)
  BY <1>5 DEF StreamThread, Drop, Fetch, Stale, Gets, UnrefLocks, Unrefs, Prepares, Shows
<1> QED
  BY <1>1, <1>2, <1>3, <1>4, <1>5, MainIsThread DEF Next

\* No thread runs a step of the other kind.
LEMMA PcsStep == PlacesOK /\ [Next]_vars => PcsOK'
<1> SUFFICES ASSUME PlacesOK, [Next]_vars PROVE PcsOK'
  OBVIOUS
<1>0. TypeOK /\ PcsOK
  BY TypeStep DEF PlacesOK
<1> USE <1>0, MainIsThread, ThreadsAssumption DEF TypeOK, PcsOK, MainPcs, StreamPcs,
        Goto, Hold, Lock, Unlock, channelVars, countVars, streamVars, viewVars
<1>1. CASE Serves
  BY <1>1 DEF Serves, PostGarbage, PostImage, Publish
<1>2. CASE Draws
  BY <1>2 DEF Draws, ViewRef, ViewUnref, Draw
<1>3. ASSUME NEW t \in Threads, Gets(t) PROVE PcsOK'
  BY <1>3 DEF Gets, GetLock
<1>4. ASSUME NEW t \in Threads, GetRef(t) PROVE PcsOK'
  BY <1>4 DEF GetRef
<1>5. ASSUME NEW t \in Threads, UnrefLocks(t) PROVE PcsOK'
  BY <1>5 DEF UnrefLocks, UnrefLock
<1>6. ASSUME NEW t \in Threads, Unrefs(t) PROVE PcsOK'
  BY <1>6 DEF Unrefs, Unref, DropRef, Reject
<1>7. ASSUME NEW s \in Streams, View(s) PROVE PcsOK'
  BY <1>7 DEF View
<1>8. ASSUME NEW s \in Streams, Prepares(s) PROVE PcsOK'
  BY <1>8 DEF Prepares, Round, Put, Clear, Check
<1>9. ASSUME NEW s \in Streams, Shows(s) PROVE PcsOK'
  BY <1>9 DEF Shows, Take, Predict, Swap
<1>10. CASE UNCHANGED vars
  BY <1>10 DEF vars
<1> QED
  BY <1>1, <1>2, <1>3, <1>4, <1>5, <1>6, <1>7, <1>8, <1>9, <1>10, StepGroups

\* The steps under channel->mutex are taken by its holder.
LEMMA LocksStep == PlacesOK /\ [Next]_vars => LocksOK'
<1> SUFFICES ASSUME PlacesOK, [Next]_vars PROVE LocksOK'
  OBVIOUS
<1>0. TypeOK /\ LocksOK
  BY TypeStep DEF PlacesOK
<1> USE <1>0, MainIsThread, ThreadsAssumption DEF TypeOK, LocksOK, Inside,
        Goto, Hold, Lock, Unlock, channelVars, countVars, streamVars, viewVars
<1>1. CASE Serves
  BY <1>1 DEF Serves, PostGarbage, PostImage, Publish
<1>2. CASE Draws
  BY <1>2 DEF Draws, ViewRef, ViewUnref, Draw
<1>3. ASSUME NEW t \in Threads, Gets(t) PROVE LocksOK'
  BY <1>3 DEF Gets, GetLock
<1>4. ASSUME NEW t \in Threads, GetRef(t) PROVE LocksOK'
  BY <1>4 DEF GetRef
<1>5. ASSUME NEW t \in Threads, UnrefLocks(t) PROVE LocksOK'
  BY <1>5 DEF UnrefLocks, UnrefLock
<1>6. ASSUME NEW t \in Threads, Unrefs(t) PROVE LocksOK'
  BY <1>6 DEF Unrefs, Unref, DropRef, Reject
<1>7. ASSUME NEW s \in Streams, View(s) PROVE LocksOK'
  BY <1>7 DEF View
<1>8. ASSUME NEW s \in Streams, Prepares(s) PROVE LocksOK'
  BY <1>8 DEF Prepares, Round, Put, Clear, Check
<1>9. ASSUME NEW s \in Streams, Shows(s) PROVE LocksOK'
  BY <1>9 DEF Shows, Take, Predict, Swap
<1>10. CASE UNCHANGED vars
  BY <1>10 DEF vars
<1> QED
  BY <1>1, <1>2, <1>3, <1>4, <1>5, <1>6, <1>7, <1>8, <1>9, <1>10, StepGroups

\* A thread goes to work only with a frame, and the mutex keeps the frame it takes a
\* reference to in the channel.
LEMMA HoldsStep == PlacesOK /\ [Next]_vars => HoldsOK'
<1> SUFFICES ASSUME PlacesOK, [Next]_vars PROVE HoldsOK'
  OBVIOUS
<1>0. TypeOK /\ TypeOK' /\ LocksOK /\ HoldsOK
  BY TypeStep DEF PlacesOK
<1> USE <1>0, MainIsThread, ThreadsAssumption DEF TypeOK, HoldsOK, Working, LocksOK, Inside, NoFrame,
        Goto, Hold, Lock, Unlock, channelVars, countVars, streamVars, viewVars
<1>1. CASE Serves
  BY <1>1 DEF Serves, PostGarbage, PostImage, Publish
<1>2. CASE Draws
  BY <1>2 DEF Draws, ViewRef, ViewUnref, Draw
<1>3. ASSUME NEW t \in Threads, Gets(t) PROVE HoldsOK'
  BY <1>3 DEF Gets, GetLock
<1>4. ASSUME NEW t \in Threads, GetRef(t) PROVE HoldsOK'
  BY <1>4 DEF GetRef
<1>5. ASSUME NEW t \in Threads, UnrefLocks(t) PROVE HoldsOK'
  BY <1>5 DEF UnrefLocks, UnrefLock
<1>6. ASSUME NEW t \in Threads, Unrefs(t) PROVE HoldsOK'
  BY <1>6 DEF Unrefs, Unref, DropRef, Reject
<1>7. ASSUME NEW s \in Streams, View(s) PROVE HoldsOK'
  BY <1>7 DEF View
<1>8. ASSUME NEW s \in Streams, Prepares(s) PROVE HoldsOK'
  BY <1>8 DEF Prepares, Round, Put, Clear, Check
<1>9. ASSUME NEW s \in Streams, Shows(s) PROVE HoldsOK'
  BY <1>9 DEF Shows, Take, Predict, Swap
<1>10. CASE UNCHANGED vars
  BY <1>10 DEF vars
<1> QED
  BY <1>1, <1>2, <1>3, <1>4, <1>5, <1>6, <1>7, <1>8, <1>9, <1>10, StepGroups

\* The swap of the stream that is drawn waits for the viewer.
LEMMA ViewStep == PlacesOK /\ [Next]_vars => ViewOK'
<1> SUFFICES ASSUME PlacesOK, [Next]_vars PROVE ViewOK'
  OBVIOUS
<1>0. TypeOK /\ PcsOK /\ ViewOK
  BY TypeStep DEF PlacesOK
<1> USE <1>0, MainIsThread, ThreadsAssumption DEF TypeOK, ViewOK, Viewing, PcsOK, MainPcs, StreamPcs,
        Goto, Hold, Lock, Unlock, channelVars, countVars, streamVars, viewVars
<1>1. CASE Serves
  BY <1>1 DEF Serves, PostGarbage, PostImage, Publish
<1>2. CASE Draws
  BY <1>2 DEF Draws, ViewRef, ViewUnref, Draw
<1>3. ASSUME NEW t \in Threads, Gets(t) PROVE ViewOK'
  BY <1>3 DEF Gets, GetLock
<1>4. ASSUME NEW t \in Threads, GetRef(t) PROVE ViewOK'
  BY <1>4 DEF GetRef
<1>5. ASSUME NEW t \in Threads, UnrefLocks(t) PROVE ViewOK'
  BY <1>5 DEF UnrefLocks, UnrefLock
<1>6. ASSUME NEW t \in Threads, Unrefs(t) PROVE ViewOK'
  BY <1>6 DEF Unrefs, Unref, DropRef, Reject
<1>7. ASSUME NEW s \in Streams, View(s) PROVE ViewOK'
  BY <1>7 DEF View
<1>8. ASSUME NEW s \in Streams, Prepares(s) PROVE ViewOK'
  BY <1>8 DEF Prepares, Round, Put, Clear, Check
<1>9. ASSUME NEW s \in Streams, Shows(s) PROVE ViewOK'
  BY <1>9 DEF Shows, Take, Predict, Swap
<1>10. CASE UNCHANGED vars
  BY <1>10 DEF vars
<1> QED
  BY <1>1, <1>2, <1>3, <1>4, <1>5, <1>6, <1>7, <1>8, <1>9, <1>10, StepGroups

\* frame_buffer[1] is empty from the beginning of a round to its new frame.
LEMMA BackStep == PlacesOK /\ [Next]_vars => BackOK'
<1> SUFFICES ASSUME PlacesOK, [Next]_vars PROVE BackOK'
  OBVIOUS
<1>0. TypeOK /\ BackOK
  BY TypeStep DEF PlacesOK
<1> USE <1>0, MainIsThread, ThreadsAssumption DEF TypeOK, BackOK, Emptied,
        Goto, Hold, Lock, Unlock, channelVars, countVars, streamVars, viewVars
<1>1. CASE Serves
  BY <1>1 DEF Serves, PostGarbage, PostImage, Publish
<1>2. CASE Draws
  BY <1>2 DEF Draws, ViewRef, ViewUnref, Draw
<1>3. ASSUME NEW t \in Threads, Gets(t) PROVE BackOK'
  BY <1>3 DEF Gets, GetLock
<1>4. ASSUME NEW t \in Threads, GetRef(t) PROVE BackOK'
  BY <1>4 DEF GetRef
<1>5. ASSUME NEW t \in Threads, UnrefLocks(t) PROVE BackOK'
  BY <1>5 DEF UnrefLocks, UnrefLock
<1>6. ASSUME NEW t \in Threads, Unrefs(t) PROVE BackOK'
  BY <1>6 DEF Unrefs, Unref, DropRef, Reject
<1>7. ASSUME NEW s \in Streams, View(s) PROVE BackOK'
  BY <1>7 DEF View
<1>8. ASSUME NEW s \in Streams, Prepares(s) PROVE BackOK'
  BY <1>8 DEF Prepares, Round, Put, Clear, Check
<1>9. ASSUME NEW s \in Streams, Shows(s) PROVE BackOK'
  BY <1>9 DEF Shows, Take, Predict, Swap
<1>10. CASE UNCHANGED vars
  BY <1>10 DEF vars
<1> QED
  BY <1>1, <1>2, <1>3, <1>4, <1>5, <1>6, <1>7, <1>8, <1>9, <1>10, StepGroups

\* The numbers of the frames in use, and -1 where there is none.
LEMMA Numbers ==
  ASSUME TypeOK
  PROVE  /\ current \in Int /\ next \in Nat /\ freed \subseteq Nat /\ NoFrame = -1
         /\ \A s \in Streams : /\ front[s] \in Int /\ back[s] \in Int /\ shown[s] \in Int
                              /\ number[s] \in Nat
         /\ \A t \in Threads : hold[t] \in Int
         /\ current >= -1 /\ \A s \in Streams : front[s] >= -1
<1>1. Frames \subseteq Nat /\ NoFrame = -1 /\ next \in Nat
  BY MaxPostsAssumption DEF TypeOK, Frames, NoFrame
<1>2. \A f \in Frames \cup {NoFrame} : f \in Int /\ f >= -1
  BY <1>1
<1> QED
  BY <1>1, <1>2 DEF TypeOK

\* Nothing refers to a frame that is not made yet.
LEMMA MadeStep == PlacesOK /\ [Next]_vars => MadeOK'
<1> SUFFICES ASSUME PlacesOK, [Next]_vars PROVE MadeOK'
  OBVIOUS
<1>0. TypeOK /\ HoldsOK /\ MadeOK
  BY TypeStep DEF PlacesOK
<1> USE <1>0, MainIsThread, ThreadsAssumption, Numbers DEF TypeOK, MadeOK, HoldsOK, Working,
        Goto, Hold, Lock, Unlock, channelVars, countVars, streamVars, viewVars
<1>1. CASE Serves
  <2>1. CASE PostGarbage
    BY <2>1 DEF PostGarbage
  <2>2. CASE PostImage
    BY <2>2 DEF PostImage
  <2>3. CASE Publish
    BY <2>3 DEF Publish
  <2> QED
    BY <1>1, <2>1, <2>2, <2>3 DEF Serves
<1>2. CASE Draws
  BY <1>2 DEF Draws, ViewRef, ViewUnref, Draw, AddRef, Unref
<1>3. ASSUME NEW t \in Threads, Gets(t) PROVE MadeOK'
  <2>1. /\ hold' = [hold EXCEPT ![t] = current]
        /\ UNCHANGED <<current, next, freed, front, back>>
    BY <1>3 DEF Gets, GetLock
  <2> QED
    BY <2>1
<1>4. ASSUME NEW t \in Threads, GetRef(t) PROVE MadeOK'
  BY <1>4 DEF GetRef, AddRef
<1>5. ASSUME NEW t \in Threads, UnrefLocks(t) PROVE MadeOK'
  BY <1>5 DEF UnrefLocks, UnrefLock
<1>6. ASSUME NEW t \in Threads, Unrefs(t) PROVE MadeOK'
  BY <1>6 DEF Unrefs, Unref, DropRef, Reject
<1>7. ASSUME NEW s \in Streams, View(s) PROVE MadeOK'
  BY <1>7 DEF View
<1>8. ASSUME NEW s \in Streams, Prepares(s) PROVE MadeOK'
  BY <1>8 DEF Prepares, Round, Put, Clear, Check
<1>9. ASSUME NEW s \in Streams, Shows(s) PROVE MadeOK'
  BY <1>9 DEF Shows, Take, Predict, Swap
<1>10. CASE UNCHANGED vars
  BY <1>10 DEF vars
<1> QED
  BY <1>1, <1>2, <1>3, <1>4, <1>5, <1>6, <1>7, <1>8, <1>9, <1>10, StepGroups

\* The numbers keep their order: a thread checks what it fetched against nothing newer
\* than the channel has, and the swap brings what is not older.
LEMMA OrderStep == PlacesOK /\ [Next]_vars => OrderOK'
<1> SUFFICES ASSUME PlacesOK, [Next]_vars PROVE OrderOK'
  OBVIOUS
<1>0. TypeOK /\ HoldsOK /\ ViewOK /\ MadeOK /\ OrderOK
  BY TypeStep DEF PlacesOK
<1> USE <1>0, MainIsThread, ThreadsAssumption, Numbers DEF TypeOK, OrderOK, ViewOK, Viewing, HoldsOK, MadeOK,
        Goto, Hold, Lock, Unlock, channelVars, countVars, streamVars, viewVars
<1>1. CASE Serves
  BY <1>1 DEF Serves, PostGarbage, PostImage, Publish
<1>2. CASE Draws
  BY <1>2 DEF Draws, ViewRef, ViewUnref, Draw
<1>3. ASSUME NEW t \in Threads, Gets(t) PROVE OrderOK'
  BY <1>3 DEF Gets, GetLock
<1>4. ASSUME NEW t \in Threads, GetRef(t) PROVE OrderOK'
  BY <1>4 DEF GetRef
<1>5. ASSUME NEW t \in Threads, UnrefLocks(t) PROVE OrderOK'
  BY <1>5 DEF UnrefLocks, UnrefLock
<1>6. ASSUME NEW t \in Threads, Unrefs(t) PROVE OrderOK'
  BY <1>6 DEF Unrefs, Unref, DropRef, Reject
<1>7. ASSUME NEW s \in Streams, View(s) PROVE OrderOK'
  BY <1>7 DEF View
<1>8. ASSUME NEW s \in Streams, Prepares(s) PROVE OrderOK'
  BY <1>8 DEF Prepares, Round, Put, Clear, Check
<1>9. ASSUME NEW s \in Streams, Shows(s) PROVE OrderOK'
  BY <1>9 DEF Shows, Take, Predict, Swap
<1>10. CASE UNCHANGED vars
  BY <1>10 DEF vars
<1> QED
  BY <1>1, <1>2, <1>3, <1>4, <1>5, <1>6, <1>7, <1>8, <1>9, <1>10, StepGroups

\* At the start no frame is anywhere.
LEMMA InitPlaces == Init => PlacesOK
<1> SUFFICES ASSUME Init PROVE PlacesOK
  OBVIOUS
<1> USE MainIsThread DEF Init
<1>1. TypeOK
  BY MaxPostsAssumption DEF TypeOK, MainPcs, StreamPcs
<1>2. PcsOK /\ LocksOK /\ HoldsOK /\ ViewOK /\ BackOK
  BY DEF PcsOK, MainPcs, StreamPcs, LocksOK, Inside, HoldsOK, Working, ViewOK, Viewing, BackOK
<1>3. MadeOK /\ OrderOK
  BY DEF MadeOK, OrderOK, NoFrame
<1> QED
  BY <1>1, <1>2, <1>3 DEF PlacesOK

\* The seven parts together.
LEMMA PlacesStep == PlacesOK /\ [Next]_vars => PlacesOK'
  BY TypeStep, PcsStep, LocksStep, HoldsStep, ViewStep, BackStep, MadeStep, OrderStep
     DEF PlacesOK

\* Every frame is where the code expects it: the inductive invariant.
THEOREM AlwaysPlaces == Spec => []PlacesOK
  BY InitPlaces, PlacesStep, PTL DEF Spec

\* The variables have their types, with torn counts too: a count is never negative.
THEOREM TypeCorrect == Spec => []TypeOK
<1>1. PlacesOK => TypeOK
  BY DEF PlacesOK
<1> QED
  BY <1>1, AlwaysPlaces, PTL

\* No stream is drawn with an older frame than before (video_streams.c:55-75), for any
\* number of streams and whatever the counts do.
THEOREM DrawnInOrder == Spec => NeverOlder
<1>1. PlacesOK /\ [Next]_vars => [\A s \in Streams : shown'[s] >= shown[s]]_shown
  <2> SUFFICES ASSUME PlacesOK, [Next]_vars, shown' # shown
               PROVE \A s \in Streams : shown'[s] >= shown[s]
    OBVIOUS
  <2>1. TypeOK /\ ViewOK /\ OrderOK
    BY DEF PlacesOK
  <2>2. Draw
    <3> USE DEF viewVars
    <3>1. ~Serves /\ ~(UNCHANGED vars)
      BY DEF Serves, PostGarbage, PostImage, Publish, vars
    <3>2. ASSUME NEW t \in Threads, Gets(t) \/ GetRef(t) \/ UnrefLocks(t) \/ Unrefs(t) PROVE FALSE
      BY <3>2 DEF Gets, GetLock, GetRef, UnrefLocks, UnrefLock, Unrefs, DropRef, Reject
    <3>3. ASSUME NEW s \in Streams, View(s) \/ Prepares(s) \/ Shows(s) PROVE FALSE
      BY <3>3 DEF View, Prepares, Shows, Round, Put, Clear, Check, Take, Predict, Swap
    <3> QED
      BY <3>1, <3>2, <3>3, StepGroups DEF Draws, ViewRef, ViewUnref
  <2>3. drawing \in Streams /\ hold[Main] = front[drawing] /\ shown[drawing] <= front[drawing]
    BY <2>1, <2>2 DEF ViewOK, Viewing, OrderOK, Draw, Goto
  <2> QED
    BY <2>1, <2>2, <2>3, Numbers DEF Draw, TypeOK
<1> QED
  BY <1>1, AlwaysPlaces, PTL DEF Spec, NeverOlder

-----------------------------------------------------------------------------
\* Counting.

Bit(b) == IF b THEN 1 ELSE 0

\* Two subsets that agree outside x differ in size by x.
LEMMA OneChanges ==
  ASSUME NEW S, IsFiniteSet(S), NEW A \in SUBSET S, NEW B \in SUBSET S, NEW x,
         \A y \in S \ {x} : y \in A <=> y \in B
  PROVE  /\ Cardinality(A) \in Nat /\ Cardinality(B) \in Nat
         /\ Cardinality(B) = Cardinality(A) - Bit(x \in A) + Bit(x \in B)
<1>1. IsFiniteSet(A) /\ IsFiniteSet(B)
  BY FS_Subset
<1>2. Cardinality(A) \in Nat /\ Cardinality(B) \in Nat
  BY <1>1, FS_CardinalityType
<1>3. A \ {x} = B \ {x}
  OBVIOUS
<1>4. Cardinality(A \ {x}) = IF x \in A THEN Cardinality(A) - 1 ELSE Cardinality(A)
  BY <1>1, FS_RemoveElement
<1>5. Cardinality(B \ {x}) = IF x \in B THEN Cardinality(B) - 1 ELSE Cardinality(B)
  BY <1>1, FS_RemoveElement
<1> QED
  BY <1>2, <1>3, <1>4, <1>5 DEF Bit

\* Of disjoint sets.
LEMMA DisjointUnion ==
  ASSUME NEW S, IsFiniteSet(S), NEW T, IsFiniteSet(T), S \cap T = {}
  PROVE  /\ IsFiniteSet(S \cup T)
         /\ Cardinality(S \cup T) = Cardinality(S) + Cardinality(T)
         /\ Cardinality(S) \in Nat /\ Cardinality(T) \in Nat
<1>1. Cardinality(S) \in Nat /\ Cardinality(T) \in Nat
  BY FS_CardinalityType
<1>2. Cardinality(S \cap T) = 0
  BY FS_EmptySet
<1>3. /\ IsFiniteSet(S \cup T)
      /\ Cardinality(S \cup T) = Cardinality(S) + Cardinality(T) - Cardinality(S \cap T)
  BY FS_Union
<1> QED
  BY <1>1, <1>2, <1>3

\* The places of a frame: slots, and hands of threads.
Fronts(f) == {s \in Streams : front[s] = f}
Backs(f) == {s \in Streams : back[s] = f}
Hands(f) == {t \in Threads : OwnsRef(t, f)}
Total(f) == Bit(current = f) + Cardinality(Fronts(f)) + Cardinality(Backs(f))
              + Cardinality(Hands(f))

\* There are finitely many threads.
LEMMA Finite == IsFiniteSet(Threads)
  BY StreamsAssumption, FS_AddElement DEF Threads

\* The owners of a frame are counted place by place.
LEMMA OwnersTotal == \A f : Cardinality(Owners(f)) = Total(f)
<1> TAKE f
<1> DEFINE C == IF current = f THEN {<<"channel", 0>>} ELSE {}
           F == {"front"} \X Fronts(f)
           B == {"back"} \X Backs(f)
           H == {"thread"} \X Hands(f)
<1>1. /\ IsFiniteSet(Fronts(f)) /\ IsFiniteSet(Backs(f)) /\ IsFiniteSet(Hands(f))
      /\ Cardinality(Fronts(f)) \in Nat /\ Cardinality(Backs(f)) \in Nat
      /\ Cardinality(Hands(f)) \in Nat
  <2>1. Fronts(f) \in SUBSET Streams /\ Backs(f) \in SUBSET Streams /\ Hands(f) \in SUBSET Threads
    BY DEF Fronts, Backs, Hands
  <2> QED
    BY <2>1, StreamsAssumption, Finite, FS_Subset, FS_CardinalityType
<1>2. IsFiniteSet(C) /\ Cardinality(C) = Bit(current = f)
  BY FS_EmptySet, FS_Singleton DEF Bit
<1>3. ASSUME NEW T, IsFiniteSet(T), Cardinality(T) \in Nat, NEW a
      PROVE IsFiniteSet({a} \X T) /\ Cardinality({a} \X T) = Cardinality(T)
  <2>1. IsFiniteSet({a}) /\ Cardinality({a}) = 1
    BY FS_Singleton
  <2>2. IsFiniteSet({a} \X T) /\ Cardinality({a} \X T) = Cardinality({a}) * Cardinality(T)
    BY <1>3, <2>1, FS_Product
  <2> QED
    BY <1>3, <2>1, <2>2
<1>4. /\ IsFiniteSet(F) /\ Cardinality(F) = Cardinality(Fronts(f))
      /\ IsFiniteSet(B) /\ Cardinality(B) = Cardinality(Backs(f))
      /\ IsFiniteSet(H) /\ Cardinality(H) = Cardinality(Hands(f))
  BY <1>1, <1>3
<1>5. C \cap F = {} /\ (C \cup F) \cap B = {} /\ (C \cup F \cup B) \cap H = {}
  OBVIOUS
<1> HIDE DEF C, F, B, H
<1>6. /\ IsFiniteSet(C \cup F)
      /\ Cardinality(C \cup F) = Cardinality(C) + Cardinality(F)
  BY <1>2, <1>4, <1>5, DisjointUnion
<1>7. /\ IsFiniteSet(C \cup F \cup B)
      /\ Cardinality(C \cup F \cup B) = Cardinality(C) + Cardinality(F) + Cardinality(B)
  BY <1>4, <1>5, <1>6, DisjointUnion
<1>8. Cardinality(C \cup F \cup B \cup H)
        = Cardinality(C) + Cardinality(F) + Cardinality(B) + Cardinality(H)
  BY <1>4, <1>5, <1>7, DisjointUnion
<1>9. Owners(f) = C \cup F \cup B \cup H
  BY DEF Owners, C, F, B, H, Fronts, Backs, Hands
<1> QED
  BY <1>2, <1>4, <1>8, <1>9 DEF Total

\* How the places of a frame change with what one thread and one stream do.
LEMMA HandsChange ==
  ASSUME NEW t \in Threads, NEW f, \A u \in Threads \ {t} : hold'[u] = hold[u] /\ pc'[u] = pc[u]
  PROVE  /\ Cardinality(Hands(f)) \in Nat /\ Cardinality(Hands(f))' \in Nat
         /\ Cardinality(Hands(f))' = Cardinality(Hands(f)) - Bit(OwnsRef(t, f)) + Bit(OwnsRef(t, f)')
<1>1. Hands(f) \in SUBSET Threads /\ Hands(f)' \in SUBSET Threads
  BY DEF Hands
<1>2. \A u \in Threads \ {t} : u \in Hands(f) <=> u \in Hands(f)'
  BY DEF Hands, OwnsRef
<1>3. (t \in Hands(f) <=> OwnsRef(t, f)) /\ (t \in Hands(f)' <=> OwnsRef(t, f)')
  BY DEF Hands
<1> QED
  BY <1>1, <1>2, <1>3, Finite, OneChanges DEF Bit

\* A stream that changes its front frame is one owner more or less.
LEMMA FrontsChange ==
  ASSUME NEW s \in Streams, NEW f, \A u \in Streams \ {s} : front'[u] = front[u]
  PROVE  /\ Cardinality(Fronts(f)) \in Nat /\ Cardinality(Fronts(f))' \in Nat
         /\ Cardinality(Fronts(f))' = Cardinality(Fronts(f)) - Bit(front[s] = f) + Bit(front'[s] = f)
<1>1. Fronts(f) \in SUBSET Streams /\ Fronts(f)' \in SUBSET Streams
  BY DEF Fronts
<1>2. \A u \in Streams \ {s} : u \in Fronts(f) <=> u \in Fronts(f)'
  BY DEF Fronts
<1>3. (s \in Fronts(f) <=> front[s] = f) /\ (s \in Fronts(f)' <=> front'[s] = f)
  BY DEF Fronts
<1> QED
  BY <1>1, <1>2, <1>3, StreamsAssumption, OneChanges DEF Bit

\* So is a stream that changes its back frame.
LEMMA BacksChange ==
  ASSUME NEW s \in Streams, NEW f, \A u \in Streams \ {s} : back'[u] = back[u]
  PROVE  /\ Cardinality(Backs(f)) \in Nat /\ Cardinality(Backs(f))' \in Nat
         /\ Cardinality(Backs(f))' = Cardinality(Backs(f)) - Bit(back[s] = f) + Bit(back'[s] = f)
<1>1. Backs(f) \in SUBSET Streams /\ Backs(f)' \in SUBSET Streams
  BY DEF Backs
<1>2. \A u \in Streams \ {s} : u \in Backs(f) <=> u \in Backs(f)'
  BY DEF Backs
<1>3. (s \in Backs(f) <=> back[s] = f) /\ (s \in Backs(f)' <=> back'[s] = f)
  BY DEF Backs
<1> QED
  BY <1>1, <1>2, <1>3, StreamsAssumption, OneChanges DEF Bit

\* The sizes are numbers.
LEMMA SlotsTypes ==
  \A f : /\ Cardinality(Fronts(f)) \in Nat /\ Cardinality(Backs(f)) \in Nat
         /\ Cardinality(Hands(f)) \in Nat
<1> TAKE f
<1>1. Fronts(f) \in SUBSET Streams /\ Backs(f) \in SUBSET Streams /\ Hands(f) \in SUBSET Threads
  BY DEF Fronts, Backs, Hands
<1> QED
  BY <1>1, StreamsAssumption, Finite, FS_Subset, FS_CardinalityType

Counted == \A f \in Frames : refs[f] = Total(f)

\* One thread changes what it has in hand and the count by as much.
LEMMA HandStep ==
  ASSUME TypeOK, Counted, NEW t \in Threads,
         \A u \in Threads \ {t} : hold'[u] = hold[u] /\ pc'[u] = pc[u],
         UNCHANGED <<current, front, back>>,
         \A f \in Frames : refs'[f] = refs[f] - Bit(OwnsRef(t, f)) + Bit(OwnsRef(t, f)')
  PROVE  Counted'
<1> SUFFICES ASSUME NEW f \in Frames PROVE refs'[f] = Total(f)'
  BY DEF Counted
<1>1. Cardinality(Hands(f)) \in Nat
      /\ Cardinality(Hands(f))' = Cardinality(Hands(f)) - Bit(OwnsRef(t, f)) + Bit(OwnsRef(t, f)')
  BY HandsChange
<1>2. Fronts(f)' = Fronts(f) /\ Backs(f)' = Backs(f)
  BY DEF Fronts, Backs
<1>3. refs[f] = Total(f)
  BY DEF Counted
<1> QED
  BY <1>1, <1>2, <1>3, SlotsTypes DEF Total, Bit

\* A frame with an owner has a count.
LEMMA Owned ==
  ASSUME Counted, NEW f \in Frames
  PROVE  /\ refs[f] \in Nat
         /\ current = f => refs[f] > 0
         /\ \A s \in Streams : front[s] = f \/ back[s] = f => refs[f] > 0
         /\ \A t \in Threads : OwnsRef(t, f) => refs[f] > 0
<1>1. /\ IsFiniteSet(Fronts(f)) /\ IsFiniteSet(Backs(f)) /\ IsFiniteSet(Hands(f))
  <2>1. Fronts(f) \in SUBSET Streams /\ Backs(f) \in SUBSET Streams /\ Hands(f) \in SUBSET Threads
    BY DEF Fronts, Backs, Hands
  <2> QED
    BY <2>1, StreamsAssumption, Finite, FS_Subset
<1>2. /\ Cardinality(Fronts(f)) = 0 <=> Fronts(f) = {}
      /\ Cardinality(Backs(f)) = 0 <=> Backs(f) = {}
      /\ Cardinality(Hands(f)) = 0 <=> Hands(f) = {}
  BY <1>1, FS_EmptySet
<1>3. refs[f] = Total(f) /\ Bit(current = f) \in 0 .. 1 /\ (current = f => Bit(current = f) = 1)
  BY DEF Counted, Bit
<1>4. /\ \A s \in Streams : /\ front[s] = f => Fronts(f) # {}
                            /\ back[s] = f => Backs(f) # {}
      /\ \A t \in Threads : OwnsRef(t, f) => Hands(f) # {}
  BY DEF Fronts, Backs, Hands
<1>5. /\ \A s \in Streams : /\ front[s] = f => Cardinality(Fronts(f)) # 0
                            /\ back[s] = f => Cardinality(Backs(f)) # 0
      /\ \A t \in Threads : OwnsRef(t, f) => Cardinality(Hands(f)) # 0
  BY <1>2, <1>4, Zenon
<1>6. /\ refs[f] \in Nat
      /\ (Cardinality(Fronts(f)) # 0 \/ Cardinality(Backs(f)) # 0
            \/ Cardinality(Hands(f)) # 0 \/ current = f) => refs[f] > 0
  <2> DEFINE F == Cardinality(Fronts(f))
             B == Cardinality(Backs(f))
             H == Cardinality(Hands(f))
  <2>1. /\ F \in Nat /\ B \in Nat /\ H \in Nat
        /\ refs[f] = Bit(current = f) + F + B + H
    BY <1>3, SlotsTypes DEF Total
  <2> HIDE DEF F, B, H
  <2>2. refs[f] \in Nat /\ (F # 0 \/ B # 0 \/ H # 0 \/ current = f => refs[f] > 0)
    BY <1>3, <2>1
  <2> QED
    BY <2>2 DEF F, B, H
<1>7. ASSUME NEW s \in Streams, front[s] = f \/ back[s] = f PROVE refs[f] > 0
  BY <1>5, <1>6, <1>7
<1>8. ASSUME NEW t \in Threads, OwnsRef(t, f) PROVE refs[f] > 0
  BY <1>5, <1>6, <1>8
<1> QED
  BY <1>6, <1>7, <1>8

\* A frame that is not made yet has no owner.
LEMMA NotMade ==
  ASSUME PlacesOK, Counted, next < MaxPosts
  PROVE  next \in Frames \ freed /\ refs[next] = 0
<1>0. TypeOK /\ MadeOK
  BY DEF PlacesOK
<1>1. next \in Frames \ freed /\ current # next
  BY <1>0, Numbers, MaxPostsAssumption DEF MadeOK, Frames
<1>2. Fronts(next) = {} /\ Backs(next) = {} /\ Hands(next) = {}
  BY <1>0, Numbers DEF MadeOK, Fronts, Backs, Hands, OwnsRef
<1>3. Total(next) = 0
  BY <1>1, <1>2, FS_EmptySet DEF Total, Bit
<1> QED
  BY <1>1, <1>3 DEF Counted

\* What was given back has no count.
FreedOK == \A f \in freed : refs[f] = 0

\* An increment or decrement that nothing interleaves with, by an owner.
LEMMA CountSteps ==
  ASSUME ~Torn, TypeOK, FreedOK, NEW t \in Threads, hold[t] \in Frames, refs[hold[t]] > 0
  PROVE  /\ AddRef(t) => refs' = [refs EXCEPT ![hold[t]] = @ + 1] /\ FreedOK'
         /\ Unref(t) => refs' = [refs EXCEPT ![hold[t]] = @ - 1] /\ FreedOK'
<1>1. Count(t) = refs[hold[t]] /\ refs[hold[t]] \in Nat /\ hold[t] \notin freed
  BY DEF Count, TypeOK, FreedOK
<1>2. AddRef(t) => refs' = [refs EXCEPT ![hold[t]] = @ + 1] /\ FreedOK'
  BY <1>1 DEF AddRef, FreedOK, TypeOK
<1>3. Unref(t) => refs' = [refs EXCEPT ![hold[t]] = @ - 1] /\ FreedOK'
  BY <1>1 DEF Unref, FreedOK, TypeOK
<1> QED
  BY <1>2, <1>3

CountsOK == Counted /\ FreedOK

\* Every step changes the owners of a frame and its count by the same.
LEMMA CountsStep ==
  ASSUME ~Torn, PlacesOK, CountsOK, [Next]_vars
  PROVE  CountsOK'
<1>0. TypeOK /\ PlacesOK' /\ HoldsOK /\ ViewOK /\ BackOK /\ Counted /\ FreedOK
  BY PlacesStep DEF PlacesOK, CountsOK
<1> USE <1>0, MainIsThread DEF CountsOK, Goto, Hold, Lock, Unlock, channelVars, countVars, streamVars, viewVars
<1>1. CASE PostGarbage
  <2>1. UNCHANGED <<refs, freed, current, front, back, hold, pc>>
    BY <1>1 DEF PostGarbage
  <2>2. FreedOK'
    BY <2>1 DEF FreedOK
  <2>3. \A f \in Frames : refs'[f] = refs[f] - Bit(OwnsRef(Main, f)) + Bit(OwnsRef(Main, f)')
    BY <2>1 DEF OwnsRef, Bit, TypeOK
  <2>4. Counted'
    BY <2>1, <2>3, HandStep
  <2> QED
    BY <2>2, <2>4
<1>2. CASE PostImage
  <2>1. /\ next < MaxPosts /\ refs' = [refs EXCEPT ![next] = 1]
        /\ hold' = [hold EXCEPT ![Main] = next] /\ pc' = [pc EXCEPT ![Main] = "publish"]
        /\ pc[Main] = "idle"
        /\ UNCHANGED <<current, front, back, freed>>
    BY <1>2 DEF PostImage
  <2>2. next \in Frames \ freed /\ refs[next] = 0
    BY <2>1, NotMade
  <2>3. FreedOK'
    BY <2>1, <2>2 DEF FreedOK, TypeOK
  <2>4. \A f \in Frames : refs'[f] = refs[f] - Bit(OwnsRef(Main, f)) + Bit(OwnsRef(Main, f)')
    BY <2>1, <2>2 DEF OwnsRef, Bit, TypeOK
  <2>5. \A u \in Threads \ {Main} : hold'[u] = hold[u] /\ pc'[u] = pc[u]
    BY <2>1 DEF TypeOK
  <2>6. Counted'
    BY <2>1, <2>4, <2>5, HandStep
  <2> QED
    BY <2>3, <2>6
<1>3. ASSUME NEW t \in Threads, Gets(t) PROVE CountsOK'
  <2>1. /\ \A u \in Threads \ {t} : hold'[u] = hold[u] /\ pc'[u] = pc[u]
        /\ pc[t] \in {"idle", "fetch"} /\ pc'[t] \in {"idle", "get"}
        /\ UNCHANGED <<refs, freed, current, front, back>>
    BY <1>3 DEF Gets, GetLock, TypeOK
  <2>2. \A f \in Frames : refs'[f] = refs[f] - Bit(OwnsRef(t, f)) + Bit(OwnsRef(t, f)')
    BY <2>1 DEF OwnsRef, Bit, TypeOK
  <2>3. Counted'
    BY <2>1, <2>2, HandStep
  <2> QED
    BY <2>1, <2>3 DEF FreedOK
<1>4. ASSUME NEW t \in Threads, GetRef(t) PROVE CountsOK'
  <2>1. /\ \A u \in Threads \ {t} : hold'[u] = hold[u] /\ pc'[u] = pc[u]
        /\ pc[t] = "get" /\ pc'[t] = "got" /\ hold'[t] = hold[t]
        /\ UNCHANGED <<current, front, back>>
    BY <1>4 DEF GetRef, TypeOK
  <2>2. hold[t] \in Frames /\ refs[hold[t]] > 0
    BY <2>1, HasFrame, Owned DEF HoldsOK
  <2>3. refs' = [refs EXCEPT ![hold[t]] = @ + 1] /\ FreedOK'
    BY <1>4, <2>2, CountSteps DEF GetRef
  <2>4. \A f \in Frames : refs'[f] = refs[f] - Bit(OwnsRef(t, f)) + Bit(OwnsRef(t, f)')
    BY <2>1, <2>2, <2>3 DEF OwnsRef, Bit, TypeOK
  <2>5. Counted'
    BY <2>1, <2>4, HandStep
  <2> QED
    BY <2>3, <2>5
<1>5. ASSUME NEW t \in Threads, UnrefLocks(t) PROVE CountsOK'
  <2>1. /\ \A u \in Threads \ {t} : hold'[u] = hold[u] /\ pc'[u] = pc[u]
        /\ pc[t] \in {"got", "cleared", "stale"} /\ pc'[t] \in {"drop", "reject"}
        /\ hold'[t] = hold[t]
        /\ UNCHANGED <<refs, freed, current, front, back>>
    BY <1>5 DEF UnrefLocks, UnrefLock, TypeOK
  <2>2. \A f \in Frames : refs'[f] = refs[f] - Bit(OwnsRef(t, f)) + Bit(OwnsRef(t, f)')
    BY <2>1 DEF OwnsRef, Bit, TypeOK
  <2>3. Counted'
    BY <2>1, <2>2, HandStep
  <2> QED
    BY <2>1, <2>3 DEF FreedOK
<1>6. ASSUME NEW t \in Threads, Unrefs(t) PROVE CountsOK'
  <2>1. /\ \A u \in Threads \ {t} : hold'[u] = hold[u] /\ pc'[u] = pc[u]
        /\ pc[t] \in {"drop", "reject"} /\ pc'[t] \in {"idle", "fetch"} /\ hold'[t] = hold[t]
        /\ UNCHANGED <<current, front, back>>
    BY <1>6 DEF Unrefs, DropRef, Reject, TypeOK
  <2>2. hold[t] \in Frames /\ refs[hold[t]] > 0
    BY <2>1, HasFrame, Owned DEF OwnsRef
  <2>3. refs' = [refs EXCEPT ![hold[t]] = @ - 1] /\ FreedOK'
    BY <1>6, <2>2, CountSteps DEF Unrefs, DropRef, Reject
  <2>4. \A f \in Frames : refs'[f] = refs[f] - Bit(OwnsRef(t, f)) + Bit(OwnsRef(t, f)')
    BY <2>1, <2>2, <2>3 DEF OwnsRef, Bit, TypeOK
  <2>5. Counted'
    BY <2>1, <2>4, HandStep
  <2> QED
    BY <2>3, <2>5
<1>7. ASSUME NEW s \in Streams, View(s) PROVE CountsOK'
  <2>1. /\ \A u \in Threads \ {Main} : hold'[u] = hold[u] /\ pc'[u] = pc[u]
        /\ pc[Main] = "idle" /\ pc'[Main] = "view"
        /\ UNCHANGED <<refs, freed, current, front, back>>
    BY <1>7 DEF View, TypeOK
  <2>2. \A f \in Frames : refs'[f] = refs[f] - Bit(OwnsRef(Main, f)) + Bit(OwnsRef(Main, f)')
    BY <2>1 DEF OwnsRef, Bit, TypeOK
  <2>3. Counted'
    BY <2>1, <2>2, HandStep
  <2> QED
    BY <2>1, <2>3 DEF FreedOK
<1>8. CASE ViewRef
  <2>1. /\ \A u \in Threads \ {Main} : hold'[u] = hold[u] /\ pc'[u] = pc[u]
        /\ pc[Main] = "view" /\ pc'[Main] = "copied" /\ hold'[Main] = hold[Main]
        /\ UNCHANGED <<current, front, back>>
    BY <1>8 DEF ViewRef, TypeOK
  <2>2. hold[Main] \in Frames /\ refs[hold[Main]] > 0
    BY <2>1, HasFrame, Owned DEF ViewOK, Viewing
  <2>3. refs' = [refs EXCEPT ![hold[Main]] = @ + 1] /\ FreedOK'
    BY <1>8, <2>2, CountSteps DEF ViewRef
  <2>4. \A f \in Frames : refs'[f] = refs[f] - Bit(OwnsRef(Main, f)) + Bit(OwnsRef(Main, f)')
    BY <2>1, <2>2, <2>3 DEF OwnsRef, Bit, TypeOK
  <2>5. Counted'
    BY <2>1, <2>4, HandStep
  <2> QED
    BY <2>3, <2>5
<1>9. CASE ViewUnref
  <2>1. /\ \A u \in Threads \ {Main} : hold'[u] = hold[u] /\ pc'[u] = pc[u]
        /\ pc[Main] = "copied" /\ pc'[Main] = "draw" /\ hold'[Main] = hold[Main]
        /\ UNCHANGED <<current, front, back>>
    BY <1>9 DEF ViewUnref, TypeOK
  <2>2. hold[Main] \in Frames /\ refs[hold[Main]] > 0
    BY <2>1, HasFrame, Owned DEF OwnsRef
  <2>3. refs' = [refs EXCEPT ![hold[Main]] = @ - 1] /\ FreedOK'
    BY <1>9, <2>2, CountSteps DEF ViewUnref
  <2>4. \A f \in Frames : refs'[f] = refs[f] - Bit(OwnsRef(Main, f)) + Bit(OwnsRef(Main, f)')
    BY <2>1, <2>2, <2>3 DEF OwnsRef, Bit, TypeOK
  <2>5. Counted'
    BY <2>1, <2>4, HandStep
  <2> QED
    BY <2>3, <2>5
<1>10. CASE Draw
  <2>1. /\ \A u \in Threads \ {Main} : hold'[u] = hold[u] /\ pc'[u] = pc[u]
        /\ pc[Main] = "draw" /\ pc'[Main] = "idle"
        /\ UNCHANGED <<refs, freed, current, front, back>>
    BY <1>10 DEF Draw, TypeOK
  <2>2. \A f \in Frames : refs'[f] = refs[f] - Bit(OwnsRef(Main, f)) + Bit(OwnsRef(Main, f)')
    BY <2>1 DEF OwnsRef, Bit, TypeOK
  <2>3. Counted'
    BY <2>1, <2>2, HandStep
  <2> QED
    BY <2>1, <2>3 DEF FreedOK
<1>11. ASSUME NEW s \in Streams, Put(s) \/ Clear(s) \/ Check(s) \/ Predict(s) PROVE CountsOK'
  <2>1. /\ \A u \in Threads \ {s} : hold'[u] = hold[u] /\ pc'[u] = pc[u]
        /\ \/ pc[s] \in {"old", "put", "got"} /\ pc'[s] \in {"cleared", "put", "stale", "fresh"}
           \/ pc[s] = "predict" /\ pc'[s] = "swap"
        /\ hold'[s] = hold[s]
        /\ UNCHANGED <<refs, freed, current, front, back>>
    BY <1>11 DEF Put, Clear, Check, Predict, TypeOK
  <2>2. \A f \in Frames : refs'[f] = refs[f] - Bit(OwnsRef(s, f)) + Bit(OwnsRef(s, f)')
    BY <2>1 DEF OwnsRef, Bit, TypeOK
  <2>3. Counted'
    BY <2>1, <2>2, HandStep
  <2> QED
    BY <2>1, <2>3 DEF FreedOK
<1>12. CASE Publish
  <2>1. /\ \A u \in Threads \ {Main} : hold'[u] = hold[u] /\ pc'[u] = pc[u]
        /\ pc[Main] = "publish" /\ hold'[Main] = current /\ current' = hold[Main]
        /\ pc'[Main] = (IF current = NoFrame THEN "idle" ELSE "drop")
        /\ UNCHANGED <<refs, freed, front, back>>
    BY <1>12 DEF Publish, TypeOK
  <2>2. NoFrame \notin Frames
    BY DEF NoFrame, Frames
  <2>3. ASSUME NEW f \in Frames PROVE refs'[f] = Total(f)'
    <3>1. /\ Cardinality(Hands(f)) \in Nat
          /\ Cardinality(Hands(f))'
               = Cardinality(Hands(f)) - Bit(OwnsRef(Main, f)) + Bit(OwnsRef(Main, f)')
      BY <2>1, HandsChange
    <3>2. Bit(OwnsRef(Main, f)) = Bit(current' = f) /\ Bit(OwnsRef(Main, f)') = Bit(current = f)
      BY <2>1, <2>2 DEF OwnsRef, Bit
    <3>3. Fronts(f)' = Fronts(f) /\ Backs(f)' = Backs(f)
      BY <2>1 DEF Fronts, Backs
    <3>4. refs[f] = Total(f) /\ refs'[f] = refs[f]
      BY <2>1 DEF Counted
    <3> QED
      BY <3>1, <3>2, <3>3, <3>4, SlotsTypes DEF Total, Bit
  <2>4. FreedOK'
    BY <2>1 DEF FreedOK
  <2> QED
    BY <2>3, <2>4 DEF Counted
<1>13. ASSUME NEW s \in Streams, Round(s) \/ Take(s) PROVE CountsOK'
  <2>1. /\ \A u \in Threads \ {s} : hold'[u] = hold[u] /\ pc'[u] = pc[u]
        /\ \A u \in Streams \ {s} : back'[u] = back[u]
        /\ UNCHANGED <<refs, freed, current, front>>
    BY <1>13 DEF Round, Take, TypeOK
  <2>2. NoFrame \notin Frames
    BY DEF NoFrame, Frames
  <2>3. ASSUME NEW f \in Frames
        PROVE  Bit(OwnsRef(s, f)') - Bit(OwnsRef(s, f)) = Bit(back[s] = f) - Bit(back'[s] = f)
    <3>1. CASE Round(s)
      <4>1. /\ pc[s] = "idle" /\ hold'[s] = back[s] /\ back'[s] = NoFrame
            /\ pc'[s] = (IF back[s] = NoFrame THEN "fetch" ELSE "old")
        BY <3>1 DEF Round, TypeOK
      <4> QED
        BY <4>1, <2>2 DEF OwnsRef, Bit
    <3>2. CASE Take(s)
      <4>1. /\ pc[s] = "fresh" /\ hold'[s] = hold[s] /\ back'[s] = hold[s]
            /\ pc'[s] = "predict" /\ back[s] = NoFrame
        BY <3>2 DEF Take, TypeOK, BackOK, Emptied
      <4> QED
        BY <4>1, <2>2 DEF OwnsRef, Bit
    <3> QED
      BY <1>13, <3>1, <3>2
  <2>4. ASSUME NEW f \in Frames PROVE refs'[f] = Total(f)'
    <3>1. /\ Cardinality(Hands(f)) \in Nat
          /\ Cardinality(Hands(f))'
               = Cardinality(Hands(f)) - Bit(OwnsRef(s, f)) + Bit(OwnsRef(s, f)')
      BY <2>1, HandsChange
    <3>2. /\ Cardinality(Backs(f)) \in Nat
          /\ Cardinality(Backs(f))'
               = Cardinality(Backs(f)) - Bit(back[s] = f) + Bit(back'[s] = f)
      BY <2>1, BacksChange
    <3>3. Fronts(f)' = Fronts(f)
      BY <2>1 DEF Fronts
    <3>4. refs[f] = Total(f) /\ refs'[f] = refs[f]
      BY <2>1 DEF Counted
    <3> QED
      BY <2>1, <2>3, <3>1, <3>2, <3>3, <3>4, SlotsTypes DEF Total, Bit
  <2>5. FreedOK'
    BY <2>1 DEF FreedOK
  <2> QED
    BY <2>4, <2>5 DEF Counted
<1>14. ASSUME NEW s \in Streams, Swap(s) PROVE CountsOK'
  <2>1. /\ \A u \in Threads \ {s} : hold'[u] = hold[u] /\ pc'[u] = pc[u]
        /\ \A u \in Streams \ {s} : front'[u] = front[u] /\ back'[u] = back[u]
        /\ front'[s] = back[s] /\ back'[s] = front[s]
        /\ pc[s] = "swap" /\ pc'[s] = "idle"
        /\ UNCHANGED <<refs, freed, current>>
    BY <1>14 DEF Swap, TypeOK
  <2>2. ASSUME NEW f \in Frames PROVE refs'[f] = Total(f)'
    <3>1. Cardinality(Hands(f))'
            = Cardinality(Hands(f)) - Bit(OwnsRef(s, f)) + Bit(OwnsRef(s, f)')
      BY <2>1, HandsChange
    <3>2. Bit(OwnsRef(s, f)) = 0 /\ Bit(OwnsRef(s, f)') = 0
      BY <2>1 DEF OwnsRef, Bit
    <3>3. Cardinality(Backs(f))' = Cardinality(Backs(f)) - Bit(back[s] = f) + Bit(front[s] = f)
      BY <2>1, BacksChange
    <3>4. Cardinality(Fronts(f))' = Cardinality(Fronts(f)) - Bit(front[s] = f) + Bit(back[s] = f)
      BY <2>1, FrontsChange
    <3>5. refs[f] = Total(f) /\ refs'[f] = refs[f]
      BY <2>1 DEF Counted
    <3> QED
      BY <2>1, <3>1, <3>2, <3>3, <3>4, <3>5, SlotsTypes DEF Total, Bit
  <2>3. FreedOK'
    BY <2>1 DEF FreedOK
  <2> QED
    BY <2>2, <2>3 DEF Counted
<1>15. CASE UNCHANGED vars
  <2>1. UNCHANGED <<refs, freed, current, front, back, hold, pc>>
    BY <1>15 DEF vars
  <2>2. \A f \in Frames : refs'[f] = refs[f] - Bit(OwnsRef(Main, f)) + Bit(OwnsRef(Main, f)')
    BY <2>1 DEF OwnsRef, Bit, TypeOK
  <2>3. Counted'
    BY <2>1, <2>2, HandStep
  <2> QED
    BY <2>1, <2>3 DEF FreedOK
<1> QED
  BY <1>1, <1>2, <1>3, <1>4, <1>5, <1>6, <1>7, <1>8, <1>9, <1>10, <1>11, <1>12, <1>13, <1>14,
     <1>15, StepGroups DEF Serves, Draws, Prepares, Shows

\* No frame is counted before it is made.
LEMMA InitCounts == Init => CountsOK
<1> SUFFICES ASSUME Init PROVE CountsOK
  OBVIOUS
<1>1. NoFrame \notin Frames
  BY DEF NoFrame, Frames
<1>2. ASSUME NEW f \in Frames PROVE refs[f] = Total(f)
  <2>1. Fronts(f) = {} /\ Backs(f) = {} /\ Hands(f) = {} /\ current # f /\ refs[f] = 0
    BY <1>1 DEF Init, Fronts, Backs, Hands, OwnsRef
  <2> QED
    BY <2>1, FS_EmptySet DEF Total, Bit
<1> QED
  BY <1>2 DEF Init, CountsOK, Counted, FreedOK

\* In a build whose increments and decrements do not interleave the count of every
\* frame is the number of its owners, whatever the main thread, the streams and the
\* viewer do, and a frame is given back with its last owner.
THEOREM CountsAreOwners == ~Torn => (Spec => []RefsCountOwners)
<1> SUFFICES ASSUME ~Torn PROVE Spec => []RefsCountOwners
  OBVIOUS
<1>1. PlacesOK /\ CountsOK /\ [Next]_vars => CountsOK'
  BY CountsStep
<1>2. PlacesOK /\ CountsOK => RefsCountOwners
  BY OwnersTotal DEF CountsOK, Counted, FreedOK, RefsCountOwners
<1> QED
  BY <1>1, <1>2, InitCounts, AlwaysPlaces, PTL DEF Spec

\* In such a build the viewer never works on a frame that was given back, although
\* it counts without the mutex: the slot it took the frame from still owns it.
THEOREM DrawsLiveFrames == ~Torn => (Spec => []ShownFrameIsLive)
<1> SUFFICES ASSUME ~Torn PROVE Spec => []ShownFrameIsLive
  OBVIOUS
<1>1. PlacesOK /\ CountsOK /\ [Next]_vars => CountsOK'
  BY CountsStep
<1>2. ASSUME PlacesOK, CountsOK PROVE ShownFrameIsLive
  <2> SUFFICES ASSUME Viewing PROVE hold[Main] \notin freed
    BY DEF ShownFrameIsLive, Viewing
  <2>1. drawing \in Streams /\ front[drawing] = hold[Main] /\ hold[Main] \in Frames
    BY <1>2, MainIsThread, HasFrame DEF PlacesOK, ViewOK, Viewing
  <2>2. refs[hold[Main]] > 0
    BY <1>2, <2>1, Owned DEF CountsOK
  <2> QED
    BY <1>2, <2>2 DEF CountsOK, FreedOK
<1> QED
  BY <1>1, <1>2, InitCounts, AlwaysPlaces, PTL DEF Spec
=============================================================================
