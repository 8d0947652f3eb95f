------------------------- MODULE DeviceStreamProofs -------------------------
(***************************************************************************)
(* The safety of the hand-over from the streaming thread, for any number   *)
(* of samples and errors: it never meets a main thread that waits for it   *)
(* with video->mutex held, its frame stays the current one while it is in  *)
(* the callback, and the busy flag keeps the one frame there is room for.  *)
(***************************************************************************)
EXTENDS DeviceStream, TLAPS

Quiet == spc \in {"none", "ended"}

\* The pipeline is only restarted when its streaming thread has ended: an end of
\* stream is on the bus, or restarts is set, or a restart under way, at most one
\* of the three, and none with a thread that runs.
RestartInv ==
  /\ at \in {"idle", "stop", "launch", "play", "relaunch", "start"}
  /\ restarts \in 0 .. 1
  /\ eos \in BOOLEAN /\ pipeline \in BOOLEAN
  /\ spc \in {"none", "run", "swap", "callback", "take", "ended"}
  /\ eos => spc = "ended"
  /\ restarts > 0 => Quiet /\ ~eos
  /\ at \in {"launch", "play", "relaunch", "start"} => Quiet /\ ~eos /\ restarts = 0
  /\ at \in {"play", "relaunch", "start"} => pipeline
  /\ ~pipeline /\ at # "stop" => spc = "none"
  /\ CallbackFrameIsCurrent

\* The worker is busy from the hand-over to the release of its frame.
BusyInv ==
  /\ wpc \in {"new", "wait", "woken", "request", "post", "release", "again"}
  /\ busy \in BOOLEAN
  /\ taken \in Nat /\ finished \in Nat
  /\ wpc \in {"woken", "request", "post", "release"} => busy
  /\ spc = "take" => ~busy
  /\ TakenOnce

\* The device starts with a pipeline that plays nothing yet.
LEMMA InitRestartInv == Init => RestartInv
<1> SUFFICES ASSUME Init PROVE RestartInv
  OBVIOUS
<1>1. /\ at = "play" /\ restarts = 0 /\ spc = "none"
      /\ eos \in BOOLEAN /\ ~eos /\ pipeline \in BOOLEAN /\ pipeline
  BY DEF Init
<1> QED
  BY <1>1 DEF RestartInv, Quiet, CallbackFrameIsCurrent

\* Every step of the device keeps the restarts and the streaming thread apart.
LEMMA NextRestartInv == RestartInv /\ [Next]_vars => RestartInv'
<1> SUFFICES ASSUME RestartInv, [Next]_vars PROVE RestartInv'
  OBVIOUS
<1> USE DEF RestartInv, Quiet, CallbackFrameIsCurrent
<1>1. CASE Sample
  BY <1>1 DEF Sample, loopVars, videoVars
<1>2. CASE Swap
  BY <1>2 DEF Swap, loopVars
<1>3. CASE Callback
  BY <1>3 DEF Callback, loopVars, videoVars
<1>4. CASE Take
  BY <1>4 DEF Take, loopVars, videoVars
<1>5. CASE Ends
  BY <1>5 DEF Ends, videoVars
<1>6. CASE Fails
  BY <1>6 DEF Fails, videoVars, streamVars
<1>7. CASE Worker
  BY <1>7 DEF Worker, WorkerWaits, Wake, Request, Post, Release, loopVars, videoVars, streamVars
<1>8. CASE Show
  BY <1>8 DEF Show, loopVars, videoVars, streamVars
<1>9. CASE OnEos
  <2>1. /\ spc = "ended" /\ restarts = 0
    BY <1>9 DEF OnEos
  <2>2. /\ at = "idle" /\ eos' \in BOOLEAN /\ ~eos' /\ restarts' = restarts + 1
        /\ UNCHANGED <<at, spc, pipeline>>
    BY <1>9 DEF OnEos, videoVars, streamVars
  <2> QED
    BY <2>1, <2>2
<1>10. CASE OnError
  BY <1>10 DEF OnError, streamVars
<1>11. CASE Restart
  <2>1. restarts = 1 /\ Quiet /\ ~eos
    BY <1>11 DEF Restart
  <2>2. at' = "launch" /\ restarts' = restarts - 1 /\ UNCHANGED <<eos, spc, pipeline>>
    BY <1>11 DEF Restart, streamVars
  <2>3. ~pipeline => spc = "none"
    BY <1>11 DEF Restart
  <2> QED
    BY <2>1, <2>2, <2>3
<1>12. CASE StopAfterError
  <2>1. /\ spc' = "none" /\ eos' \in BOOLEAN /\ ~eos' /\ at' = "idle"
        /\ UNCHANGED <<restarts, pipeline>>
    BY <1>12 DEF StopAfterError, Stopped, videoVars
  <2> QED
    BY <2>1
<1>13. CASE Launch
  <2>1. /\ at' = "play" /\ restarts' = 0 /\ pipeline' \in BOOLEAN /\ pipeline'
    BY <1>13 DEF Launch, LaunchPipeline
  <2>2. spc' \in {"none", "ended"} /\ eos' \in BOOLEAN /\ ~eos'
    BY <1>13 DEF Launch, LaunchPipeline, Stopped
  <2> QED
    BY <2>1, <2>2
<1>14. CASE Play
  BY <1>14 DEF Play, Settings, streamVars
<1>15. CASE Relaunch
  <2>1. /\ at' = "start" /\ restarts' = 0 /\ pipeline' \in BOOLEAN /\ pipeline'
    BY <1>15 DEF Relaunch, LaunchPipeline
  <2>2. spc' \in {"none", "ended"} /\ eos' \in BOOLEAN /\ ~eos'
    BY <1>15 DEF Relaunch, LaunchPipeline, Stopped
  <2> QED
    BY <2>1, <2>2
<1>16. CASE Start
  BY <1>16 DEF Start, videoVars
<1>17. CASE UNCHANGED vars
  BY <1>17 DEF vars, loopVars, videoVars, streamVars
<1> QED
  BY <1>1, <1>2, <1>3, <1>4, <1>5, <1>6, <1>7, <1>8, <1>9, <1>10, <1>11, <1>12, <1>13,
     <1>14, <1>15, <1>16, <1>17 DEF Next, Stream, Loop, Restarting

\* The frame in the callback of the streaming thread, which holds no reference,
\* is the current frame of the source until the callback returns.
THEOREM CallbackKeepsFrame == Spec => []CallbackFrameIsCurrent
<1>1. RestartInv => CallbackFrameIsCurrent
  BY DEF RestartInv
<1> QED
  BY <1>1, InitRestartInv, NextRestartInv, PTL DEF Spec

\* The main thread never stops a pipeline, with video->mutex held, while its
\* streaming thread waits for video->mutex.
THEOREM NeverWaitCycle == Spec => []NoWaitCycle
<1>1. RestartInv => NoWaitCycle
  BY DEF RestartInv, Quiet, NoWaitCycle, VideoLocked
<1> QED
  BY <1>1, InitRestartInv, NextRestartInv, PTL DEF Spec

-----------------------------------------------------------------------------
\* Nothing has been handed over when the device starts.
LEMMA InitBusyInv == Init => BusyInv
<1> SUFFICES ASSUME Init PROVE BusyInv
  OBVIOUS
<1>1. /\ wpc = "new" /\ spc = "none" /\ taken = 0 /\ finished = 0
      /\ busy \in BOOLEAN /\ ~busy
  BY DEF Init
<1> QED
  BY <1>1 DEF BusyInv, TakenOnce

\* Only the streaming thread sets busy, only the worker clears it.
LEMMA NextBusyInv == BusyInv /\ [Next]_vars => BusyInv'
<1> SUFFICES ASSUME BusyInv, [Next]_vars PROVE BusyInv'
  OBVIOUS
<1> USE DEF BusyInv, TakenOnce
<1>1. CASE Sample \/ Swap \/ Callback
  BY <1>1 DEF Sample, Swap, Callback, workVars
<1>2. CASE Take
  BY <1>2 DEF Take, Signalled, CondLocked
<1>3. CASE Ends \/ Fails
  BY <1>3 DEF Ends, Fails, workVars, streamVars
<1>4. CASE WorkerWaits \/ Wake \/ Request \/ Post
  BY <1>4 DEF WorkerWaits, Wake, Request, Post, streamVars
<1>5. CASE Release
  <2>1. /\ wpc = "release" /\ wpc' = "again" /\ finished' = finished + 1
        /\ busy' \in BOOLEAN /\ ~busy' /\ UNCHANGED <<taken, spc>>
    BY <1>5 DEF Release, streamVars
  <2> QED
    BY <2>1
<1>6. CASE Loop
  <2>1. UNCHANGED <<wpc, busy, taken, finished, spc>>
    BY <1>6 DEF Loop, Show, OnEos, OnError, Restart, workVars, streamVars
  <2> QED
    BY <2>1
<1>7. CASE Restarting
  BY <1>7 DEF Restarting, StopAfterError, Launch, Play, Relaunch, Start, LaunchPipeline, Stopped,
     workVars, streamVars
<1>8. CASE UNCHANGED vars
  BY <1>8 DEF vars, workVars, streamVars
<1> QED
  BY <1>1, <1>2, <1>3, <1>4, <1>5, <1>6, <1>7, <1>8 DEF Next, Stream, Worker

\* No frame is overwritten before the worker has taken and finished it, although
\* busy is tested without the mutex it is set under.
THEOREM WorkedOnce == Spec => []TakenOnce
<1>1. BusyInv => TakenOnce
  BY DEF BusyInv
<1> QED
  BY <1>1, InitBusyInv, NextBusyInv, PTL DEF Spec

-----------------------------------------------------------------------------
\* The queue of the main loop.
Holds(q, s) == \E i \in DOMAIN q : q[i] = s
Increasing(q) == \A i, j \in DOMAIN q : i < j => q[i] < q[j]

\* A copy newer than all that wait goes to the end (app.c:120-130).
LEMMA AppendFacts ==
  ASSUME NEW q \in Seq(Samples), NEW f \in Samples, Increasing(q),
         \A i \in DOMAIN q : q[i] < f
  PROVE  /\ Append(q, f) \in Seq(Samples)
         /\ Increasing(Append(q, f))
         /\ \A s : Holds(Append(q, f), s) <=> Holds(q, s) \/ s = f
         /\ \A i \in DOMAIN Append(q, f) : Append(q, f)[i] <= f
<1> DEFINE r == Append(q, f)
<1>0. \A i \in DOMAIN q : q[i] \in Nat
  <2>1. \A s \in Samples : s \in Nat
    BY BoundsAssumption DEF Samples
  <2>2. \A i \in DOMAIN q : q[i] \in Samples
    OBVIOUS
  <2> QED BY <2>1, <2>2
<1>1. /\ Len(q) \in Nat /\ DOMAIN q = 1 .. Len(q) /\ Len(r) = Len(q) + 1
      /\ r \in Seq(Samples) /\ DOMAIN r = 1 .. Len(q) + 1
  OBVIOUS
<1>2. \A i \in 1 .. Len(q) : r[i] = q[i] /\ i \in DOMAIN r
  BY <1>1
<1>3. r[Len(q) + 1] = f /\ Len(q) + 1 \in DOMAIN r
  BY <1>1
<1>4. \A i \in DOMAIN r : i \in 1 .. Len(q) \/ i = Len(q) + 1
  BY <1>1
<1>5. \A s : Holds(r, s) <=> Holds(q, s) \/ s = f
  <2> HIDE DEF r
  <2> QED BY <1>1, <1>2, <1>3, <1>4 DEF Holds
<1>6. \A i \in DOMAIN r : r[i] <= f
  <2>0. f \in Nat /\ f <= f
    BY BoundsAssumption DEF Samples
  <2> HIDE DEF r
  <2>1. \A i \in DOMAIN q : q[i] <= f
    BY <1>0, <2>0
  <2> QED BY <2>0, <1>1, <1>2, <1>3, <1>4, <2>1
<1>7. Increasing(r)
  <2> HIDE DEF r
  <2> SUFFICES ASSUME NEW i \in DOMAIN r, NEW j \in DOMAIN r, i < j PROVE r[i] < r[j]
    BY DEF Increasing
  <2>1. i \in 1 .. Len(q)
    BY <1>1
  <2>2. CASE j \in 1 .. Len(q)
    BY <1>1, <1>2, <2>1, <2>2 DEF Increasing
  <2>3. CASE j = Len(q) + 1
    BY <1>1, <1>2, <1>3, <2>1, <2>3
  <2> QED BY <1>4, <2>2, <2>3
<1> QED BY <1>1, <1>5, <1>6, <1>7

\* The oldest copy leaves the queue, and leaves nothing of itself in it (app.c:102-118).
LEMMA TailFacts ==
  ASSUME NEW q \in Seq(Samples), q # <<>>, Increasing(q)
  PROVE  /\ Tail(q) \in Seq(Samples) /\ Head(q) \in Samples
         /\ Holds(q, Head(q))
         /\ Increasing(Tail(q))
         /\ \A s : Holds(Tail(q), s) <=> Holds(q, s) /\ s # Head(q)
         /\ \A i \in DOMAIN Tail(q) : Head(q) < Tail(q)[i] /\ Holds(q, Tail(q)[i])
<1> DEFINE t == Tail(q)
<1>0. \A i \in DOMAIN q : q[i] \in Nat
  <2>1. \A s \in Samples : s \in Nat
    BY BoundsAssumption DEF Samples
  <2>2. \A i \in DOMAIN q : q[i] \in Samples
    OBVIOUS
  <2> QED BY <2>1, <2>2
<1>1. /\ Len(q) \in Nat /\ Len(q) >= 1 /\ DOMAIN q = 1 .. Len(q)
      /\ t \in Seq(Samples) /\ Len(t) = Len(q) - 1 /\ DOMAIN t = 1 .. Len(q) - 1
  OBVIOUS
<1>2. Head(q) = q[1] /\ q[1] \in Samples /\ 1 \in DOMAIN q
  BY <1>1
<1>3. \A i \in DOMAIN t : t[i] = q[i + 1] /\ i + 1 \in DOMAIN q /\ 1 < i + 1
  BY <1>1
<1>4. \A i \in DOMAIN q : i = 1 \/ (i - 1 \in DOMAIN t /\ t[i - 1] = q[i])
  BY <1>1
<1>5. \A i \in DOMAIN t : q[1] < t[i] /\ Holds(q, t[i])
  <2> HIDE DEF t
  <2> QED BY <1>2, <1>3 DEF Increasing, Holds
<1>6. \A i \in DOMAIN t : t[i] # q[1]
  <2> HIDE DEF t
  <2>1. ASSUME NEW i \in DOMAIN t PROVE t[i] # q[1]
    <3>1. t[i] \in Nat /\ q[1] \in Nat /\ q[1] < t[i]
      BY <1>0, <1>2, <1>3, <1>5
    <3> QED BY <3>1
  <2> QED BY <2>1
<1>7. \A s : Holds(t, s) <=> Holds(q, s) /\ s # q[1]
  <2> HIDE DEF t
  <2> QED BY <1>2, <1>4, <1>5, <1>6 DEF Holds
<1>8. Increasing(t)
  <2> HIDE DEF t
  <2> SUFFICES ASSUME NEW i \in DOMAIN t, NEW j \in DOMAIN t, i < j PROVE t[i] < t[j]
    BY DEF Increasing
  <2>1. i + 1 < j + 1
    BY <1>1
  <2> QED BY <1>3, <2>1 DEF Increasing
<1> QED BY <1>1, <1>2, <1>5, <1>7, <1>8 DEF Holds

\* Copies are handed over, worked on, queued and shown in the order of their
\* samples, each of them once: the queue holds no copy twice, and not the one the
\* worker has still to queue.
Numbered ==
  /\ samples \in 0 .. MaxSamples /\ sample \in 0 .. samples
  /\ frame \in 0 .. sample /\ taken \in 0 .. frame
  /\ current \in 0 .. MaxSamples
  /\ spc \in {"swap", "callback", "take"} => frame < sample
  /\ busy => frame > 0

Queued ==
  /\ updates \in Seq(Samples) /\ Increasing(updates)
  /\ \A i \in DOMAIN updates : updates[i] <= frame
  /\ wpc \in {"woken", "request", "post"} => ~Holds(updates, frame)
  /\ shown \in 0 .. frame
  /\ \A i \in DOMAIN updates : shown <= updates[i]

One(b) == IF b THEN 1 ELSE 0

Counted ==
  /\ refs \in [Samples -> 0 .. 2]
  /\ \A s \in Samples : refs[s] = One(busy /\ frame = s) + One(Holds(updates, s))

CopyInv == BusyInv /\ Numbered /\ Queued /\ Counted

\* The steps of all threads that leave the copies alone.
LeavesCopies ==
  /\ UNCHANGED <<updates, shown, refs, taken, frame, busy, sample, samples>>
  /\ current' \in {current, sample, 0}
  /\ spc' \in {"swap", "callback", "take"} => spc \in {"swap", "callback", "take"}
  /\ wpc' \in {"woken", "request", "post"} => wpc \in {"woken", "request", "post"}

\* They are these.
LEMMA LeavesCopiesStep ==
  ASSUME \/ Swap \/ Callback \/ Ends \/ Fails \/ WorkerWaits \/ Wake \/ Request
         \/ OnEos \/ OnError \/ Restart \/ Restarting \/ UNCHANGED vars
  PROVE  LeavesCopies
<1>1. CASE Swap \/ Callback \/ Ends \/ Fails
  BY <1>1 DEF Swap, Callback, Ends, Fails, LeavesCopies, loopVars, showVars, videoVars,
     streamVars, workVars
<1>2. CASE WorkerWaits \/ Wake \/ Request
  BY <1>2 DEF WorkerWaits, Wake, Request, LeavesCopies, showVars, videoVars, streamVars
<1>3. CASE OnEos \/ OnError \/ Restart
  BY <1>3 DEF OnEos, OnError, Restart, Settings, LeavesCopies, showVars, videoVars,
     streamVars, workVars
<1>4. CASE Restarting
  <2>1. UNCHANGED <<updates, shown, refs, taken, frame, busy, sample, samples, wpc>>
    BY <1>4 DEF Restarting, StopAfterError, Launch, Play, Relaunch, Start, showVars,
       streamVars, workVars
  <2>2. current' \in {current, 0}
    BY <1>4 DEF Restarting, StopAfterError, Launch, Play, Settings, Relaunch, Start, videoVars
  <2>3. spc' \in {"none", "run"} \/ spc' = spc
    BY <1>4 DEF Restarting, StopAfterError, Launch, Play, Relaunch, Start, LaunchPipeline,
       Stopped, streamVars
  <2> QED
    BY <2>1, <2>2, <2>3 DEF LeavesCopies
<1>5. CASE UNCHANGED vars
  BY <1>5 DEF vars, LeavesCopies, showVars, videoVars, streamVars, workVars
<1> QED
  BY <1>1, <1>2, <1>3, <1>4, <1>5

\* What Next does to the copies, by kind.
LEMMA NextKinds ==
  ASSUME [Next]_vars
  PROVE  LeavesCopies \/ Sample \/ Take \/ Post \/ Release \/ Show
BY LeavesCopiesStep DEF Next, Stream, Worker, Loop

\* A frame handed over is newer than the one the worker had.
LEMMA NextNumbered == ASSUME BusyInv, Numbered, Queued, [Next]_vars PROVE Numbered'
<1>0. /\ samples \in 0 .. MaxSamples /\ sample \in 0 .. samples /\ frame \in 0 .. sample
      /\ taken \in 0 .. frame /\ current \in 0 .. MaxSamples /\ MaxSamples \in Nat
  BY BoundsAssumption DEF Numbered
<1>1. CASE LeavesCopies
  <2>1. current' \in 0 .. MaxSamples
    BY <1>0, <1>1 DEF LeavesCopies
  <2> QED
    BY <1>1, <2>1 DEF LeavesCopies, Numbered
<1>2. CASE Sample
  <2>1. /\ samples < MaxSamples /\ samples' = samples + 1 /\ sample' = samples + 1
        /\ UNCHANGED <<frame, taken, current, busy>>
    BY <1>2 DEF Sample, videoVars, workVars
  <2>2. /\ samples' \in 0 .. MaxSamples /\ sample' \in 0 .. samples' /\ frame' \in 0 .. sample'
        /\ frame' < sample'
    BY <1>0, <2>1
  <2> QED
    BY <2>1, <2>2 DEF Numbered
<1>3. CASE Take
  <2>1. /\ frame' = sample /\ taken' = taken + 1 /\ spc = "take" /\ spc' = "run"
        /\ UNCHANGED <<sample, samples, current>>
    BY <1>3 DEF Take, videoVars
  <2>2. frame < sample
    BY <2>1 DEF Numbered
  <2>3. frame' \in 0 .. sample' /\ taken' \in 0 .. frame' /\ frame' > 0
    BY <1>0, <2>1, <2>2
  <2> QED
    BY <2>1, <2>3 DEF Numbered
<1>4. CASE Post
  BY <1>4 DEF Post, Numbered, videoVars, streamVars
<1>5. CASE Release
  BY <1>5 DEF Release, Numbered, videoVars, streamVars
<1>6. CASE Show
  BY <1>6 DEF Show, Numbered, videoVars, streamVars
<1> QED
  BY <1>1, <1>2, <1>3, <1>4, <1>5, <1>6, NextKinds

\* The frame of the worker, while it has one, is a copy.
LEMMA FrameIsCopy == ASSUME Numbered, busy PROVE frame \in Samples
BY BoundsAssumption DEF Numbered, Samples

\* What the worker queues is newer than all that wait.
LEMMA NextQueued == ASSUME BusyInv, Numbered, Queued, [Next]_vars PROVE Queued'
<1>0. /\ samples \in 0 .. MaxSamples /\ sample \in 0 .. samples /\ frame \in 0 .. sample
      /\ MaxSamples \in Nat /\ shown \in 0 .. frame
  BY BoundsAssumption DEF Numbered, Queued
<1>1. CASE LeavesCopies
  BY <1>1 DEF LeavesCopies, Queued
<1>2. CASE Sample
  BY <1>2 DEF Sample, Queued, showVars, workVars
<1>3. CASE Take
  <2>1. /\ frame' = sample /\ UNCHANGED <<updates, shown>> /\ frame < sample
    BY <1>3 DEF Take, Numbered, showVars
  <2>2. \A i \in DOMAIN updates : updates[i] \in Nat /\ updates[i] <= frame
    <3>1. \A s \in Samples : s \in Nat
      BY <1>0 DEF Samples
    <3>2. \A i \in DOMAIN updates : updates[i] \in Samples
      BY DEF Queued
    <3> QED
      BY <3>1, <3>2 DEF Queued
  <2>3. ASSUME NEW i \in DOMAIN updates PROVE updates[i] <= frame' /\ updates[i] # frame'
    <3>1. updates[i] \in Nat /\ updates[i] <= frame
      BY <2>2
    <3> QED
      BY <1>0, <2>1, <3>1
  <2>4. ~Holds(updates', frame')
    BY <2>1, <2>3 DEF Holds
  <2>5. shown' \in 0 .. frame'
    BY <1>0, <2>1
  <2> QED
    BY <2>1, <2>3, <2>4, <2>5 DEF Queued
<1>4. CASE Post
  <2>1. /\ updates' = Append(updates, frame) /\ wpc = "post" /\ wpc' = "release"
        /\ UNCHANGED <<frame, shown>>
    BY <1>4 DEF Post, Queue
  <2>2. frame \in Samples
    BY <2>1, FrameIsCopy DEF BusyInv
  <2>3. ASSUME NEW i \in DOMAIN updates PROVE updates[i] < frame
    <3>1. updates[i] <= frame /\ updates[i] # frame /\ updates[i] \in Samples
      BY <2>1 DEF Queued, Holds
    <3>2. updates[i] \in Nat
      BY <1>0, <3>1 DEF Samples
    <3> QED
      BY <1>0, <3>1, <3>2
  <2>4. /\ updates' \in Seq(Samples) /\ Increasing(updates')
        /\ \A i \in DOMAIN updates' : updates'[i] <= frame'
        /\ \A s : Holds(updates', s) <=> Holds(updates, s) \/ s = frame
    BY <2>1, <2>2, <2>3, AppendFacts DEF Queued
  <2>5. ASSUME NEW i \in DOMAIN updates' PROVE shown' <= updates'[i]
    <3>1. Holds(updates, updates'[i]) \/ updates'[i] = frame
      BY <2>4 DEF Holds
    <3>2. CASE Holds(updates, updates'[i])
      BY <2>1, <3>2 DEF Holds, Queued
    <3>3. CASE updates'[i] = frame
      BY <1>0, <2>1, <3>3
    <3> QED
      BY <3>1, <3>2, <3>3
  <2> QED
    BY <1>0, <2>1, <2>4, <2>5 DEF Queued
<1>5. CASE Release
  BY <1>5 DEF Release, Queued, showVars
<1>6. CASE Show
  <2>1. /\ updates # <<>> /\ updates' = Tail(updates) /\ shown' = Head(updates)
        /\ UNCHANGED <<wpc, frame>>
    BY <1>6 DEF Show
  <2>2. /\ updates' \in Seq(Samples) /\ Head(updates) \in Samples
        /\ Holds(updates, Head(updates)) /\ Increasing(updates')
        /\ \A s : Holds(updates', s) <=> Holds(updates, s) /\ s # Head(updates)
        /\ \A i \in DOMAIN updates' :
             Head(updates) < updates'[i] /\ Holds(updates, updates'[i])
    BY <2>1, TailFacts DEF Queued
  <2>3. Head(updates) <= frame
    BY <2>2 DEF Queued, Holds
  <2>4. shown' \in 0 .. frame'
    BY <1>0, <2>1, <2>2, <2>3 DEF Samples
  <2>5. \A i \in DOMAIN updates' : updates'[i] <= frame'
    BY <2>1, <2>2 DEF Queued, Holds
  <2>6. ASSUME NEW i \in DOMAIN updates' PROVE shown' <= updates'[i]
    <3>1. Head(updates) \in Nat /\ updates'[i] \in Nat /\ Head(updates) < updates'[i]
      <4>1. updates'[i] \in Samples
        BY <2>2
      <4> QED
        BY <1>0, <2>2, <4>1 DEF Samples
    <3> QED
      BY <2>1, <3>1
  <2> QED
    BY <2>1, <2>2, <2>4, <2>5, <2>6 DEF Queued
<1> QED
  BY <1>1, <1>2, <1>3, <1>4, <1>5, <1>6, NextKinds

\* Each step that changes a reference changes its owners with it.
LEMMA NextCounted ==
  ASSUME BusyInv, Numbered, Queued, Counted, [Next]_vars PROVE Counted'
<1>0. refs \in [Samples -> 0 .. 2] /\ busy \in BOOLEAN
  BY DEF Counted, BusyInv
<1> DEFINE Owners(s) == One(busy /\ frame = s) + One(Holds(updates, s))
<1>1. SUFFICES /\ DOMAIN refs' = Samples /\ refs' = [s \in Samples |-> refs'[s]]
               /\ \A s \in Samples : refs'[s] = Owners(s)'
  <2>1. \A s \in Samples : Owners(s)' \in 0 .. 2
    BY DEF One
  <2> HIDE DEF Owners
  <2>2. \A s \in Samples : refs'[s] \in 0 .. 2
    BY <1>1, <2>1
  <2>3. refs' \in [Samples -> 0 .. 2]
    BY <1>1, <2>2
  <2> QED
    BY <1>1, <2>3 DEF Owners, Counted
<1>2. CASE LeavesCopies \/ Sample
  <2>1. UNCHANGED <<refs, busy, frame, updates>>
    BY <1>2 DEF LeavesCopies, Sample, workVars, showVars
  <2> QED
    BY <1>0, <2>1 DEF Counted
<1>3. CASE Take
  <2>1. /\ refs' = [refs EXCEPT ![sample] = 1] /\ frame' = sample /\ busy' = TRUE
        /\ updates' = updates /\ ~busy /\ frame < sample
    BY <1>3 DEF Take, BusyInv, Numbered, showVars
  <2>2. sample \in Samples
    BY <2>1, BoundsAssumption DEF Numbered, Samples
  <2>3. \A s \in Samples : refs'[s] = IF s = sample THEN 1 ELSE refs[s]
    BY <1>0, <2>1
  <2>4. ~Holds(updates, sample)
    <3>1. ASSUME NEW i \in DOMAIN updates, updates[i] = sample PROVE FALSE
      <4>1. sample <= frame
        BY <3>1 DEF Queued
      <4> QED
        BY <2>1, <4>1 DEF Numbered
    <3> QED
      BY <3>1 DEF Holds
  <2>5. ASSUME NEW s \in Samples PROVE refs'[s] = Owners(s)'
    <3>1. CASE s = sample
      BY <2>1, <2>3, <2>4, <3>1 DEF One
    <3>2. CASE s # sample
      BY <2>1, <2>3, <3>2 DEF One, Counted
    <3> QED
      BY <3>1, <3>2
  <2> QED
    BY <1>0, <2>1, <2>5
<1>4. CASE Post
  <2>1. /\ refs' = [refs EXCEPT ![frame] = refs[frame] + 1] /\ updates' = Append(updates, frame)
        /\ wpc = "post" /\ UNCHANGED <<frame, busy>>
    BY <1>4 DEF Post, Addref, Queue
  <2>2. frame \in Samples /\ ~Holds(updates, frame) /\ busy
    BY <2>1, FrameIsCopy DEF BusyInv, Queued
  <2>3. \A s \in Samples : refs'[s] = IF s = frame THEN refs[frame] + 1 ELSE refs[s]
    BY <1>0, <2>1
  <2>4. \A s : Holds(updates', s) <=> Holds(updates, s) \/ s = frame
    <3>1. ASSUME NEW i \in DOMAIN updates PROVE updates[i] < frame
      <4>1. updates[i] <= frame /\ updates[i] # frame /\ updates[i] \in Samples
        BY <2>2 DEF Queued, Holds
      <4> QED
        BY <2>2, <4>1, BoundsAssumption DEF Samples
    <3> QED
      BY <2>1, <2>2, <3>1, AppendFacts DEF Queued
  <2>5. ASSUME NEW s \in Samples PROVE refs'[s] = Owners(s)'
    <3>1. CASE s = frame
      <4>1. refs[frame] = 1
        BY <2>2 DEF One, Counted
      <4> QED
        BY <2>1, <2>2, <2>3, <2>4, <3>1, <4>1 DEF One
    <3>2. CASE s # frame
      BY <2>1, <2>3, <2>4, <3>2 DEF One, Counted
    <3> QED
      BY <3>1, <3>2
  <2> QED
    BY <1>0, <2>1, <2>5
<1>5. CASE Release
  <2>1. /\ refs' = [refs EXCEPT ![frame] = refs[frame] - 1] /\ busy' = FALSE
        /\ wpc = "release" /\ UNCHANGED <<frame, updates>>
    BY <1>5 DEF Release, showVars
  <2>2. frame \in Samples /\ busy
    BY <2>1, FrameIsCopy DEF BusyInv
  <2>3. \A s \in Samples : refs'[s] = IF s = frame THEN refs[frame] - 1 ELSE refs[s]
    BY <1>0, <2>1
  <2>4. ASSUME NEW s \in Samples PROVE refs'[s] = Owners(s)'
    <3>1. CASE s = frame
      <4>1. refs[frame] = 1 + One(Holds(updates, frame))
        BY <2>2 DEF One, Counted
      <4> QED
        BY <2>1, <2>2, <2>3, <3>1, <4>1 DEF One
    <3>2. CASE s # frame
      BY <2>1, <2>3, <3>2 DEF One, Counted
    <3> QED
      BY <3>1, <3>2
  <2> QED
    BY <1>0, <2>1, <2>4
<1>6. CASE Show
  <2> DEFINE h == Head(updates)
  <2>1. /\ updates # <<>> /\ updates' = Tail(updates)
        /\ refs' = [refs EXCEPT ![h] = refs[h] - 1] /\ UNCHANGED <<frame, busy>>
    BY <1>6 DEF Show
  <2>2. /\ h \in Samples /\ Holds(updates, h)
        /\ \A s : Holds(updates', s) <=> Holds(updates, s) /\ s # h
    BY <2>1, TailFacts DEF Queued
  <2> HIDE DEF h
  <2>3. \A s \in Samples : refs'[s] = IF s = h THEN refs[h] - 1 ELSE refs[s]
    BY <1>0, <2>1, <2>2
  <2>4. ASSUME NEW s \in Samples PROVE refs'[s] = Owners(s)'
    <3>1. CASE s = h
      <4>1. refs[h] = One(busy /\ frame = h) + 1
        BY <2>2 DEF One, Counted
      <4>2. One(busy /\ frame = h) \in 0 .. 1
        BY DEF One
      <4>3. refs'[s] = One(busy /\ frame = h)
        BY <2>3, <3>1, <4>1, <4>2
      <4>4. ~Holds(updates', s)
        BY <2>2, <3>1
      <4>5. CASE busy /\ frame = h
        BY <2>1, <3>1, <4>3, <4>4, <4>5 DEF One
      <4>6. CASE ~(busy /\ frame = h)
        BY <2>1, <3>1, <4>3, <4>4, <4>6 DEF One
      <4> QED
        BY <4>5, <4>6
    <3>2. CASE s # h
      BY <2>1, <2>2, <2>3, <3>2 DEF One, Counted
    <3> QED
      BY <3>1, <3>2
  <2> QED
    BY <1>0, <2>1, <2>4
<1> QED
  BY <1>2, <1>3, <1>4, <1>5, <1>6, NextKinds

\* There is no copy yet.
LEMMA InitCopyInv == Init => CopyInv
<1> SUFFICES ASSUME Init PROVE CopyInv
  OBVIOUS
<1>1. /\ samples = 0 /\ sample = 0 /\ frame = 0 /\ taken = 0 /\ current = 0 /\ shown = 0
      /\ spc = "none" /\ wpc = "new" /\ ~busy /\ updates = <<>>
      /\ refs = [s \in Samples |-> 0]
  BY DEF Init
<1>2. Numbered
  BY <1>1, BoundsAssumption DEF Numbered
<1>3. updates \in Seq(Samples) /\ DOMAIN updates = {}
  BY <1>1
<1>4. Queued
  BY <1>1, <1>3 DEF Queued, Increasing
<1>5. \A s \in Samples : ~Holds(updates, s)
  BY <1>3 DEF Holds
<1>6. Counted
  BY <1>1, <1>5 DEF Counted, One
<1> QED
  BY <1>2, <1>4, <1>6, InitBusyInv DEF CopyInv

\* The inductive invariant of the copies.
LEMMA CopiesCorrect == Spec => []CopyInv
<1>1. CopyInv /\ [Next]_vars => CopyInv'
  BY NextBusyInv, NextNumbered, NextQueued, NextCounted DEF CopyInv
<1> QED
  BY <1>1, InitCopyInv, PTL DEF Spec

-----------------------------------------------------------------------------
\* What the invariants above leave open of the types.
Flags ==
  /\ err \in BOOLEAN /\ changed \in BOOLEAN /\ sized \in BOOLEAN /\ early \in BOOLEAN
  /\ errors \in 0 .. MaxErrors

\* Each step keeps the flags and the count of errors.
LEMMA NextFlags == ASSUME Flags, [Next]_vars PROVE Flags'
<1>1. CASE Stream
  BY <1>1 DEF Stream, Sample, Swap, Callback, Take, Signalled, loopVars, videoVars, workVars,
     Flags
<1>2. CASE Ends
  BY <1>2 DEF Ends, videoVars, workVars, Flags
<1>3. CASE Fails
  <2>1. errors' \in 0 .. MaxErrors
    BY <1>3, BoundsAssumption DEF Fails, Flags
  <2> QED
    BY <1>3, <2>1 DEF Fails, videoVars, workVars, Flags
<1>4. CASE Worker
  BY <1>4 DEF Worker, WorkerWaits, Wake, Request, Post, Release, loopVars, videoVars, Flags
<1>5. CASE Loop
  BY <1>5 DEF Loop, Show, OnEos, OnError, Restart, Settings, loopVars, videoVars, workVars,
     Flags
<1>6. CASE Restarting
  BY <1>6 DEF Restarting, StopAfterError, Launch, Play, Settings, Relaunch, Start,
     LaunchPipeline, Stopped, videoVars, workVars, Flags
<1>7. CASE UNCHANGED vars
  BY <1>7 DEF vars, loopVars, videoVars, workVars, Flags
<1> QED
  BY <1>1, <1>2, <1>3, <1>4, <1>5, <1>6, <1>7 DEF Next

\* Every variable has its type, and each copy has exactly the references of the worker
\* and of the callback that is queued for it, for any number of samples and errors and
\* over restarts of the pipeline (video_stream.c:271-276, app.c:102-130).
THEOREM CopiesHeld == Spec => []StreamOK
<1>1. Init => Flags
  <2>1. Init => errors \in 0 .. MaxErrors
    BY BoundsAssumption DEF Init
  <2> QED
    BY <2>1 DEF Init, Flags
<1>2. ASSUME RestartInv, CopyInv, Flags PROVE StreamOK
  <2>1. /\ MaxSamples \in Nat /\ samples \in 0 .. MaxSamples /\ sample \in 0 .. samples
        /\ frame \in 0 .. sample /\ taken \in 0 .. frame /\ shown \in 0 .. frame
    BY <1>2, BoundsAssumption DEF CopyInv, Numbered, Queued
  <2>2. /\ sample \in 0 .. MaxSamples /\ frame \in 0 .. MaxSamples
        /\ taken \in 0 .. MaxSamples /\ shown \in 0 .. MaxSamples
    BY <2>1
  <2>3. finished \in 0 .. MaxSamples
    BY <1>2, <2>1 DEF CopyInv, BusyInv, TakenOnce
  <2>4. TypeOK
    BY <1>2, <2>1, <2>2, <2>3 DEF TypeOK, RestartInv, CopyInv, BusyInv, Numbered, Queued,
       Counted, Flags
  <2>5. CopiesCounted
    BY <1>2 DEF CopyInv, Counted, One, Holds, CopiesCounted
  <2> QED
    BY <2>4, <2>5 DEF StreamOK
<1>3. Flags /\ [Next]_vars => Flags'
  BY NextFlags
<1> QED
  BY <1>1, <1>2, <1>3, InitRestartInv, NextRestartInv, CopiesCorrect, PTL DEF Spec

\* The page is never shown an older picture than it had, also across restarts of the
\* pipeline: the queue of the main loop holds the copies in the order of their samples
\* (app.c:102-130).
THEOREM ShownInOrder == Spec => NeverOlder
<1>1. ASSUME CopyInv, [Next]_vars PROVE [shown' >= shown]_shown
  <2>1. shown \in Nat
    <3>1. frame \in Nat /\ shown \in 0 .. frame
      BY <1>1, BoundsAssumption DEF CopyInv, Numbered, Queued
    <3> QED
      BY <3>1
  <2>2. CASE Show
    <3>1. updates # <<>> /\ shown' = Head(updates)
      BY <2>2 DEF Show
    <3>2. Head(updates) \in Samples /\ Holds(updates, Head(updates))
      BY <1>1, <3>1, TailFacts DEF CopyInv, Queued
    <3>3. shown <= Head(updates)
      BY <1>1, <3>2 DEF CopyInv, Queued, Holds
    <3>4. Head(updates) \in Nat
      BY <3>2, BoundsAssumption DEF Samples
    <3> QED
      BY <2>1, <3>1, <3>3, <3>4
  <2>3. CASE LeavesCopies \/ Sample \/ Take \/ Post \/ Release
    BY <2>3 DEF LeavesCopies, Sample, Take, Post, Release, showVars
  <2> QED
    BY <1>1, <2>2, <2>3, NextKinds
<1> QED
  BY <1>1, CopiesCorrect, PTL DEF Spec, NeverOlder
=============================================================================
