--------------------------- MODULE WatcherProofs ---------------------------
(***************************************************************************)
(* The programs that watch cameras, for any number of children, alerts,    *)
(* pictures, uris and spurious wake-ups: at any time at most one child of  *)
(* the camera switch of the raspberry pi was not told to stop, and none is *)
(* left as a zombie; a command of the alert server never runs twice at     *)
(* once; an answer is drawn over the picture it is about; a window plays   *)
(* the video its entry names, from frames that are not freed.  The         *)
(* theorems at the end carry these over to the composition that the run    *)
(* "watchers" checks.                                                      *)
(***************************************************************************)
EXTENDS MCWatchers, FiniteSetTheorems, TLAPS

-----------------------------------------------------------------------------
\* The camera switch of the raspberry pi, whatever the plan and however often the
\* program is killed and started again.  Two things know of the children: the pid the
\* instance watches and the lock the children inherit.  While an instance runs, an
\* untold child is the one it watches (Guarded); while none runs, the untold child of
\* a killed one keeps the lock, so that the next instance cannot start, and fork,
\* before that child has ended.

\* A child is untold where it runs and was not sent SIGUSR2.
IsUntold(c) == child[c] = "running" /\ c \notin told

Locked ==
  /\ Instance \in lock <=> worker # "down"
  /\ \A c \in Children : child[c] = "running" => c \in lock

Watching == worker = "watch" <=> watched # 0

Guarded ==
  /\ worker # "down" => \A c \in Children : IsUntold(c) => c = watched
  /\ worker = "down" /\ ~crashed => \A c \in Children : ~IsUntold(c)
  /\ \A c, d \in Children : IsUntold(c) /\ IsUntold(d) => c = d

Inv == TypeOK /\ Locked /\ Watching /\ Guarded /\ NoZombieUntold

-----------------------------------------------------------------------------
\* Times of the plan are numbers.
PlanType == [masks : [0 .. 6 -> BOOLEAN], ranges : Seq([begin : Time, end : Time])]

\* The constants are numbers, and so are the minutes the clock runs.
LEMMA ConstantFacts ==
  /\ Hours \in Nat /\ Minutes \in Nat /\ Days \in Nat /\ Hours > 0 /\ Minutes > 0
  /\ MaxForks \in Nat /\ MaxStarts \in Nat
  /\ Days * Hours * Minutes \in Nat
  <1>1. /\ Hours \in Nat /\ Minutes \in Nat /\ Days \in Nat /\ Hours > 0 /\ Minutes > 0
        /\ MaxForks \in Nat /\ MaxStarts \in Nat
    BY ScheduleAssumption
  <1>2. \A a, b \in Nat : a * b \in Nat
    OBVIOUS
  <1>3. Days * Hours \in Nat
    BY <1>1, <1>2
  <1> QED BY <1>1, <1>2, <1>3

\* The plan before any configuration is loaded.
LEMMA NoPlanType == NoPlan \in PlanType
  <1>1. <<>> \in Seq([begin : Time, end : Time])
    OBVIOUS
  <1> QED BY <1>1 DEF NoPlan, PlanType

\* A loaded plan is well-typed whatever its texts lack (camera-switch.c:511-561).
LEMMA LoadedPlanType == ASSUME NEW config \in Plans PROVE LoadedPlan(config) \in PlanType
  <1>1. config.masks \in Seq(BOOLEAN) /\ config.texts \in Seq(Text)
    BY ScheduleAssumption
  <1>2. \A t \in Text : TimeRange(t) \in [begin : Time, end : Time]
    <2>1. NoTime \in Time
      BY DEF NoTime, Time
    <2>2. ASSUME NEW t \in Text PROVE TimeRange(t) \in [begin : Time, end : Time]
      <3>1. CASE t.has = "nothing"
        BY <2>1, <3>1 DEF TimeRange
      <3>2. CASE t.has = "begin"
        BY <2>1, <3>2 DEF TimeRange, Text
      <3>3. CASE t.has = "both"
        BY <2>1, <3>3 DEF TimeRange, Text
      <3> QED BY <3>1, <3>2, <3>3 DEF Text
    <2> QED BY <2>2
  <1>3. [i \in DOMAIN config.texts |-> TimeRange(config.texts[i])]
          \in Seq([begin : Time, end : Time])
    <2>1. DOMAIN config.texts = 1 .. Len(config.texts) /\ Len(config.texts) \in Nat
      BY <1>1
    <2>2. \A i \in DOMAIN config.texts : config.texts[i] \in Text
      BY <1>1
    <2>3. \A i \in 1 .. Len(config.texts) :
            TimeRange(config.texts[i]) \in [begin : Time, end : Time]
      BY <1>2, <2>1, <2>2
    <2> QED BY <2>1, <2>3
  <1>4. [d \in 0 .. 6 |-> d + 1 \in DOMAIN config.masks /\ config.masks[d + 1]]
          \in [0 .. 6 -> BOOLEAN]
    <2>1. \A d \in 0 .. 6 : (d + 1 \in DOMAIN config.masks /\ config.masks[d + 1]) \in BOOLEAN
      OBVIOUS
    <2> QED BY <2>1
  <1> QED BY <1>3, <1>4 DEF LoadedPlan, PlanType

\* The second of the day, and with it every time a sleep is told, is a number.
LEMMA SecondsType == ASSUME TypeOK PROVE SecondsOfTheDay \in Int /\ clock \in Nat
  <1>1. clock \in Nat /\ Hours \in Nat /\ Minutes \in Nat /\ Hours > 0 /\ Minutes > 0
    BY ConstantFacts DEF TypeOK
  <1>2. clock \div Minutes \in Int
    BY <1>1
  <1>3. ClockHour \in Int
    BY <1>1, <1>2 DEF ClockHour
  <1>4. \A a, b \in Int : a * b + a \in Int
    OBVIOUS
  <1> QED BY <1>1, <1>3, <1>4 DEF SecondsOfTheDay

-----------------------------------------------------------------------------
\* What happens to the child that is watched when it is told to stop: reaped, ended
\* or left running, and told in any case.
LEMMA StopStep ==
  ASSUME TypeOK, watched \in Children, Stop
  PROVE  /\ watched \in told' /\ told' = told \cup {watched} /\ told' \subseteq Children
         /\ child' \in [Children -> {"none", "running", "zombie", "gone"}]
         /\ \A c \in Children : c # watched => child'[c] = child[c]
         /\ \A c \in Children : child'[c] = "running" => child[c] = "running"
         /\ \A c \in Children : child'[c] = "zombie" => child[c] = "zombie"
         /\ lock' \subseteq lock
         /\ \A c \in Children : child'[c] = "running" /\ c \in lock => c \in lock'
         /\ Instance \in lock => Instance \in lock'
         /\ worker' = "loop" /\ watched' = 0
         /\ UNCHANGED <<clock, plan, wake, range, web, quit, crashed, forks, starts>>
  <1>1. /\ told' = told \cup {watched} /\ worker' = "loop" /\ watched' = 0
        /\ UNCHANGED <<clock, plan, wake, range, web, quit, crashed, forks, starts>>
        /\ told' \subseteq Children
    BY DEF Stop, TypeOK
  <1>2. Instance \notin Children
    BY ConstantFacts DEF Instance, Children
  <1>3. \/ child' = [child EXCEPT ![watched] = "gone"] /\ lock' = lock
        \/ child' = [child EXCEPT ![watched] = "gone"] /\ lock' = lock \ {watched}
        \/ child' = child /\ lock' = lock
    BY DEF Stop
  <1>4. CASE child' = [child EXCEPT ![watched] = "gone"] /\ lock \ {watched} \subseteq lock'
             /\ lock' \subseteq lock
    <2>1. \A c \in Children : child'[c] = IF c = watched THEN "gone" ELSE child[c]
      BY <1>4 DEF TypeOK
    <2>2. child' \in [Children -> {"none", "running", "zombie", "gone"}]
      BY <1>4 DEF TypeOK
    <2> QED BY <1>1, <1>2, <1>4, <2>1, <2>2
  <1>5. CASE child' = child /\ lock' = lock
    BY <1>1, <1>5 DEF TypeOK
  <1> QED BY <1>3, <1>4, <1>5

\* The health check looks after a child, not after pid -1.
LEMMA WatchedChild == ASSUME TypeOK, Watching, worker = "watch" PROVE watched \in Children
  BY DEF TypeOK, Watching

\* Both ways to stop the child that is watched.
LEMMA StopAction ==
  ASSUME Expire \/ StopOnQuit PROVE worker = "watch" /\ Stop
  BY DEF Expire, StopOnQuit

\* The end of an instance, by itself or not.
LEMMA DownStep ==
  ASSUME TypeOK, Down
  PROVE  /\ child' \in [Children -> {"none", "running", "gone"}]
         /\ \A c \in Children : child'[c] = "running" <=> child[c] = "running"
         /\ \A c \in Children : c \in lock' <=> c \in lock
         /\ Instance \notin lock' /\ lock' \subseteq lock
         /\ worker' = "down" /\ watched' = 0
  <1>1. Instance \notin Children
    BY ConstantFacts DEF Instance, Children
  <1>2. /\ worker' = "down" /\ watched' = 0 /\ lock' = lock \ {Instance}
        /\ child' = [c \in Children |-> IF child[c] = "zombie" THEN "gone" ELSE child[c]]
    BY DEF Down, Orphaned
  <1>3. child' \in [Children -> {"none", "running", "gone"}]
    BY <1>2 DEF TypeOK
  <1>4. \A c \in Children : child'[c] = "running" <=> child[c] = "running"
    BY <1>2 DEF TypeOK
  <1> QED BY <1>1, <1>2, <1>3, <1>4

\* Both ways an instance comes to its end.
LEMMA DownAction ==
  ASSUME CleanUp \/ Crash PROVE Down
  BY DEF CleanUp, Crash

\* The child that is forked is a new one.
LEMMA ForkStep ==
  ASSUME TypeOK, Fork
  PROVE  LET new == forks + 1 IN
         /\ new \in Children /\ forks' = new /\ forks' \in 0 .. MaxForks
         /\ child' \in [Children -> {"none", "running", "zombie", "gone"}]
         /\ child'[new] = "running"
         /\ \A c \in Children : c # new => child'[c] = child[c]
         /\ lock' = lock \cup {new} /\ watched' = new
         /\ worker = "loop" /\ worker' = "watch"
         /\ UNCHANGED <<clock, plan, wake, web, quit, told, crashed, starts>>
  <1> DEFINE new == forks + 1
  <1>1. forks \in 0 .. MaxForks /\ forks < MaxForks /\ MaxForks \in Nat
    BY ConstantFacts DEF Fork, TypeOK
  <1>2. new \in 1 .. MaxForks /\ new \in 0 .. MaxForks
    BY <1>1
  <1>3. child' = [child EXCEPT ![new] = "running"]
    BY DEF Fork
  <1>4. child \in [Children -> {"none", "running", "zombie", "gone"}] /\ new \in Children
    BY <1>2 DEF TypeOK, Children
  <1>5. /\ child' \in [Children -> {"none", "running", "zombie", "gone"}]
        /\ child'[new] = "running"
        /\ \A c \in Children : c # new => child'[c] = child[c]
    BY <1>3, <1>4
  <1>6. /\ forks' = new /\ lock' = lock \cup {new} /\ watched' = new
        /\ worker = "loop" /\ worker' = "watch"
        /\ UNCHANGED <<clock, plan, wake, web, quit, told, crashed, starts>>
    BY DEF Fork, Due
  <1> QED BY <1>2, <1>4, <1>5, <1>6

\* A child that ends gives its lock back and waits to be reaped by its instance.
LEMMA ChildEndsStep ==
  ASSUME TypeOK, NEW c \in Children, ChildEnds(c)
  PROVE  /\ child' \in [Children -> {"none", "running", "zombie", "gone"}]
         /\ child[c] = "running"
         /\ child'[c] = IF Instance \in lock THEN "zombie" ELSE "gone"
         /\ \A d \in Children : d # c => child'[d] = child[d]
         /\ lock' = lock \ {c}
         /\ UNCHANGED <<clock, plan, worker, wake, watched, range, web, quit, told, crashed,
                        forks, starts>>
  BY DEF ChildEnds, TypeOK

\* The watched child is reaped.
LEMMA ReapStep ==
  ASSUME TypeOK, Watching, Reap
  PROVE  /\ child' \in [Children -> {"none", "running", "zombie", "gone"}]
         /\ watched \in Children /\ child[watched] = "zombie" /\ child'[watched] = "gone"
         /\ \A c \in Children : c # watched => child'[c] = child[c]
         /\ worker = "watch" /\ worker' = "loop" /\ watched' = 0
         /\ UNCHANGED <<clock, plan, wake, range, web, quit, lock, told, crashed, forks, starts>>
  <1>1. watched \in Children
    BY WatchedChild DEF Reap
  <1> QED BY <1>1 DEF Reap, TypeOK

-----------------------------------------------------------------------------
\* The machine has just been switched on.
LEMMA InitTypeOK == Init => TypeOK
  <1> SUFFICES ASSUME Init PROVE TypeOK
    OBVIOUS
  <1>1. clock \in 0 .. Days * Hours * Minutes
    BY ConstantFacts DEF Init
  <1>2. plan \in [masks : [0 .. 6 -> BOOLEAN], ranges : Seq([begin : Time, end : Time])]
    BY NoPlanType DEF Init, PlanType
  <1>3. forks \in 0 .. MaxForks /\ starts \in 0 .. MaxStarts
    BY ConstantFacts DEF Init
  <1>4. child \in [Children -> {"none", "running", "zombie", "gone"}]
    BY DEF Init
  <1> QED BY <1>1, <1>2, <1>3, <1>4 DEF Init, TypeOK

\* The time until the first range of a day.
LEMMA AwaitRangeWake == ASSUME TypeOK, AwaitRange PROVE wake' \in Nat
  <1> DEFINE first == OfTheDay(plan.ranges[1].begin)
  <1>1. SecondsOfTheDay \in Int /\ clock \in Nat /\ Minutes \in Nat
    BY SecondsType, ConstantFacts
  <1>2. wake' = clock + (IF plan.ranges # <<>> /\ SecondsOfTheDay < first
                         THEN first - SecondsOfTheDay ELSE 1)
    BY DEF AwaitRange, Sleep
  <1>3. CASE plan.ranges # <<>> /\ SecondsOfTheDay < first
    <2>1. plan.ranges \in Seq([begin : Time, end : Time])
      BY DEF TypeOK
    <2>2. plan.ranges[1] \in [begin : Time, end : Time]
      <3> DEFINE R == [begin : Time, end : Time]
      <3>1. ASSUME NEW q \in Seq(R), q # <<>> PROVE q[1] \in R
        <4> HIDE DEF R
        <4>1. Len(q) \in Nat /\ Len(q) # 0
          BY <3>1
        <4> QED BY <4>1, <3>1
      <3>2. plan.ranges # <<>>
        BY <1>3
      <3> QED BY <2>1, <3>1, <3>2
    <2>3. plan.ranges[1].begin.hour \in Int /\ plan.ranges[1].begin.min \in Int
      BY <2>2 DEF Time
    <2>4. \A a, b, m \in Int : a * m + b \in Int
      OBVIOUS
    <2>5. first \in Int
      BY <1>1, <2>3, <2>4 DEF OfTheDay
    <2> HIDE DEF first
    <2> QED BY <1>1, <1>2, <1>3, <2>5
  <1>4. CASE ~(plan.ranges # <<>> /\ SecondsOfTheDay < first)
    <2>1. wake' = clock + 1
      BY <1>2, <1>4
    <2> QED BY <2>1, <1>1
  <1> QED BY <1>3, <1>4

\* Each step keeps the types; the plan and the sleep are the ones worth a look.
LEMMA NextTypeOK == ASSUME TypeOK, Watching, Next PROVE TypeOK'
  <1>1. CASE Start
    <2>1. starts' \in 0 .. MaxStarts
      BY <1>1, ConstantFacts DEF Start, TypeOK
    <2>2. CASE LockIsFree
      <3>1. PICK config \in Plans : plan' = LoadedPlan(config)
        BY <1>1, <2>2 DEF Start
      <3>2. plan' \in [masks : [0 .. 6 -> BOOLEAN], ranges : Seq([begin : Time, end : Time])]
        BY <3>1, LoadedPlanType DEF PlanType
      <3> QED BY <1>1, <2>1, <2>2, <3>2 DEF Start, TypeOK
    <2>3. CASE ~LockIsFree
      BY <1>1, <2>1, <2>3 DEF Start, TypeOK
    <2> QED BY <2>2, <2>3
  <1>2. CASE RestDay
    <2>1. wake' \in Nat
      BY <1>2, ConstantFacts, SecondsType DEF RestDay, Sleep
    <2> QED BY <1>2, <2>1 DEF RestDay, Sleep, TypeOK
  <1>3. CASE AwaitRange
    <2>1. wake' \in Nat
      BY <1>3, AwaitRangeWake
    <2>2. worker' = "sleep"
      BY <1>3 DEF AwaitRange, Sleep
    <2>3. UNCHANGED <<clock, plan, watched, range, web, quit, lock, child, told, crashed,
                      forks, starts>>
      BY <1>3 DEF AwaitRange
    <2> QED BY <2>1, <2>2, <2>3 DEF TypeOK
  <1>4. CASE Wake
    BY <1>4 DEF Wake, TypeOK
  <1>5. CASE Fork
    <2>1. /\ watched' \in Children /\ forks' \in 0 .. MaxForks
          /\ child' \in [Children -> {"none", "running", "zombie", "gone"}]
          /\ lock' = lock \cup {watched'} /\ worker' = "watch"
          /\ UNCHANGED <<clock, plan, wake, web, quit, told, crashed, starts>>
      BY <1>5, ForkStep
    <2> QED BY <2>1 DEF TypeOK
  <1>6. CASE ForkFails
    BY <1>6 DEF ForkFails, TypeOK
  <1>7. CASE Reap
    BY <1>7, ReapStep DEF TypeOK
  <1>8. CASE Expire \/ StopOnQuit
    <2>1. watched \in Children /\ Stop
      BY <1>8, StopAction, WatchedChild
    <2>2. /\ told' \subseteq Children /\ lock' \subseteq lock
          /\ child' \in [Children -> {"none", "running", "zombie", "gone"}]
          /\ worker' = "loop" /\ watched' = 0
          /\ UNCHANGED <<clock, plan, wake, range, web, quit, crashed, forks, starts>>
      BY <2>1, StopStep
    <2> QED BY <2>2 DEF TypeOK
  <1>9. CASE EndOfSchedule
    BY <1>9 DEF EndOfSchedule, TypeOK
  <1>10. CASE Signal
    BY <1>10 DEF Signal, TypeOK
  <1>11. CASE EndWebService
    BY <1>11 DEF EndWebService, TypeOK
  <1>12. CASE CleanUp \/ Crash
    <2>1. /\ child' \in [Children -> {"none", "running", "zombie", "gone"}]
          /\ lock' \subseteq lock /\ worker' = "down" /\ watched' = 0
      BY <1>12, DownAction, DownStep
    <2>2. /\ UNCHANGED <<clock, plan, wake, range, quit, told, forks, starts>>
          /\ web' \in BOOLEAN /\ crashed' \in BOOLEAN
      BY <1>12 DEF CleanUp, Crash, TypeOK
    <2> QED BY <2>1, <2>2 DEF TypeOK
  <1>13. CASE Tick
    <2>1. clock' \in 0 .. Days * Hours * Minutes
      <3>1. clock \in Nat /\ clock + 1 < Days * Hours * Minutes /\ clock' = clock + 1
        BY <1>13, SecondsType DEF Tick
      <3> QED BY <3>1, ConstantFacts
    <2> QED BY <1>13, <2>1 DEF Tick, TypeOK
  <1>14. ASSUME NEW c \in Children, ChildEnds(c) PROVE TypeOK'
    BY <1>14, ChildEndsStep DEF TypeOK
  <1> QED BY <1>1, <1>2, <1>3, <1>4, <1>5, <1>6, <1>7, <1>8, <1>9, <1>10, <1>11, <1>12,
             <1>13, <1>14 DEF Next

-----------------------------------------------------------------------------
\* The steps that touch neither a child, nor the lock, nor what is watched, and
\* neither begin nor end an instance.
Aside ==
  /\ UNCHANGED <<watched, lock, child, told, crashed>>
  /\ worker' = worker \/ (worker \in {"loop", "sleep"} /\ worker' \in {"loop", "sleep", "ended"})

\* They are these.
LEMMA AsideStep ==
  ASSUME \/ RestDay \/ AwaitRange \/ Wake \/ ForkFails \/ EndOfSchedule \/ Signal
         \/ EndWebService \/ Tick \/ UNCHANGED vars
  PROVE  Aside
  BY DEF RestDay, AwaitRange, Sleep, Wake, ForkFails, Due, EndOfSchedule, Signal,
         EndWebService, Tick, vars, Aside

\* An instance that starts finds the lock free; one that does not changes nothing.
LEMMA StartStep ==
  ASSUME Start
  PROVE  /\ UNCHANGED <<watched, child, told, crashed>> /\ worker = "down"
         /\ \/ lock = {} /\ lock' = {Instance} /\ worker' = "loop"
            \/ UNCHANGED <<worker, lock>>
  BY DEF Start, LockIsFree

\* What Next does to children and lock, by kind.
LEMMA NextKinds ==
  ASSUME [Next]_vars
  PROVE  \/ Start \/ Aside \/ Fork \/ Reap \/ (worker = "watch" /\ Stop)
         \/ ((CleanUp \/ Crash) /\ Down)
         \/ \E c \in Children : ChildEnds(c)
  BY AsideStep, StopAction, DownAction DEF Next

-----------------------------------------------------------------------------
\* Whoever runs holds the lock, and only while it runs does an instance hold it.
LEMMA NextLocked == ASSUME TypeOK, Locked, Watching, [Next]_vars PROVE Locked' /\ Watching'
  <1>1. CASE Start
    <2>1. Instance \in lock' <=> worker' # "down"
      BY <1>1, StartStep DEF Locked
    <2>2. \A c \in Children : child'[c] = "running" => c \in lock'
      BY <1>1, StartStep DEF Locked
    <2>3. Watching'
      BY <1>1, StartStep DEF Watching
    <2> QED BY <2>1, <2>2, <2>3 DEF Locked
  <1>2. CASE Aside
    BY <1>2 DEF Aside, Locked, Watching
  <1>3. CASE Fork
    <2> DEFINE new == forks + 1
    <2>1. /\ new \in Children /\ lock' = lock \cup {new} /\ watched' = new
          /\ worker = "loop" /\ worker' = "watch"
          /\ \A c \in Children : c # new => child'[c] = child[c]
      BY <1>3, ForkStep
    <2>2. new # 0
      BY <2>1, ConstantFacts DEF Children
    <2>3. Instance \in lock'
      BY <2>1 DEF Locked
    <2>4. \A c \in Children : child'[c] = "running" => c \in lock'
      <3> HIDE DEF new
      <3> QED BY <2>1 DEF Locked
    <2> QED BY <2>1, <2>2, <2>3, <2>4 DEF Locked, Watching
  <1>4. CASE Reap
    <2>1. /\ watched \in Children /\ child'[watched] = "gone"
          /\ \A c \in Children : c # watched => child'[c] = child[c]
          /\ worker = "watch" /\ worker' = "loop" /\ watched' = 0 /\ lock' = lock
      BY <1>4, ReapStep
    <2>2. \A c \in Children : child'[c] = "running" => c \in lock'
      BY <2>1 DEF Locked
    <2> QED BY <2>1, <2>2 DEF Locked, Watching
  <1>5. CASE worker = "watch" /\ Stop
    <2>1. watched \in Children
      BY <1>5, WatchedChild
    <2>2. /\ worker' = "loop" /\ watched' = 0
          /\ Instance \in lock => Instance \in lock'
          /\ \A c \in Children : child'[c] = "running" => child[c] = "running"
          /\ \A c \in Children : child'[c] = "running" /\ c \in lock => c \in lock'
      BY <1>5, <2>1, StopStep
    <2> QED BY <1>5, <2>2 DEF Locked, Watching
  <1>6. CASE Down
    BY <1>6, DownStep DEF Locked, Watching
  <1>7. ASSUME NEW c \in Children, ChildEnds(c) PROVE Locked' /\ Watching'
    <2>1. /\ child'[c] \in {"zombie", "gone"} /\ lock' = lock \ {c}
          /\ \A d \in Children : d # c => child'[d] = child[d]
          /\ UNCHANGED <<worker, watched>>
      BY <1>7, ChildEndsStep
    <2>2. c # Instance
      BY ConstantFacts DEF Instance, Children
    <2>3. \A d \in Children : child'[d] = "running" => d \in lock'
      BY <2>1 DEF Locked
    <2> QED BY <2>1, <2>2, <2>3 DEF Locked, Watching
  <1> QED BY <1>1, <1>2, <1>3, <1>4, <1>5, <1>6, <1>7, NextKinds

\* The step that could break it is Fork: it is taken by an instance that watches
\* nothing, so there is no untold child yet.
LEMMA NextGuarded ==
  ASSUME TypeOK, Locked, Watching, Guarded, NoZombieUntold, [Next]_vars
  PROVE  Guarded' /\ NoZombieUntold'
  <1>0. 0 \notin Children
    BY ConstantFacts DEF Children
  <1>1. CASE Start
    <2>1. UNCHANGED <<watched, child, told, crashed>>
      BY <1>1, StartStep
    <2>2. CASE lock = {}
      <3>1. \A c \in Children : ~IsUntold(c)
        BY <2>2 DEF Locked, IsUntold
      <3> QED BY <2>1, <3>1 DEF Guarded, NoZombieUntold, IsUntold
    <2>3. CASE UNCHANGED <<worker, lock>>
      BY <2>1, <2>3 DEF Guarded, NoZombieUntold, IsUntold
    <2> QED BY <1>1, <2>2, <2>3, StartStep
  <1>2. CASE Aside
    BY <1>2 DEF Aside, Guarded, NoZombieUntold, IsUntold
  <1>3. CASE Fork
    <2> DEFINE new == forks + 1
    <2>1. /\ new \in Children /\ watched' = new /\ worker = "loop" /\ worker' = "watch"
          /\ child'[new] = "running" /\ told' = told
          /\ \A c \in Children : c # new => child'[c] = child[c]
      BY <1>3, ForkStep
    <2>2. watched = 0
      BY <2>1 DEF Watching
    <2> HIDE DEF new
    <2>3. \A c \in Children : ~IsUntold(c) /\ (child[c] = "zombie" => c \in told)
      BY <1>0, <2>1, <2>2 DEF Guarded, NoZombieUntold
    <2>4. \A c \in Children : IsUntold(c)' => c = new
      BY <2>1, <2>3 DEF IsUntold
    <2>5. \A c \in Children : child'[c] = "zombie" => c \in told'
      BY <2>1, <2>3
    <2> QED BY <2>1, <2>4, <2>5 DEF Guarded, NoZombieUntold
  <1>4. CASE Reap
    <2>1. /\ watched \in Children /\ child'[watched] = "gone" /\ child[watched] = "zombie"
          /\ \A c \in Children : c # watched => child'[c] = child[c]
          /\ worker = "watch" /\ worker' = "loop" /\ watched' = 0
          /\ UNCHANGED <<told, crashed>>
      BY <1>4, ReapStep
    <2>2. \A c \in Children : ~IsUntold(c)'
      BY <2>1 DEF Guarded, IsUntold
    <2>3. \A c \in Children : child'[c] = "zombie" => c \in told'
      BY <2>1 DEF NoZombieUntold
    <2> QED BY <2>1, <2>2, <2>3 DEF Guarded, NoZombieUntold
  <1>5. CASE worker = "watch" /\ Stop
    <2>1. watched \in Children
      BY <1>5, WatchedChild
    <2>2. /\ watched \in told' /\ told' = told \cup {watched} /\ worker' = "loop"
          /\ \A c \in Children : child'[c] = "running" => child[c] = "running"
          /\ \A c \in Children : child'[c] = "zombie" => child[c] = "zombie"
      BY <1>5, <2>1, StopStep
    <2>3. \A c \in Children : ~IsUntold(c)'
      BY <1>5, <2>2 DEF Guarded, IsUntold
    <2>4. \A c \in Children : child'[c] = "zombie" => c \in told'
      BY <2>2 DEF NoZombieUntold
    <2> QED BY <2>2, <2>3, <2>4 DEF Guarded, NoZombieUntold
  <1>6. CASE (CleanUp \/ Crash) /\ Down
    <2>1. /\ child' \in [Children -> {"none", "running", "gone"}]
          /\ \A c \in Children : child'[c] = "running" <=> child[c] = "running"
          /\ worker' = "down"
      BY <1>6, DownStep
    <2>2. told' = told
      BY <1>6 DEF CleanUp, Crash
    <2>3. \A c \in Children : IsUntold(c)' => IsUntold(c)
      BY <2>1, <2>2 DEF IsUntold
    <2>4. NoZombieUntold'
      BY <2>1 DEF NoZombieUntold
    <2>5. ~crashed' => \A c \in Children : ~IsUntold(c)
      <3>1. CASE CleanUp
        <4>1. worker = "ended"
          BY <3>1 DEF CleanUp
        <4>2. watched = 0
          BY <4>1 DEF Watching
        <4> QED BY <1>0, <4>1, <4>2 DEF Guarded
      <3>2. CASE Crash
        BY <3>2 DEF Crash
      <3> QED BY <1>6, <3>1, <3>2
    <2> QED BY <2>1, <2>3, <2>4, <2>5 DEF Guarded
  <1>7. ASSUME NEW c \in Children, ChildEnds(c) PROVE Guarded' /\ NoZombieUntold'
    <2>1. /\ child[c] = "running" /\ child'[c] = IF Instance \in lock THEN "zombie" ELSE "gone"
          /\ \A d \in Children : d # c => child'[d] = child[d]
          /\ UNCHANGED <<worker, watched, told, crashed>>
      BY <1>7, ChildEndsStep
    <2>2. \A d \in Children : IsUntold(d)' => IsUntold(d)
      BY <2>1 DEF IsUntold
    <2>3. ASSUME NEW d \in Children, child'[d] = "zombie", d \notin told' PROVE d = watched'
      <3>1. CASE d = c
        <4>1. Instance \in lock /\ IsUntold(c)
          BY <2>1, <2>3, <3>1 DEF IsUntold
        <4> QED BY <2>1, <3>1, <4>1 DEF Locked, Guarded
      <3>2. CASE d # c
        BY <2>1, <2>3, <3>2 DEF NoZombieUntold
      <3> QED BY <3>1, <3>2
    <2> QED BY <2>1, <2>2, <2>3 DEF Guarded, NoZombieUntold
  <1> QED BY <1>1, <1>2, <1>3, <1>4, <1>5, <1>6, <1>7, NextKinds

\* The inductive invariant.
LEMMA InitInv == Init => Inv
  <1> SUFFICES ASSUME Init PROVE Inv
    OBVIOUS
  <1>1. /\ worker = "down" /\ watched = 0 /\ lock = {} /\ ~crashed
        /\ \A c \in Children : child[c] = "none"
    BY DEF Init
  <1>2. Locked /\ Watching /\ Guarded /\ NoZombieUntold
    BY <1>1 DEF Locked, Watching, Guarded, NoZombieUntold, IsUntold
  <1> QED BY <1>2, InitTypeOK DEF Inv

\* Every step of the program, its children and the world keeps it.
LEMMA NextInv == Inv /\ [Next]_vars => Inv'
  <1> SUFFICES ASSUME Inv, [Next]_vars PROVE Inv'
    OBVIOUS
  <1>1. TypeOK'
    <2>1. CASE Next
      BY <2>1, NextTypeOK DEF Inv
    <2>2. CASE UNCHANGED vars
      BY <2>2 DEF Inv, vars, TypeOK
    <2> QED BY <2>1, <2>2
  <1> QED BY <1>1, NextLocked, NextGuarded DEF Inv

LEMMA InvCorrect == Spec => []Inv
  BY InitInv, NextInv, PTL DEF Spec

\* Every variable has its type; the thread never sleeps until a time that is no
\* number, whatever texts the plan holds (camera-switch.c:533-555, 676-693).
THEOREM ScheduleTypeCorrect == Spec => []TypeOK
  <1>1. Inv => TypeOK
    BY DEF Inv
  <1> QED BY <1>1, InvCorrect, PTL

\* At most one child runs that was not told to stop, none is left behind by a program
\* that was not killed, and none becomes a zombie that was not told, for any plan,
\* any number of children and of starts, crashes at any step
\* (camera-switch.c:121, 375-404, 696).
THEOREM ChildrenLookedAfter == Spec => []ChildrenEnd
  <1>1. ASSUME Inv PROVE ChildrenEnd
    <2>1. \A c \in Children : c \in Untold <=> IsUntold(c)
      BY DEF Untold, IsUntold
    <2>2. Untold \subseteq Children
      BY DEF Untold
    <2>3. OneCamera
      <3>1. CASE Untold = {}
        BY <3>1, FS_EmptySet DEF OneCamera
      <3>2. CASE Untold # {}
        <4>1. PICK c : c \in Untold
          BY <3>2
        <4>2. Untold = {c}
          BY <1>1, <2>1, <2>2, <4>1 DEF Inv, Guarded
        <4>3. Cardinality({c}) = 1
          BY FS_Singleton
        <4> QED BY <4>2, <4>3 DEF OneCamera
      <3> QED BY <3>1, <3>2
    <2>4. NoneLeftBehind
      <3> SUFFICES ASSUME worker \in {"down", "ended"}, ~crashed PROVE Untold = {}
        BY DEF NoneLeftBehind
      <3>1. CASE worker = "down"
        <4>1. \A c \in Children : ~IsUntold(c)
          BY <1>1, <3>1 DEF Inv, Guarded
        <4> QED BY <2>1, <2>2, <4>1
      <3>2. CASE worker = "ended"
        <4>1. watched = 0
          BY <1>1, <3>2 DEF Inv, Watching
        <4>2. 0 \notin Children
          BY ConstantFacts DEF Children
        <4>3. worker # "down"
          BY <3>2
        <4>4. \A c \in Children : ~IsUntold(c)
          BY <1>1, <4>1, <4>2, <4>3 DEF Inv, Guarded
        <4> QED BY <2>1, <2>2, <4>4
      <3> QED BY <3>1, <3>2
    <2> QED BY <1>1, <2>3, <2>4 DEF Inv, ChildrenEnd
  <1> QED BY <1>1, InvCorrect, PTL

-----------------------------------------------------------------------------
\* The alert server.  The flag busy covers a command from the decision to run it to
\* its end, so that a second one is not begun.
OneAtATime ==
  /\ running \in {0, 1}
  /\ running = 1 => abusy
  /\ apc["worker"] = "create" => abusy /\ running = 0

\* An alert on its way, from the request to the signal and from the wake-up to the
\* decision: every command has an alert or a spurious wake-up of its own.
One(b) == IF b THEN 1 ELSE 0
Asked == One(apc["main"] \in {"stamp", "signal"})
Woken == One(apc["worker"] \in {"look", "claim"} \/ (apc["worker"] = "relock" /\ ~aquit))

EachAsked ==
  /\ runs + Asked + Woken <= alerts + aspurious
  /\ apc["main"] \in {"free", "join", "freed"} => aquit

AlertInv == Alert!TypeOK /\ OneAtATime /\ EachAsked

\* A step of one thread leaves the other where it is.
LEMMA AlertGoto ==
  ASSUME Alert!TypeOK, NEW t \in {"main", "worker"}, NEW from, NEW to, Alert!Goto(t, from, to)
  PROVE  /\ apc[t] = from /\ apc'[t] = to
         /\ \A u \in {"main", "worker"} \ {t} : apc'[u] = apc[u]
         /\ apc' = [main |-> apc'["main"], worker |-> apc'["worker"]]
BY DEF Alert!TypeOK, Alert!Goto

\* A signal wakes the worker only if it waits.
LEMMA AlertWake ==
  ASSUME NEW from, NEW to, Alert!Wake(from, to)
  PROVE  /\ apc'["main"] = to
         /\ apc'["worker"] = IF apc["worker"] = "wait" THEN "relock" ELSE apc["worker"]
         /\ apc' = [main |-> apc'["main"], worker |-> apc'["worker"]]
BY DEF Alert!Wake

\* The alert has not been made.
LEMMA AlertInit == Alert!Init => AlertInv
<1> SUFFICES ASSUME Alert!Init PROVE AlertInv
  OBVIOUS
<1>1. apc["main"] = "new" /\ apc["worker"] = "none"
  BY DEF Alert!Init
<1>2. apc = [main |-> "new", worker |-> "none"]
  BY DEF Alert!Init
<1>3. 0 \in 0 .. MaxAlerts + MaxSpurious /\ 0 \in 0 .. MaxAlerts /\ 0 \in 0 .. MaxSpurious
  BY WatchersAssumption
<1>4. apc \in [main : {"new"}, worker : {"none"}]
  BY <1>2
<1>5. apc \in [main : {"new", "assign", "idle", "stamp", "signal", "free", "join", "freed"},
              worker : {"none", "assert", "aborted", "lock", "test", "sleep", "wait", "relock",
                        "look", "claim", "create", "exit"}]
  BY <1>4
<1>6. Alert!TypeOK
  BY <1>3, <1>5 DEF Alert!Init, Alert!TypeOK
<1> QED
  BY <1>1, <1>6 DEF Alert!Init, AlertInv, OneAtATime, EachAsked, Asked, Woken, One

\* Every step of the two threads, the command and the clock.
LEMMA AlertStep == AlertInv /\ [Alert!Next]_Alert!vars => AlertInv'
<1> SUFFICES ASSUME AlertInv, [Alert!Next]_Alert!vars PROVE AlertInv'
  OBVIOUS
<1> USE WatchersAssumption DEF AlertInv, Alert!TypeOK, OneAtATime, EachAsked, Asked, Woken, One,
        Alert!alertVars, Alert!historyVars, Alert!Lock, Alert!Unlock
<1>1. CASE Alert!Create
  BY <1>1 DEF Alert!Create
<1>2. CASE Alert!Assign
  BY <1>2, AlertGoto DEF Alert!Assign
<1>3. CASE Alert!Alert
  BY <1>3, AlertGoto DEF Alert!Alert
<1>4. CASE Alert!Stamp
  BY <1>4, AlertGoto DEF Alert!Stamp
<1>5. CASE Alert!Signal
  BY <1>5, AlertWake DEF Alert!Signal
<1>6. CASE Alert!Reset
  BY <1>6 DEF Alert!Reset
<1>7. CASE Alert!Free
  BY <1>7, AlertGoto DEF Alert!Free
<1>8. CASE Alert!FreeSignal
  BY <1>8, AlertWake DEF Alert!FreeSignal
<1>9. CASE Alert!Join
  BY <1>9, AlertGoto DEF Alert!Join
<1>10. CASE Alert!Assert
  BY <1>10, AlertGoto DEF Alert!Assert
<1>11. CASE Alert!Enter
  BY <1>11, AlertGoto DEF Alert!Enter
<1>12. CASE Alert!Test
  BY <1>12, AlertGoto DEF Alert!Test
<1>13. CASE Alert!Sleep
  BY <1>13, AlertGoto DEF Alert!Sleep
<1>14. CASE Alert!WakeSpuriously
  BY <1>14, AlertGoto DEF Alert!WakeSpuriously
<1>15. CASE Alert!Relock
  BY <1>15, AlertGoto DEF Alert!Relock
<1>16. CASE Alert!Look
  BY <1>16, AlertGoto DEF Alert!Look
<1>17. CASE Alert!Claim
  BY <1>17, AlertGoto DEF Alert!Claim
<1>18. CASE Alert!Start
  BY <1>18, AlertGoto DEF Alert!Start
<1>19. CASE Alert!CommandEnds
  <2>1. running = 1 /\ running' = 0 /\ apc["worker"] # "create"
    BY <1>19 DEF Alert!CommandEnds
  <2>2. abusy' = FALSE /\ UNCHANGED <<apc, priv, mutex, aquit, interval, expires, time, stamp,
                                      runs, ask, alerts, aspurious>>
    BY <1>19 DEF Alert!CommandEnds
  <2>3. Alert!TypeOK'
    BY <2>1, <2>2
  <2>4. OneAtATime'
    BY <2>1, <2>2
  <2> QED
    BY <2>2, <2>3, <2>4
<1>20. CASE Alert!Tick
  BY <1>20 DEF Alert!Tick
<1>21. CASE UNCHANGED Alert!vars
  BY <1>21 DEF Alert!vars
<1> QED
  BY <1>1, <1>2, <1>3, <1>4, <1>5, <1>6, <1>7, <1>8, <1>9, <1>10, <1>11, <1>12, <1>13, <1>14,
     <1>15, <1>16, <1>17, <1>18, <1>19, <1>20, <1>21
  DEF Alert!Next, Alert!Handler, Alert!Cleanup, Alert!Worker

\* The command of an alert never runs twice at once, over any number of alerts,
\* resets and spurious wake-ups (alert-service.c:88-106, 121-124).
THEOREM CommandsOneByOne == Alert!Spec => []Alert!OneCommand
<1>1. AlertInv => Alert!OneCommand
  BY DEF AlertInv, OneAtATime, Alert!OneCommand
<1> QED
  BY <1>1, AlertInit, AlertStep, PTL DEF Alert!Spec

-----------------------------------------------------------------------------
\* The detection window.  A picture is on its way from the signal to the queued
\* callback: as long as the ai thread is not woken spuriously there is one at most,
\* and while there is one the window is busy.
Working == spc \in {"encode", "request", "relock"} \/ (spc = "signalled" /\ ~squit)
Under == idles + One(Working)

OnePicture ==
  /\ Under <= 1 + sspurious
  /\ ~sbusy => Under <= sspurious
  /\ smain \in {"cleanup", "join", "done"} => squit
  /\ smain = "new" => spc = "none"

\* What is answered is about the picture that was encoded, and that is the one the
\* window still has.
OwnAnswer == sspurious = 0 =>
  /\ spc \in {"encode", "request", "relock"} => sframe = encoding
  /\ spc = "request" => ~answered
  /\ spc = "relock" /\ answered => encoding = result.of
  /\ idles > 0 /\ answered => sframe = result.of

ShellInv == Shell!TypeOK /\ OnePicture /\ OwnAnswer

\* Where the window is in its bounds.
ShellBounds ==
  /\ MaxFrames \in Nat /\ offered \in 0 .. MaxFrames /\ sframe \in 0 .. MaxFrames
  /\ encoding \in 0 .. MaxFrames /\ idles \in Nat /\ result.of \in 0 .. MaxFrames
  /\ MaxSpurious \in Nat /\ sspurious \in 0 .. MaxSpurious

\* The numbers among the types.
LEMMA ShellNumbers == ASSUME Shell!TypeOK PROVE ShellBounds
BY WatchersAssumption DEF Shell!TypeOK, ShellBounds

\* No picture has been offered.
LEMMA ShellFirst == Shell!Init => ShellInv
<1> SUFFICES ASSUME Shell!Init PROVE ShellInv
  OBVIOUS
<1>1. 0 \in 0 .. MaxFrames /\ 0 \in 0 .. MaxSpurious /\ 0 \in 0 .. 1 + MaxSpurious
  BY WatchersAssumption
<1>2. Shell!NoResult \in [of : 0 .. MaxFrames, found : BOOLEAN]
  BY <1>1 DEF Shell!NoResult
<1>3. Shell!TypeOK
  BY <1>1, <1>2 DEF Shell!Init, Shell!TypeOK, Shell!NoTips
<1> QED
  BY <1>3 DEF Shell!Init, ShellInv, OnePicture, OwnAnswer, Under, Working, One

\* Every step keeps the types.
LEMMA ShellTypeStep == ShellInv /\ [Shell!Next]_Shell!vars => Shell!TypeOK'
<1> SUFFICES ASSUME ShellInv, [Shell!Next]_Shell!vars PROVE Shell!TypeOK'
  OBVIOUS
<1>0. /\ spc = "relock" => idles + 1 \in 0 .. 1 + MaxSpurious
      /\ idles > 0 => idles - 1 \in 0 .. 1 + MaxSpurious
      /\ sspurious < MaxSpurious => sspurious + 1 \in 0 .. MaxSpurious
      /\ offered < MaxFrames => offered + 1 \in 0 .. MaxFrames
      /\ 0 \in 0 .. MaxFrames
      /\ smain = "new" => spc = "none"
  BY ShellNumbers DEF ShellInv, ShellBounds, OnePicture, Under, Working, One
<1> USE <1>0 DEF ShellInv, Shell!TypeOK, Shell!Worker
<1>1. CASE Shell!ShellInit
  BY <1>1 DEF Shell!ShellInit
<1>2. CASE Shell!OnNewFrame
  BY <1>2 DEF Shell!OnNewFrame, Shell!Accept, Shell!SignalWorker
<1>3. CASE Shell!Begin
  BY <1>3 DEF Shell!Begin
<1>4. CASE Shell!Check
  BY <1>4 DEF Shell!Check
<1>5. CASE Shell!Wait
  BY <1>5 DEF Shell!Wait
<1>6. CASE Shell!Spurious
  BY <1>6 DEF Shell!Spurious
<1>7. CASE Shell!Wake
  BY <1>7 DEF Shell!Wake
<1>8. CASE Shell!Encoded
  BY <1>8 DEF Shell!Encoded
<1>9. CASE Shell!OnResponse
  BY <1>9 DEF Shell!OnResponse, Shell!Predict
<1>10. CASE Shell!Fail
  BY <1>10 DEF Shell!Fail
<1>11. CASE Shell!Relock
  BY <1>11 DEF Shell!Relock
<1>12. CASE Shell!OnIdle
  BY <1>12 DEF Shell!OnIdle
<1>13. CASE Shell!MouseMove
  BY <1>13 DEF Shell!MouseMove, Shell!NoTips
<1>14. CASE Shell!Leave
  BY <1>14 DEF Shell!Leave, Shell!NoTips
<1>15. CASE Shell!OnPauseClicked
  BY <1>15 DEF Shell!OnPauseClicked, Shell!Press
<1>16. CASE Shell!OnPlayClicked
  BY <1>16 DEF Shell!OnPlayClicked, Shell!Press
<1>17. CASE Shell!ShellStop
  BY <1>17 DEF Shell!ShellStop
<1>18. CASE Shell!Quit
  BY <1>18 DEF Shell!Quit
<1>19. CASE Shell!Cleanup
  BY <1>19 DEF Shell!Cleanup, Shell!SignalWorker
<1>20. CASE Shell!Join
  BY <1>20 DEF Shell!Join
<1>21. CASE UNCHANGED Shell!vars
  BY <1>21 DEF Shell!vars
<1> QED
  BY <1>1, <1>2, <1>3, <1>4, <1>5, <1>6, <1>7, <1>8, <1>9, <1>10, <1>11, <1>12, <1>13, <1>14,
     <1>15, <1>16, <1>17, <1>18, <1>19, <1>20, <1>21
  DEF Shell!Next, Shell!Thread, Shell!Loop, Shell!Ending

\* Every step of the input, the ai thread and the main loop keeps one picture under
\* way, and it with its own answer.
LEMMA ShellPictureStep == ShellInv /\ [Shell!Next]_Shell!vars => OnePicture' /\ OwnAnswer'
<1> SUFFICES ASSUME ShellInv, [Shell!Next]_Shell!vars PROVE OnePicture' /\ OwnAnswer'
  OBVIOUS
<1>0. ShellBounds /\ squit \in BOOLEAN /\ sbusy \in BOOLEAN
  BY ShellNumbers DEF ShellInv, Shell!TypeOK
<1> USE <1>0 DEF ShellInv, ShellBounds, OnePicture, OwnAnswer, Under, Working, One,
        Shell!Worker
<1>1. CASE Shell!ShellInit
  BY <1>1 DEF Shell!ShellInit
<1>2. CASE Shell!OnNewFrame
  BY <1>2 DEF Shell!OnNewFrame, Shell!Accept, Shell!SignalWorker
<1>3. CASE Shell!Begin
  BY <1>3 DEF Shell!Begin
<1>4. CASE Shell!Check
  BY <1>4 DEF Shell!Check
<1>5. CASE Shell!Wait
  BY <1>5 DEF Shell!Wait
<1>6. CASE Shell!Spurious
  BY <1>6 DEF Shell!Spurious
<1>7. CASE Shell!Wake
  BY <1>7 DEF Shell!Wake
<1>8. CASE Shell!Encoded
  BY <1>8 DEF Shell!Encoded
<1>9. CASE Shell!OnResponse
  BY <1>9 DEF Shell!OnResponse, Shell!Predict
<1>10. CASE Shell!Fail
  BY <1>10 DEF Shell!Fail
<1>11. CASE Shell!Relock
  BY <1>11 DEF Shell!Relock
<1>12. CASE Shell!OnIdle
  BY <1>12 DEF Shell!OnIdle
<1>13. CASE Shell!MouseMove
  BY <1>13 DEF Shell!MouseMove, Shell!NoTips
<1>14. CASE Shell!Leave
  BY <1>14 DEF Shell!Leave, Shell!NoTips
<1>15. CASE Shell!OnPauseClicked
  BY <1>15 DEF Shell!OnPauseClicked, Shell!Press
<1>16. CASE Shell!OnPlayClicked
  BY <1>16 DEF Shell!OnPlayClicked, Shell!Press
<1>17. CASE Shell!ShellStop
  BY <1>17 DEF Shell!ShellStop
<1>18. CASE Shell!Quit
  BY <1>18 DEF Shell!Quit
<1>19. CASE Shell!Cleanup
  BY <1>19 DEF Shell!Cleanup, Shell!SignalWorker
<1>20. CASE Shell!Join
  BY <1>20 DEF Shell!Join
<1>21. CASE UNCHANGED Shell!vars
  BY <1>21 DEF Shell!vars
<1> QED
  BY <1>1, <1>2, <1>3, <1>4, <1>5, <1>6, <1>7, <1>8, <1>9, <1>10, <1>11, <1>12, <1>13, <1>14,
     <1>15, <1>16, <1>17, <1>18, <1>19, <1>20, <1>21
  DEF Shell!Next, Shell!Thread, Shell!Loop, Shell!Ending

\* Together they make the invariant inductive.
LEMMA ShellStep == ShellInv /\ [Shell!Next]_Shell!vars => ShellInv'
BY ShellTypeStep, ShellPictureStep DEF ShellInv

\* An answer is drawn over the picture it is about, although that is encoded without
\* the mutex, as long as the ai thread is not woken spuriously (demo-02.c:329-341).
THEOREM AnswersOwnPicture == Shell!Spec => []Shell!OwnPicture
<1>1. ShellInv => Shell!OwnPicture
  BY DEF ShellInv, OwnAnswer, Shell!OwnPicture
<1> QED
  BY <1>1, ShellFirst, ShellStep, PTL DEF Shell!Spec

-----------------------------------------------------------------------------
\* The window of a video source.  First the types and the uri of the pipeline.
Messages == {"paused", "playing", "error"}
OwnPipe == pipe # Window!NoPipe => pipe.uri = uri \/ uri \notin Valid

\* What a pipeline posts as it rises.
LEMMA RisenType ==
  ASSUME NEW from, NEW to \in {"paused", "playing"}
  PROVE  Window!Risen(from, to) \in Seq(Messages)
<1>1. to \in Messages /\ "paused" \in Messages
  BY DEF Messages
<1>2. <<>> \in Seq(Messages) /\ <<to>> \in Seq(Messages) /\ <<"paused", to>> \in Seq(Messages)
  BY <1>1
<1>3. Window!Risen(from, to) = <<>> \/ Window!Risen(from, to) = <<to>>
        \/ Window!Risen(from, to) = <<"paused", to>>
  BY DEF Window!Risen
<1> QED
  BY <1>2, <1>3

\* video_play leaves a pipeline of the uri it was given, or the old one.
LEMMA PlayResult ==
  ASSUME NEW u \in Uris, NEW anew \in BOOLEAN,
         NEW given \in [uri : Uris \cup {None}, state : {"null", "paused", "playing"}],
         NEW news \in Seq(Messages), Window!Play(u, anew, given, news), ended \in BOOLEAN,
         aborted \in BOOLEAN,
         given # Window!NoPipe /\ ~anew => given.uri = u \/ u \notin Valid
  PROVE  /\ pipe' \in [uri : Uris \cup {None}, state : {"null", "paused", "playing"}]
         /\ pipe' # Window!NoPipe => pipe'.uri = u \/ u \notin Valid
         /\ bus' \in Seq(Messages) /\ Len(bus') <= MaxNews
         /\ changed' \in BOOLEAN /\ ended' \in BOOLEAN /\ aborted' \in BOOLEAN
<1> DEFINE invalid == anew /\ u \notin Valid
           p == IF anew THEN Window!Launched(u, given) ELSE given
           risen == Window!Risen(p.state, "playing")
<1>1. risen \in Seq(Messages) /\ news \o risen \in Seq(Messages)
  BY RisenType
<1>2. /\ changed' = FALSE
      /\ IF invalid \/ p = Window!NoPipe
         THEN pipe' = p /\ bus' = news /\ UNCHANGED aborted
         ELSE /\ pipe' = Window!On(p.uri, "playing")
              /\ bus' = (IF anew THEN risen ELSE news \o risen)
              /\ aborted' \in {FALSE, p.state # "playing"}
      /\ ended' = (ended /\ p.state \in {"paused", "playing"})
      /\ Len(bus') <= MaxNews
  BY DEF Window!Play
<1>3. p.uri \in Uris \cup {None}
  BY DEF Window!Launched, Window!On
<1>4. CASE invalid \/ p = Window!NoPipe
  <2>1. pipe' = given \/ pipe' = Window!NoPipe
    BY <1>2, <1>4 DEF Window!Launched
  <2>2. Window!NoPipe \in [uri : Uris \cup {None}, state : {"null", "paused", "playing"}]
    BY DEF Window!NoPipe
  <2>3. pipe' = given => given = Window!NoPipe \/ u \notin Valid \/ given.uri = u
    BY <1>2, <1>4
  <2> QED
    BY <1>1, <1>2, <1>4, <2>1, <2>2, <2>3
<1>5. CASE ~(invalid \/ p = Window!NoPipe)
  <2>1. pipe' = [uri |-> p.uri, state |-> "playing"]
    BY <1>2, <1>5 DEF Window!On
  <2>2. p.uri = u \/ u \notin Valid
    BY <1>5 DEF Window!Launched, Window!On
  <2> QED
    BY <1>1, <1>2, <1>3, <1>5, <2>1, <2>2
<1>6. aborted' \in BOOLEAN /\ ended' \in BOOLEAN /\ changed' \in BOOLEAN
  BY <1>2
<1> QED
  BY <1>2, <1>4, <1>5, <1>6

\* The frames.  A count is no lower than the number of owners, also where two threads
\* have read it before one of them wrote it back; it is the number of owners as long
\* as that has not happened.
Places ==
  /\ wheld # 0 <=> wmain \in {"draw", "unref"}
  /\ made # 0 <=> thread \in {"made", "swap"}
  /\ thread = "swap" => current # 0
  /\ wheld <= frames /\ made <= frames /\ current <= frames
  /\ freed \subseteq 1 .. frames
  /\ {wheld, made, current} \cap freed = {}

Enough ==
  /\ \A f \in 1 .. MaxFrames : Window!Owners(f) <= refs[f] /\ refs[f] <= 1 + One(f = wheld)
  /\ wmain = "unref" => Window!Owners(wheld) <= read /\ read <= 2
  /\ thread = "swap" => Window!Owners(current) <= old /\ old <= 2

Exact == ~raced =>
  /\ \A f \in 1 .. frames : refs[f] = Window!Owners(f) /\ (f \in freed <=> refs[f] = 0)
  /\ wmain = "unref" => read = refs[wheld]
  /\ thread = "swap" => old = refs[current]
  /\ ~(wmain = "unref" /\ thread = "swap" /\ wheld = current)

WindowInv == Window!TypeOK /\ OwnPipe /\ Places /\ Enough /\ Exact

\* The window before it plays.
LEMMA WindowFirst == Window!Init => WindowInv
<1> SUFFICES ASSUME Window!Init PROVE WindowInv
  OBVIOUS
<1>1. /\ 0 \in 0 .. MaxFrames /\ 0 \in 0 .. MaxChanges /\ 0 \in 0 .. 3 /\ MaxNews \in Nat
      /\ <<>> \in Seq({"paused", "playing", "error"}) /\ Len(<<>>) = 0
      /\ Window!NoPipe \in [uri : Uris \cup {None}, state : {"null", "paused", "playing"}]
  BY WatchersAssumption DEF Window!NoPipe
<1>2. refs \in [Window!AllFrames -> 0 .. 3] /\ freed \subseteq Window!AllFrames
  BY <1>1 DEF Window!Init
<1>3. uri \in Uris /\ entered \in Uris /\ changed = TRUE /\ playable = TRUE /\ stoppable = TRUE
  BY DEF Window!Init
<1>4. Window!TypeOK
  <2>1. /\ {uri, entered} \subseteq Uris
        /\ {changed, ended, playable, stoppable, raced, aborted} \subseteq BOOLEAN
    BY <1>3 DEF Window!Init
  <2>2. {wheld, shown, made, current} \subseteq {Window!NoFrame} \cup Window!AllFrames
    BY DEF Window!Init, Window!NoFrame
  <2>3. {read, old} \subseteq 0 .. 3
    BY DEF Window!Init
  <2> QED
    BY <1>1, <1>2, <2>1, <2>2, <2>3 DEF Window!Init, Window!TypeOK
<1> QED
  BY <1>4, WatchersAssumption DEF Window!Init, WindowInv, OwnPipe, Places, Enough, Exact,
     Window!NoPipe, Window!NoFrame, Window!AllFrames, Window!Owners, One

SourceTypes ==
  /\ {uri, entered} \subseteq Uris
  /\ {changed, ended, playable, stoppable, aborted} \subseteq BOOLEAN
  /\ pipe \in [uri : Uris \cup {None}, state : {"null", "paused", "playing"}]
  /\ bus \in Seq(Messages) /\ Len(bus) <= MaxNews
  /\ changes \in 0 .. MaxChanges

\* Every step keeps the types of the source, and the uri of its pipeline.
LEMMA WindowSourceStep == WindowInv /\ [Window!Next]_Window!vars => SourceTypes' /\ OwnPipe'
<1> SUFFICES ASSUME WindowInv, [Window!Next]_Window!vars PROVE SourceTypes' /\ OwnPipe'
  OBVIOUS
<1>0. SourceTypes /\ MaxChanges \in Nat /\ MaxNews \in Nat
  BY WatchersAssumption DEF WindowInv, Window!TypeOK, SourceTypes, Messages
<1>a. Window!NoPipe \in [uri : Uris \cup {None}, state : {"null", "paused", "playing"}]
  BY DEF Window!NoPipe
<1>b. <<>> \in Seq(Messages) /\ Len(<<>>) = 0 /\ <<"error">> \in Seq(Messages)
  BY DEF Messages
<1> USE <1>0 DEF WindowInv, SourceTypes, OwnPipe, Window!sourceVars, Window!buttonVars
<1>1. CASE Window!Start
  <2>1. CASE uri \in Valid
    <3>1. Window!Play(uri, changed, pipe, bus) /\ UNCHANGED <<uri, entered, changes, playable,
                                                              stoppable>>
      BY <1>1, <2>1 DEF Window!Start
    <3> QED
      BY <3>1, PlayResult
  <2>2. CASE uri \notin Valid
    BY <1>1, <2>2 DEF Window!Start
  <2> QED
    BY <2>1, <2>2
<1>2. CASE Window!NewSample
  BY <1>2 DEF Window!NewSample
<1>3. CASE Window!Lock
  BY <1>3 DEF Window!Lock
<1>4. CASE Window!Swap
  BY <1>4 DEF Window!Swap, Window!Unref
<1>5. CASE Window!OnTimeout
  BY <1>5 DEF Window!OnTimeout, Window!Addref
<1>6. CASE Window!Draw
  BY <1>6 DEF Window!Draw
<1>7. CASE Window!Drawn
  BY <1>7 DEF Window!Drawn, Window!Unref
<1>8. CASE Window!Change
  <2> DEFINE given == [pipe EXCEPT !.state = "null"]
  <2>1. given \in [uri : Uris \cup {None}, state : {"null", "paused", "playing"}]
    OBVIOUS
  <2>2. Window!Play(entered, TRUE, given, <<>>)
    BY <1>8 DEF Window!Change, Window!SettingsChanged
  <2>3. uri' = entered /\ UNCHANGED <<entered, changes, playable, stoppable>>
    BY <1>8 DEF Window!Change
  <2> HIDE DEF given
  <2>4. /\ pipe' \in [uri : Uris \cup {None}, state : {"null", "paused", "playing"}]
        /\ pipe' # Window!NoPipe => pipe'.uri = entered \/ entered \notin Valid
        /\ bus' \in Seq(Messages) /\ Len(bus') <= MaxNews
        /\ changed' \in BOOLEAN /\ ended' \in BOOLEAN /\ aborted' \in BOOLEAN
    BY <1>b, <2>1, <2>2, PlayResult
  <2> QED
    BY <2>3, <2>4
<1>9. CASE Window!Joined
  BY <1>9, <1>a, <1>b DEF Window!Joined
<1>10. CASE Window!OnStateChanged
  BY <1>10 DEF Window!OnStateChanged
<1>11. CASE Window!OnError
  BY <1>11, <1>a, <1>b DEF Window!OnError, Window!Wait
<1>12. CASE Window!OnPlay
  <2>1. Window!Play(uri, changed, pipe, bus) /\ UNCHANGED <<uri, entered, changes, playable,
                                                            stoppable>>
    BY <1>12 DEF Window!OnPlay
  <2> QED
    BY <2>1, PlayResult
<1>13. CASE Window!OnStop
  <2>1. Window!Risen(pipe.state, "paused") \in Seq(Messages)
    BY RisenType
  <2>2. bus' \in Seq(Messages) /\ Len(bus') <= MaxNews
    BY <1>13, <2>1 DEF Window!OnStop, Window!Post
  <2>3. /\ pipe # Window!NoPipe /\ pipe' = [pipe EXCEPT !.state = "paused"]
        /\ ended' = (ended /\ pipe.state # "null")
        /\ UNCHANGED <<uri, entered, changed, changes, playable, stoppable, aborted>>
    BY <1>13 DEF Window!OnStop
  <2>4. pipe'.uri = pipe.uri
        /\ pipe' \in [uri : Uris \cup {None}, state : {"null", "paused", "playing"}]
    BY <2>3
  <2>5. ended' \in BOOLEAN
    BY <2>3
  <2> QED
    BY <2>2, <2>3, <2>4, <2>5
<1>14. CASE Window!Seek
  BY <1>14 DEF Window!Seek
<1>15. CASE Window!ShellStop
  BY <1>15 DEF Window!ShellStop, Window!Wait
<1>16. ASSUME NEW u \in Uris, Window!OnUriChanged(u) PROVE SourceTypes' /\ OwnPipe'
  BY <1>16 DEF Window!OnUriChanged, Window!Wait
<1>17. CASE Window!Fails
  <2>1. bus' \in Seq(Messages) /\ Len(bus') <= MaxNews
    BY <1>17, <1>b DEF Window!Fails, Window!Post
  <2> QED
    BY <1>17, <2>1 DEF Window!Fails
<1>18. CASE Window!Ends
  BY <1>18 DEF Window!Ends
<1>19. CASE UNCHANGED Window!vars
  BY <1>19 DEF Window!vars
<1> QED
  BY <1>1, <1>2, <1>3, <1>4, <1>5, <1>6, <1>7, <1>8, <1>9, <1>10, <1>11, <1>12, <1>13, <1>14,
     <1>15, <1>16, <1>17, <1>18, <1>19
  DEF Window!Next, Window!Thread, Window!Timer, Window!Loop, Window!User


\* The steps of the thread and the timer, one part of the invariant at a time.
FrameTypes ==
  /\ wmain \in {"new", "loop", "change", "fail", "close", "done", "draw", "unref"}
  /\ thread \in {"idle", "made", "swap"} /\ raced \in BOOLEAN
  /\ wheld \in 0 .. MaxFrames /\ shown \in 0 .. MaxFrames /\ made \in 0 .. MaxFrames
  /\ current \in 0 .. MaxFrames /\ frames \in 0 .. MaxFrames /\ MaxFrames \in Nat
  /\ refs \in [1 .. MaxFrames -> 0 .. 3] /\ read \in 0 .. 3 /\ old \in 0 .. 3
  /\ freed \subseteq 1 .. MaxFrames

FramesOK == FrameTypes /\ Places /\ Enough /\ Exact

FrameSteps == Window!Thread \/ Window!Timer

Elsewhere == {"new", "loop", "change", "fail", "close", "done"}

\* Everything else leaves the frames alone.
LEMMA WindowOtherStep ==
  ASSUME WindowInv, [Window!Next]_Window!vars, ~FrameSteps
  PROVE  /\ UNCHANGED <<wheld, read, shown, thread, made, old, frames, current, refs, freed, raced>>
         /\ wmain' = wmain \/ {wmain, wmain'} \subseteq Elsewhere
<1> USE DEF Elsewhere, Window!timerVars, Window!threadVars, Window!frameVars
<1>1. CASE Window!Start
  BY <1>1 DEF Window!Start
<1>2. CASE Window!Change
  BY <1>2 DEF Window!Change
<1>3. CASE Window!Joined
  BY <1>3 DEF Window!Joined
<1>4. CASE Window!OnStateChanged
  BY <1>4 DEF Window!OnStateChanged
<1>5. CASE Window!OnError
  BY <1>5 DEF Window!OnError, Window!Wait
<1>6. CASE Window!OnPlay
  BY <1>6 DEF Window!OnPlay
<1>7. CASE Window!OnStop
  BY <1>7 DEF Window!OnStop, Window!Post
<1>8. CASE Window!Seek
  BY <1>8 DEF Window!Seek
<1>9. CASE Window!ShellStop
  BY <1>9 DEF Window!ShellStop, Window!Wait
<1>10. CASE \E u \in Uris : Window!OnUriChanged(u)
  BY <1>10 DEF Window!OnUriChanged, Window!Wait
<1>11. CASE Window!Fails
  BY <1>11 DEF Window!Fails, Window!Post
<1>12. CASE Window!Ends
  BY <1>12 DEF Window!Ends
<1>13. CASE UNCHANGED Window!vars
  BY <1>13 DEF Window!vars
<1> QED
  BY <1>1, <1>2, <1>3, <1>4, <1>5, <1>6, <1>7, <1>8, <1>9, <1>10, <1>11, <1>12, <1>13
  DEF FrameSteps, Window!Next, Window!Loop, Window!User

\* A new frame belongs to the thread that has made it.
LEMMA NewSampleStep == ASSUME FramesOK, Window!NewSample PROVE FramesOK'
<1> USE DEF FramesOK, FrameTypes, Places
<1>0. PICK n \in Nat : n = frames + 1
  OBVIOUS
<1>1. n \in 1 .. MaxFrames /\ n > frames /\ thread = "idle" /\ made = 0
  BY <1>0 DEF Window!NewSample
<1>2. /\ refs'[n] = 1 /\ \A f \in 1 .. MaxFrames \ {n} : refs'[f] = refs[f]
      /\ refs' \in [1 .. MaxFrames -> 0 .. 3]
  BY <1>0, <1>1 DEF Window!NewSample
<1>3. /\ thread' = "made" /\ made' = n /\ frames' = n
      /\ UNCHANGED <<wmain, wheld, read, shown, old, current, freed, raced>>
  BY <1>0 DEF Window!NewSample, Window!timerVars
<1>4. /\ Window!Owners(n)' = 1 /\ Window!Owners(n) = 0
      /\ \A f \in 1 .. MaxFrames \ {n} : Window!Owners(f)' = Window!Owners(f)
  BY <1>1, <1>3 DEF Window!Owners
<1>5. FrameTypes' /\ Places'
  BY <1>1, <1>2, <1>3
<1>6. Enough'
  BY <1>1, <1>2, <1>3, <1>4 DEF Enough, One
<1>7. Exact'
  BY <1>0, <1>1, <1>2, <1>3, <1>4 DEF Exact
<1> QED
  BY <1>5, <1>6, <1>7

\* The lock is where the thread reads the count of the frame it replaces.
LEMMA LockStep == ASSUME FramesOK, Window!Lock PROVE FramesOK'
<1> USE DEF FramesOK, FrameTypes, Places, Window!NoFrame
<1>1. /\ thread = "made" /\ made # 0
      /\ UNCHANGED <<wmain, wheld, read, shown, frames, refs, freed>>
  BY DEF Window!Lock, Window!timerVars
<1>2. CASE current = 0
  <2>1. thread' = "idle" /\ current' = made /\ made' = 0 /\ UNCHANGED <<old, raced>>
    BY <1>2 DEF Window!Lock
  <2>2. \A f \in 1 .. MaxFrames : Window!Owners(f)' = Window!Owners(f)
    BY <1>1, <1>2, <2>1 DEF Window!Owners
  <2>3. wmain = "unref" => wheld \in 1 .. MaxFrames
    OBVIOUS
  <2>4. Enough'
    BY <1>1, <2>1, <2>2, <2>3 DEF Enough, One
  <2>5. Exact'
    BY <1>1, <1>2, <2>1, <2>2 DEF Exact
  <2> QED
    BY <1>1, <1>2, <2>1, <2>4, <2>5
<1>3. CASE current # 0
  <2>1. /\ thread' = "swap" /\ old' = refs[current] /\ UNCHANGED <<current, made>>
        /\ raced' = (raced \/ (wmain = "unref" /\ wheld = current))
    BY <1>3 DEF Window!Lock
  <2>2. \A f : Window!Owners(f)' = Window!Owners(f)
    BY <1>1, <2>1 DEF Window!Owners
  <2>3. Enough'
    BY <1>1, <1>3, <2>1, <2>2 DEF Enough, One
  <2>4. Exact'
    BY <1>1, <1>3, <2>1, <2>2 DEF Exact
  <2> QED
    BY <1>1, <1>3, <2>1, <2>3, <2>4
<1> QED
  BY <1>2, <1>3

\* The new frame takes the place of the old one, whose count is written back.
LEMMA SwapStep == ASSUME FramesOK, Window!Swap PROVE FramesOK'
<1> USE DEF FramesOK, FrameTypes, Places, Window!NoFrame
<1>0. PICK c \in 1 .. MaxFrames : c = current
  BY DEF Window!Swap
<1>1. /\ thread = "swap" /\ thread' = "idle" /\ made # 0 /\ old \in 1 .. 2
      /\ current' = made /\ made' = 0 /\ old' = 0
      /\ UNCHANGED <<wmain, wheld, read, shown, frames, raced>>
  BY <1>0 DEF Window!Swap, Window!timerVars, Enough, Window!Owners
<1>2. /\ refs'[c] = old - 1 /\ \A f \in 1 .. MaxFrames \ {c} : refs'[f] = refs[f]
      /\ refs' \in [1 .. MaxFrames -> 0 .. 3]
      /\ freed' = IF old = 1 THEN freed \cup {c} ELSE freed
  BY <1>0, <1>1 DEF Window!Swap, Window!Unref
<1>3. /\ Window!Owners(c)' = Window!Owners(c) - 1
      /\ \A f \in 1 .. MaxFrames \ {c} : Window!Owners(f)' = Window!Owners(f)
      /\ \A f : Window!Owners(f) \in Nat
  BY <1>0, <1>1 DEF Window!Owners
<1>4. old = 1 => wheld # c /\ made # c
  BY <1>0, <1>1 DEF Enough, Window!Owners
<1>5. FrameTypes' /\ Places'
  BY <1>0, <1>1, <1>2, <1>4
<1>6. Enough'
  <2>1. Window!Owners(c)' <= refs'[c] /\ refs'[c] <= 1 + One(c = wheld')
    BY <1>0, <1>1, <1>2, <1>3 DEF Enough, One
  <2>2. ASSUME NEW f \in 1 .. MaxFrames \ {c}
        PROVE  Window!Owners(f)' <= refs'[f] /\ refs'[f] <= 1 + One(f = wheld')
    <3>1. Window!Owners(f) <= refs[f] /\ refs[f] <= 1 + One(f = wheld)
      BY DEF Enough
    <3> QED
      BY <3>1, <1>1, <1>2, <1>3
  <2>3. (wmain = "unref" => Window!Owners(wheld) <= read /\ read <= 2)'
    BY <1>0, <1>1 DEF Enough, Window!Owners
  <2>4. thread' # "swap"
    BY <1>1
  <2> QED
    BY <2>1, <2>2, <2>3, <2>4, <1>0 DEF Enough
<1>7. Exact'
  BY <1>0, <1>1, <1>2, <1>3 DEF Exact
<1> QED
  BY <1>5, <1>6, <1>7

\* The window takes a reference of the current frame under the mutex.
LEMMA TimeoutStep == ASSUME FramesOK, Window!OnTimeout PROVE FramesOK'
<1> USE DEF FramesOK, FrameTypes, Places, Window!NoFrame
<1>0. PICK c \in 1 .. MaxFrames : c = current
  BY DEF Window!OnTimeout
<1>1. /\ wmain' = "draw" /\ wheld = 0 /\ wheld' = c /\ thread # "swap"
      /\ UNCHANGED <<read, shown, thread, made, old, frames, current, freed, raced>>
  BY <1>0 DEF Window!OnTimeout, Window!threadVars
<1>2. refs[c] <= 1
  BY <1>0, <1>1 DEF Enough, One
<1>3. /\ refs'[c] = refs[c] + 1 /\ \A f \in 1 .. MaxFrames \ {c} : refs'[f] = refs[f]
      /\ refs' \in [1 .. MaxFrames -> 0 .. 3]
  BY <1>0, <1>2 DEF Window!OnTimeout, Window!Addref
<1>4. /\ Window!Owners(c)' = Window!Owners(c) + 1
      /\ \A f \in 1 .. MaxFrames \ {c} : Window!Owners(f)' = Window!Owners(f)
      /\ \A f : Window!Owners(f) \in Nat
  BY <1>0, <1>1 DEF Window!Owners
<1>5. FrameTypes' /\ Places'
  BY <1>0, <1>1, <1>3
<1>6. Enough'
  BY <1>0, <1>1, <1>2, <1>3, <1>4 DEF Enough, One
<1>7. Exact'
  BY <1>0, <1>1, <1>3, <1>4 DEF Exact
<1> QED
  BY <1>5, <1>6, <1>7

\* It reads the count without the mutex,
LEMMA DrawStep == ASSUME FramesOK, Window!Draw PROVE FramesOK'
<1> USE DEF FramesOK, FrameTypes, Places, Window!NoFrame
<1>1. /\ wmain = "draw" /\ wmain' = "unref" /\ shown' = wheld /\ read' = refs[wheld]
      /\ raced' = (raced \/ (thread = "swap" /\ wheld = current))
      /\ wheld \in 1 .. MaxFrames
      /\ UNCHANGED <<wheld, thread, made, old, frames, current, refs, freed>>
  BY DEF Window!Draw, Window!threadVars
<1>2. \A f : Window!Owners(f)' = Window!Owners(f)
  BY <1>1 DEF Window!Owners
<1>3. Enough'
  BY <1>1, <1>2 DEF Enough, One
<1>4. Exact'
  BY <1>1, <1>2 DEF Exact
<1> QED
  BY <1>1, <1>3, <1>4

\* and writes it back without the mutex.
LEMMA DrawnStep == ASSUME FramesOK, Window!Drawn PROVE FramesOK'
<1> USE DEF FramesOK, FrameTypes, Places, Window!NoFrame
<1>0. PICK h \in 1 .. MaxFrames : h = wheld
  BY DEF Window!Drawn
<1>1. /\ wmain = "unref" /\ wmain' = "loop" /\ wheld' = 0 /\ read' = 0 /\ read \in 1 .. 2
      /\ UNCHANGED <<shown, thread, made, old, frames, current, raced>>
  BY <1>0 DEF Window!Drawn, Window!threadVars, Enough, Window!Owners
<1>2. /\ refs'[h] = read - 1 /\ \A f \in 1 .. MaxFrames \ {h} : refs'[f] = refs[f]
      /\ refs' \in [1 .. MaxFrames -> 0 .. 3]
      /\ freed' = IF read = 1 THEN freed \cup {h} ELSE freed
  BY <1>0, <1>1 DEF Window!Drawn, Window!Unref
<1>3. /\ Window!Owners(h)' = Window!Owners(h) - 1
      /\ \A f \in 1 .. MaxFrames \ {h} : Window!Owners(f)' = Window!Owners(f)
      /\ \A f : Window!Owners(f) \in Nat
  BY <1>0, <1>1 DEF Window!Owners
<1>4. read = 1 => current # h /\ made # h
  BY <1>0, <1>1 DEF Enough, Window!Owners
<1>5. FrameTypes' /\ Places'
  BY <1>0, <1>1, <1>2, <1>4
<1>6. Enough'
  <2>1. Window!Owners(h)' <= refs'[h] /\ refs'[h] <= 1 + One(h = wheld')
    BY <1>0, <1>1, <1>2, <1>3 DEF Enough, One
  <2>2. ASSUME NEW f \in 1 .. MaxFrames \ {h}
        PROVE  Window!Owners(f)' <= refs'[f] /\ refs'[f] <= 1 + One(f = wheld')
    <3>1. Window!Owners(f) <= refs[f] /\ refs[f] <= 1 + One(f = wheld) /\ One(f = wheld) = 0
      BY <1>0 DEF Enough, One
    <3>2. One(f = wheld') = 0
      BY <1>1 DEF One
    <3> QED
      BY <3>1, <3>2, <1>2, <1>3
  <2>3. (thread = "swap" => Window!Owners(current) <= old /\ old <= 2)'
    BY <1>0, <1>1 DEF Enough, Window!Owners
  <2>4. wmain' # "unref"
    BY <1>1
  <2> QED
    BY <2>1, <2>2, <2>3, <2>4, <1>0 DEF Enough
<1>7. Exact'
  BY <1>0, <1>1, <1>2, <1>3 DEF Exact
<1> QED
  BY <1>5, <1>6, <1>7

\* The parts make up the invariant.
LEMMA WindowParts == WindowInv <=> FramesOK /\ SourceTypes /\ OwnPipe
<1>1. WindowInv => FramesOK /\ SourceTypes /\ OwnPipe
  <2> SUFFICES ASSUME WindowInv PROVE FramesOK /\ SourceTypes /\ OwnPipe
    OBVIOUS
  <2>1. FrameTypes
    <3>1. Window!TypeOK /\ Places
      BY DEF WindowInv
    <3>2. MaxFrames \in Nat
      BY WatchersAssumption
    <3> QED
      BY <3>1, <3>2 DEF Window!TypeOK, FrameTypes, Window!AllFrames, Window!NoFrame
  <2>2. SourceTypes
    BY DEF WindowInv, Window!TypeOK, SourceTypes, Messages
  <2> QED
    BY <2>1, <2>2 DEF WindowInv, FramesOK
<1>2. FramesOK /\ SourceTypes /\ OwnPipe => WindowInv
  BY DEF WindowInv, Window!TypeOK, FramesOK, FrameTypes, SourceTypes, Messages,
     Window!AllFrames, Window!NoFrame
<1> QED
  BY <1>1, <1>2

\* The invariant of the window is inductive.
LEMMA WindowStep == WindowInv /\ [Window!Next]_Window!vars => WindowInv'
<1> SUFFICES ASSUME WindowInv, [Window!Next]_Window!vars PROVE FramesOK' /\ SourceTypes' /\ OwnPipe'
  BY WindowParts, PTL
<1>1. FramesOK /\ (~aborted \/ UNCHANGED Window!vars)
  BY WindowParts DEF Window!Next
<1>2. ASSUME FrameSteps PROVE FramesOK'
  BY <1>1, <1>2, NewSampleStep, LockStep, SwapStep, TimeoutStep, DrawStep, DrawnStep
  DEF FrameSteps, Window!Thread, Window!Timer
<1>3. ASSUME ~FrameSteps PROVE FramesOK'
  <2>1. /\ UNCHANGED <<wheld, read, shown, thread, made, old, frames, current, refs, freed, raced>>
        /\ wmain' = wmain \/ {wmain, wmain'} \subseteq Elsewhere
    BY <1>3, WindowOtherStep
  <2>2. FrameTypes'
    BY <1>1, <2>1 DEF FramesOK, FrameTypes, Elsewhere
  <2>3. \A f : Window!Owners(f)' = Window!Owners(f)
    BY <2>1 DEF Window!Owners
  <2>4. Places'
    BY <1>1, <2>1 DEF FramesOK, Places, Elsewhere
  <2>5. Enough'
    BY <1>1, <2>1, <2>3 DEF FramesOK, FrameTypes, Enough, Elsewhere, One
  <2>6. Exact'
    BY <1>1, <2>1, <2>3 DEF FramesOK, FrameTypes, Exact, Elsewhere
  <2> QED
    BY <2>2, <2>4, <2>5, <2>6 DEF FramesOK
<1> QED
  BY <1>2, <1>3, WindowSourceStep

\* The window plays the video its entry names, over errors, changes and buttons,
\* except after a uri that cannot be played (video_source_common.c:442-488, 628).
THEOREM PlaysOwnVideo == Window!Spec => []Window!OwnVideo
<1>1. WindowInv => Window!OwnVideo
  BY DEF WindowInv, OwnPipe, Window!OwnVideo, Window!NoPipe
<1> QED
  BY <1>1, WindowFirst, WindowStep, PTL DEF Window!Spec

\* No frame that is drawn, current or new is freed, although the window writes its
\* count without the mutex; where the two threads do not collide, a frame is freed
\* with its last user (video_source_common.c:477, 1030).
THEOREM FramesStayAlive == Window!Spec => []Window!FramesAreHeld
<1>1. WindowInv => Window!FramesAreHeld
  BY DEF WindowInv, Places, Exact, Window!FramesAreHeld
<1> QED
  BY <1>1, WindowFirst, WindowStep, PTL DEF Window!Spec

-----------------------------------------------------------------------------
\* The composition.
WatchersInv == AlertInv /\ Inv /\ ShellInv /\ WindowInv

\* A step of it is a step of each of its components, or leaves them alone.
LEMMA WatchersCorrect == MCSpec => []WatchersInv
<1>1. MCInit => WatchersInv
  BY AlertInit, InitInv, ShellFirst, WindowFirst DEF MCInit, WatchersInv
<1>2. [MCNext]_allVars => /\ [Alert!Next]_Alert!vars /\ [Next]_vars
                          /\ [Shell!Next]_Shell!vars /\ [Window!Next]_Window!vars
  BY DEF MCNext, OfAlert, OfSchedule, OfShell, OfWindow, allVars, alertVars, scheduleVars,
     shellVars, windowVars, Alert!vars, Alert!alertVars, Alert!historyVars, Shell!vars, Window!vars
<1>3. WatchersInv /\ [MCNext]_allVars => WatchersInv'
  BY <1>2, AlertStep, NextInv, ShellStep, WindowStep DEF WatchersInv
<1> QED
  BY <1>1, <1>3, PTL DEF MCSpec

\* The programs that watch cameras are well-typed.
THEOREM WatchersTypeCorrect == MCSpec => []MCTypeOK
<1>1. WatchersInv => MCTypeOK
  BY DEF WatchersInv, AlertInv, Inv, ShellInv, WindowInv, MCTypeOK
<1> QED
  BY <1>1, WatchersCorrect, PTL

\* In the composition too a command runs once at a time (alert-service.c:88-124),
THEOREM WatchersRunOneCommand == MCSpec => []OneCommandRuns
<1>1. WatchersInv => OneCommandRuns
  BY DEF WatchersInv, AlertInv, OneAtATime, OneCommandRuns, Alert!OneCommand
<1> QED
  BY <1>1, WatchersCorrect, PTL

\* and windows show what belongs together (demo-02.c:329-341,
\* video_source_common.c:442-488, 1028-1030).
THEOREM WatchersShowOwnPicture == MCSpec => []OwnPicture
<1>1. WatchersInv => OwnPicture
  BY DEF WatchersInv, ShellInv, OwnAnswer, WindowInv, OwnPipe, Places, Exact, OwnPicture,
     Shell!OwnPicture, Window!OwnVideo, Window!FramesAreHeld, Window!NoPipe
<1> QED
  BY <1>1, WatchersCorrect, PTL
=============================================================================
