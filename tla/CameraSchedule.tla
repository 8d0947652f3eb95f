--------------------------- MODULE CameraSchedule ---------------------------
(***************************************************************************)
(* The camera switch of the raspberry pi (raspi4/src/camera-switch.c): one *)
(* instance per machine, guarded by a locked file; a thread that follows a *)
(* weekly plan, forks a child for the hours of a range, and tells it to    *)
(* stop (SIGUSR2) after them; a web service whose end stops everything.    *)
(*                                                                         *)
(* Children inherit the descriptor of the locked file.  The instance may   *)
(* be killed and started again while a child of it still runs.             *)
(***************************************************************************)
EXTENDS Integers, Sequences, FiniteSets

CONSTANTS Hours, Minutes, \* of a day, of an hour: 24 and 60
          Days,           \* bound: days the clock runs
          Plans,          \* the plans a configuration can hold: masks and texts of ranges
          MaxForks,       \* bound: children ever forked
          MaxStarts       \* bound: times the program is started

\* What a configuration may hold: a mask per day, and texts "hh:mm-hh:mm" that may
\* lack their end or be unreadable.
Time == [hour : Int, min : Int]
Text == [has : {"nothing"}] \cup [has : {"begin"}, begin : Time]
          \cup [has : {"both"}, begin : Time, end : Time]

ASSUME ScheduleAssumption ==
  /\ Hours \in Nat \ {0} /\ Minutes \in Nat \ {0} /\ Days \in Nat
  /\ Plans \subseteq [masks : Seq(BOOLEAN), texts : Seq(Text)]
  /\ MaxForks \in Nat /\ MaxStarts \in Nat

Children == 1 .. MaxForks
Instance == 0          \* the supervising process, beside its children

VARIABLES clock,    \* minutes since the first midnight
          plan,     \* active_plan
          worker,   \* where app_schedule_run stands
          wake,     \* when its sleep ends at the latest
          watched,  \* pid: the child app_health_check looks after, 0 for -1
          range,    \* activated_range_index
          web,      \* the web service runs
          quit,     \* g_quit
          lock,     \* processes that hold the locked file open
          child,    \* state of every child process
          told,     \* children that were sent SIGUSR2
          crashed,  \* an instance was killed
          forks, starts

vars == <<clock, plan, worker, wake, watched, range, web, quit, lock, child, told,
          crashed, forks, starts>>

ClockHour == (clock \div Minutes) % Hours
ClockMinute == clock % Minutes
WeekDay == (clock \div (Hours * Minutes)) % 7

-----------------------------------------------------------------------------
\* Times are minutes of the day.  A text that lacks its end has end 0, one that
\* cannot be read at all has both 0.
NoTime == [hour |-> 0, min |-> 0]
TimeRange(text) ==
  [begin |-> IF text.has = "nothing" THEN NoTime ELSE text.begin,
   end |-> IF text.has = "both" THEN text.end ELSE NoTime]

\* schedule_plan_load_config: days beyond the masks given are off.
LoadedPlan(config) ==
  [masks |-> [d \in 0 .. 6 |-> d + 1 \in DOMAIN config.masks /\ config.masks[d + 1]],
   ranges |-> [i \in DOMAIN config.texts |-> TimeRange(config.texts[i])]]

OfTheDay(time) == time.hour * Minutes + time.min

\* seconds_of_the_day, line 661: the hour counts twice, the minute never.
SecondsOfTheDay == ClockHour * Minutes + ClockHour

Matching == {i \in DOMAIN plan.ranges :
               /\ SecondsOfTheDay >= OfTheDay(plan.ranges[i].begin)
               /\ SecondsOfTheDay < OfTheDay(plan.ranges[i].end)}

\* Line 389 compares the minute of the clock with the hour of the end.
PastEnd ==
  LET end == plan.ranges[range].end IN
  ClockHour > end.hour \/ (ClockHour = end.hour /\ ClockMinute > end.hour)

-----------------------------------------------------------------------------
NoPlan == [masks |-> [d \in 0 .. 6 |-> FALSE], ranges |-> <<>>]

Init ==
  /\ clock = 0
  /\ plan = NoPlan
  /\ worker = "down" /\ wake = 0 /\ watched = 0 /\ range = 0
  /\ web = FALSE /\ quit = FALSE
  /\ lock = {}
  /\ child = [c \in Children |-> "none"] /\ told = {}
  /\ crashed = FALSE
  /\ forks = 0 /\ starts = 0

\* make_single_instance_app: flock without waiting, on a newly opened file.
LockIsFree == lock = {}

\* main: the lock first; without it the program exits at once.
Start ==
  /\ worker = "down" /\ starts < MaxStarts
  /\ starts' = starts + 1
  /\ IF LockIsFree
     THEN /\ \E config \in Plans : plan' = LoadedPlan(config)
          /\ worker' = "loop" /\ web' = TRUE /\ quit' = FALSE
          /\ lock' = {Instance}
     ELSE UNCHANGED <<plan, worker, web, quit, lock>>
  /\ UNCHANGED <<clock, wake, watched, range, child, told, crashed, forks>>

Sleep(most) == worker' = "sleep" /\ wake' = clock + most

\* A day whose mask is off: an hour of sleep.
RestDay ==
  /\ worker = "loop" /\ ~quit
  /\ ~plan.masks[WeekDay]
  /\ Sleep(Minutes)
  /\ UNCHANGED <<clock, plan, watched, range, web, quit, lock, child, told, crashed,
                 forks, starts>>

\* No range now: sleep until the first one begins, or five minutes.
AwaitRange ==
  /\ worker = "loop" /\ ~quit
  /\ plan.masks[WeekDay] /\ Matching = {}
  /\ LET first == OfTheDay(plan.ranges[1].begin) IN
     Sleep(IF plan.ranges # <<>> /\ SecondsOfTheDay < first
           THEN first - SecondsOfTheDay ELSE 1)
  /\ UNCHANGED <<clock, plan, watched, range, web, quit, lock, child, told, crashed,
                 forks, starts>>

\* sleep ends in time, or earlier with a signal.
Wake ==
  /\ worker = "sleep"
  /\ worker' = "loop"
  /\ UNCHANGED <<clock, plan, wake, watched, range, web, quit, lock, child, told, crashed,
                 forks, starts>>

Due == worker = "loop" /\ ~quit /\ plan.masks[WeekDay] /\ Matching # {}

ForkClosesLock ==
  /\ Due /\ forks < MaxForks
  /\ forks' = forks + 1
  /\ child' = [child EXCEPT ![forks + 1] = "running"]
  /\ watched' = forks + 1 /\ worker' = "watch"
  /\ range' = CHOOSE i \in Matching : \A j \in Matching : i <= j
  /\ UNCHANGED <<clock, plan, wake, web, quit, lock, told, crashed, starts>>

Fork ==
  /\ Due /\ forks < MaxForks
  /\ forks' = forks + 1
  /\ child' = [child EXCEPT ![forks + 1] = "running"]
  /\ lock' = lock \cup {forks + 1}
  /\ watched' = forks + 1 /\ worker' = "watch"
  /\ range' = CHOOSE i \in Matching : \A j \in Matching : i <= j
  /\ UNCHANGED <<clock, plan, wake, web, quit, told, crashed, starts>>

\* fork fails: the thread returns, the web service stays.
ForkFails ==
  /\ Due
  /\ worker' = "ended"
  /\ UNCHANGED <<clock, plan, wake, watched, range, web, quit, lock, child, told, crashed,
                 forks, starts>>

\* app_health_check: the child ended by itself.
Reap ==
  /\ worker = "watch" /\ ~quit /\ child[watched] = "zombie"
  /\ child' = [child EXCEPT ![watched] = "gone"]
  /\ worker' = "loop" /\ watched' = 0
  /\ UNCHANGED <<clock, plan, wake, range, web, quit, lock, told, crashed, forks, starts>>

\* SIGUSR2, and a waitpid that does not wait: a child that is gone already is
\* reaped, any other is forgotten with its pid.
Stop ==
  /\ told' = told \cup {watched}
  /\ \/ child[watched] = "zombie" /\ child' = [child EXCEPT ![watched] = "gone"] /\ UNCHANGED lock
     \/ /\ child[watched] = "running"
        /\ child' = [child EXCEPT ![watched] = "gone"] /\ lock' = lock \ {watched}
     \/ child[watched] = "running" /\ UNCHANGED <<child, lock>>
  /\ worker' = "loop" /\ watched' = 0
  /\ UNCHANGED <<clock, plan, wake, range, web, quit, crashed, forks, starts>>

Expire == worker = "watch" /\ ~quit /\ child[watched] = "running" /\ PastEnd /\ Stop

LeaveRunning ==
  /\ worker = "watch" /\ quit
  /\ worker' = "loop" /\ watched' = 0
  /\ UNCHANGED <<clock, plan, wake, range, web, quit, lock, child, told, crashed, forks, starts>>

\* The health check ends with the program, and the child with it.
StopOnQuit == worker = "watch" /\ quit /\ Stop

EndOfSchedule ==
  /\ worker = "loop" /\ quit
  /\ worker' = "ended"
  /\ UNCHANGED <<clock, plan, wake, watched, range, web, quit, lock, child, told, crashed,
                 forks, starts>>

-----------------------------------------------------------------------------
\* SIGUSR1 stops the schedule only.
Signal ==
  /\ worker # "down" /\ ~quit
  /\ quit' = TRUE
  /\ UNCHANGED <<clock, plan, worker, wake, watched, range, web, lock, child, told, crashed,
                 forks, starts>>

\* SIGINT ends the main loop of the web service, and with it the schedule.
EndWebService ==
  /\ web
  /\ web' = FALSE /\ quit' = TRUE
  /\ UNCHANGED <<clock, plan, worker, wake, watched, range, lock, child, told, crashed,
                 forks, starts>>

\* Zombies of an instance that ends are reaped by init.
Orphaned == [c \in Children |-> IF child[c] = "zombie" THEN "gone" ELSE child[c]]

Down == worker' = "down" /\ watched' = 0 /\ lock' = lock \ {Instance} /\ child' = Orphaned

\* main joins the thread; app_instance_cleanup closes the locked file.
CleanUp ==
  /\ worker = "ended" /\ ~web
  /\ Down
  /\ UNCHANGED <<clock, plan, wake, range, web, quit, told, crashed, forks, starts>>

Crash ==
  /\ worker # "down"
  /\ Down
  /\ web' = FALSE /\ crashed' = TRUE
  /\ UNCHANGED <<clock, plan, wake, range, quit, told, forks, starts>>

ChildEnds(c) ==
  /\ child[c] = "running"
  /\ child' = [child EXCEPT ![c] = IF Instance \in lock THEN "zombie" ELSE "gone"]
  /\ lock' = lock \ {c}
  /\ UNCHANGED <<clock, plan, worker, wake, watched, range, web, quit, told, crashed,
                 forks, starts>>

\* A minute passes; the thread is not slower than that.
Tick ==
  /\ clock + 1 < Days * Hours * Minutes
  /\ worker # "loop" /\ ~(worker = "sleep" /\ clock = wake)
  /\ ~(worker = "watch" /\ (quit \/ PastEnd))
  /\ clock' = clock + 1
  /\ UNCHANGED <<plan, worker, wake, watched, range, web, quit, lock, child, told, crashed,
                 forks, starts>>

Next ==
  \/ Start \/ RestDay \/ AwaitRange \/ Wake \/ Fork \/ ForkFails \/ Reap \/ Expire
  \/ StopOnQuit \/ EndOfSchedule \/ Signal \/ EndWebService \/ CleanUp \/ Crash \/ Tick
  \/ \E c \in Children : ChildEnds(c)

Spec == Init /\ [][Next]_vars

\* Threads run on and sleeps end; nobody is obliged to start, to stop or to kill
\* the program, and no child to obey.
WorkerRuns == RestDay \/ AwaitRange \/ Fork \/ Wake \/ Reap \/ Expire \/ StopOnQuit

Fairness == WF_vars(WorkerRuns) /\ WF_vars(EndOfSchedule) /\ WF_vars(CleanUp)

LiveSpec == Spec /\ Fairness

-----------------------------------------------------------------------------
TypeOK ==
  /\ clock \in 0 .. Days * Hours * Minutes
  /\ plan \in [masks : [0 .. 6 -> BOOLEAN], ranges : Seq([begin : Time, end : Time])]
  /\ worker \in {"down", "loop", "sleep", "watch", "ended"}
  /\ wake \in Nat
  /\ watched \in {0} \cup Children
  /\ web \in BOOLEAN /\ quit \in BOOLEAN /\ crashed \in BOOLEAN
  /\ lock \subseteq {Instance} \cup Children
  /\ child \in [Children -> {"none", "running", "zombie", "gone"}]
  /\ told \subseteq Children
  /\ forks \in 0 .. MaxForks /\ starts \in 0 .. MaxStarts

\* At any time at most one child was not told to stop, over crashes and restarts
\* of the supervisor too: the lock its children inherited keeps a second
\* instance out while they run (camera-switch.c:121, 696).
Untold == {c \in Children : child[c] = "running"} \ told
OneCamera == Cardinality(Untold) <= 1

\* A program that was not killed leaves no child behind that does not know it
\* has to end (camera-switch.c:404), whenever the signal came.
NoneLeftBehind == worker \in {"down", "ended"} /\ ~crashed => Untold = {}

\* A child that ended by itself is reaped: only one that was told to stop may be
\* forgotten with its exit status unread (camera-switch.c:375, 394).
NoZombieUntold ==
  \A c \in Children : child[c] = "zombie" /\ c \notin told => c = watched

\* The three of them, for every child the program ever forks.
ChildrenEnd == OneCamera /\ NoneLeftBehind /\ NoZombieUntold

\* After SIGINT the program comes to its end, whatever it was doing.
Stopping == worker # "down" /\ ~web
Stopped == worker = "down"
=============================================================================
