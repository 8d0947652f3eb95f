---------------------------- MODULE AlertService ----------------------------
(***************************************************************************)
(* One alert of the alert server (raspi4/src/alert-service.c).  The main   *)
(* thread creates the alert with its worker thread, then answers /alert    *)
(* and /reset; alert_notify refuses an alert while a command runs or until *)
(* the last one expires, and otherwise wakes the worker with a condition   *)
(* variable.  The worker has no predicate to test: it takes every wake-up, *)
(* also a spurious one, as an alert, and starts the command in a detached  *)
(* thread unless one is running.  alert_data_free stops the worker.        *)
(***************************************************************************)
EXTENDS Integers

CONSTANTS None,         \* nobody holds priv->mutex
          Intervals,    \* configured seconds between two alerts
          MaxTime,      \* bound: seconds that pass
          MaxAlerts,    \* bound: /alert requests
          MaxSpurious   \* bound: spurious wake-ups

VARIABLES pc,        \* where the main thread and the worker are
          priv,      \* alert->priv has been assigned
          mutex,     \* holder of priv->mutex
          busy,      \* alert->busy
          quit,      \* alert->quit
          interval,  \* alert->interval
          expires,   \* alert->expires_at
          clock,     \* seconds
          stamp,     \* time at which on_alert was called
          running,   \* commands that are being executed
          runs,      \* commands the worker has decided to run
          ask,       \* runs when the last request came
          alerts, spurious   \* counted for the bounds

alertVars == <<busy, quit, interval, expires>>
historyVars == <<runs, ask, alerts, spurious>>
vars == <<pc, priv, mutex, alertVars, clock, stamp, running, historyVars>>

Goto(t, from, to) == pc[t] = from /\ pc' = [pc EXCEPT ![t] = to]
Lock(t) == mutex = None /\ mutex' = t
Unlock == mutex' = None

Init ==
  /\ pc = [main |-> "new", worker |-> "none"]
  /\ priv = FALSE
  /\ mutex = None
  /\ busy = FALSE /\ quit = FALSE
  /\ interval \in Intervals
  /\ expires = 0
  /\ clock = 1
  /\ stamp = 0
  /\ running = 0
  /\ runs = 0 /\ ask = 0 /\ alerts = 0 /\ spurious = 0

-----------------------------------------------------------------------------
\* alert_data_private_new starts the worker, then alert_data_new stores priv.
Create ==
  /\ pc = [main |-> "new", worker |-> "none"]
  /\ pc' = [main |-> "assign", worker |-> "assert"]
  /\ UNCHANGED <<priv, mutex, alertVars, clock, stamp, running, historyVars>>

Assign ==
  /\ Goto("main", "assign", "idle")
  /\ priv' = TRUE
  /\ UNCHANGED <<mutex, alertVars, clock, stamp, running, historyVars>>

\* on_alert: take the time, then alert_notify looks whether a command runs ...
Alert ==
  /\ alerts < MaxAlerts
  /\ Goto("main", "idle", IF busy THEN "idle" ELSE "stamp")
  /\ stamp' = clock
  /\ ask' = runs
  /\ alerts' = alerts + 1
  /\ UNCHANGED <<priv, mutex, alertVars, clock, running, runs, spurious>>

\* ... then whether the last alert has expired ...
Stamp ==
  /\ \/ /\ stamp < expires
        /\ Goto("main", "stamp", "idle")
        /\ UNCHANGED expires
     \/ /\ stamp >= expires
        /\ Goto("main", "stamp", "signal")
        /\ expires' = stamp + interval
  /\ UNCHANGED <<priv, mutex, busy, quit, interval, clock, stamp, running, historyVars>>

\* pthread_cond_signal: wakes the worker if it waits, else it is lost.
Wake(from, to) ==
  pc' = [main |-> to, worker |-> IF pc["worker"] = "wait" THEN "relock" ELSE pc["worker"]]

SignalUnlocked ==
  /\ pc["main"] = "signal"
  /\ Wake("signal", "idle")
  /\ UNCHANGED <<priv, mutex, alertVars, clock, stamp, running, historyVars>>

\* ... and signals the worker under priv->mutex.
Signal ==
  /\ pc["main"] = "signal"
  /\ mutex = None
  /\ Wake("signal", "idle")
  /\ UNCHANGED <<priv, mutex, alertVars, clock, stamp, running, historyVars>>

\* on_reset
Reset ==
  /\ pc["main"] = "idle"
  /\ expires' = 0
  /\ UNCHANGED <<pc, priv, mutex, busy, quit, interval, clock, stamp, running, historyVars>>

\* alert_data_private_free: quit is set without the mutex, the signal sent
\* under it, then the worker joined.
Free ==
  /\ Goto("main", "idle", "free")
  /\ quit' = TRUE
  /\ UNCHANGED <<priv, mutex, busy, interval, expires, clock, stamp, running, historyVars>>

FreeSignalUnlocked ==
  /\ pc["main"] = "free"
  /\ Wake("free", "join")
  /\ UNCHANGED <<priv, mutex, alertVars, clock, stamp, running, historyVars>>

FreeSignal ==
  /\ pc["main"] = "free"
  /\ mutex = None
  /\ Wake("free", "join")
  /\ UNCHANGED <<priv, mutex, alertVars, clock, stamp, running, historyVars>>

Join ==
  /\ pc["worker"] = "exit"
  /\ Goto("main", "join", "freed")
  /\ UNCHANGED <<priv, mutex, alertVars, clock, stamp, running, historyVars>>

-----------------------------------------------------------------------------
\* alert_thread: assert(alert && alert->priv), or the process aborts.
Assert ==
  /\ Goto("worker", "assert", IF priv THEN "lock" ELSE "aborted")
  /\ UNCHANGED <<priv, mutex, alertVars, clock, stamp, running, historyVars>>

Enter ==
  /\ Goto("worker", "lock", "test")
  /\ Lock("worker")
  /\ UNCHANGED <<priv, alertVars, clock, stamp, running, historyVars>>

\* while(!quit) ...
Test ==
  /\ Goto("worker", "test", IF quit THEN "exit" ELSE "sleep")
  /\ mutex' = IF quit THEN None ELSE mutex
  /\ UNCHANGED <<priv, alertVars, clock, stamp, running, historyVars>>

SleepNot ==
  /\ Goto("worker", "sleep", "relock")
  /\ Unlock
  /\ UNCHANGED <<priv, alertVars, clock, stamp, running, historyVars>>

\* ... pthread_cond_wait, which gives the mutex back.
Sleep ==
  /\ Goto("worker", "sleep", "wait")
  /\ Unlock
  /\ UNCHANGED <<priv, alertVars, clock, stamp, running, historyVars>>

\* POSIX lets pthread_cond_wait return without a signal.
WakeSpuriously ==
  /\ Goto("worker", "wait", "relock")
  /\ spurious < MaxSpurious
  /\ spurious' = spurious + 1
  /\ UNCHANGED <<priv, mutex, alertVars, clock, stamp, running, runs, ask, alerts>>

Relock ==
  /\ \/ /\ quit
        /\ mutex = None
        /\ Goto("worker", "relock", "exit")
        /\ UNCHANGED mutex
     \/ /\ ~quit
        /\ Lock("worker")
        /\ Goto("worker", "relock", "look")
  /\ UNCHANGED <<priv, alertVars, clock, stamp, running, historyVars>>

\* While a command runs the wake-up is dropped.
Look ==
  /\ Goto("worker", "look", IF busy THEN "test" ELSE "claim")
  /\ UNCHANGED <<priv, mutex, alertVars, clock, stamp, running, historyVars>>

ClaimKeepsBusy ==
  /\ Goto("worker", "claim", "create")
  /\ runs' = runs + 1
  /\ UNCHANGED <<priv, mutex, alertVars, clock, stamp, running, ask, alerts, spurious>>

\* run_command_async looks again before it makes the alert busy.
Claim ==
  /\ Goto("worker", "claim", IF busy THEN "test" ELSE "create")
  /\ busy' = TRUE
  /\ runs' = IF busy THEN runs ELSE runs + 1
  /\ UNCHANGED <<priv, mutex, quit, interval, expires, clock, stamp, running, ask, alerts, spurious>>

\* pthread_create of the command; when it fails the alert stays busy for ever.
Start ==
  /\ Goto("worker", "create", "test")
  /\ running' \in {running, running + 1}
  /\ UNCHANGED <<priv, mutex, alertVars, clock, stamp, historyVars>>

\* run_command_thread: system() returns and the alert is no longer busy.
CommandEnds ==
  /\ running > 0
  /\ running' = running - 1
  /\ busy' = FALSE
  /\ UNCHANGED <<pc, priv, mutex, quit, interval, expires, clock, stamp, historyVars>>

Tick ==
  /\ clock < MaxTime
  /\ clock' = clock + 1
  /\ UNCHANGED <<pc, priv, mutex, alertVars, stamp, running, historyVars>>

-----------------------------------------------------------------------------
\* After a failed assertion there is no process any more.
Alive == pc["worker"] # "aborted"

Handler == Alert \/ Stamp \/ Signal \/ Reset
Cleanup == Free \/ FreeSignal \/ Join
Worker == \/ Assert \/ Enter \/ Test \/ Sleep \/ WakeSpuriously \/ Relock
          \/ Look \/ Claim \/ Start

Next == Alive /\ (Create \/ Assign \/ Handler \/ Cleanup \/ Worker \/ CommandEnds \/ Tick)

Spec == Init /\ [][Next]_vars

\* The two threads run; one that waits for priv->mutex gets it some time.  A
\* command need not end, nobody has to send a request or to free the alert.
WorkerRuns == Alive /\ (Assert \/ Test \/ Sleep \/ Look \/ Claim \/ Start)
WorkerLocks == Alive /\ (Enter \/ Relock)
MainRuns == Alive /\ (Stamp \/ Join)
MainLocks == Alive /\ (Signal \/ FreeSignal)

Fairness ==
  /\ WF_vars(WorkerRuns) /\ SF_vars(WorkerLocks)
  /\ WF_vars(MainRuns) /\ SF_vars(MainLocks)

LiveSpec == Spec /\ Fairness

-----------------------------------------------------------------------------
TypeOK ==
  /\ pc \in [main : {"new", "assign", "idle", "stamp", "signal", "free", "join", "freed"},
             worker : {"none", "assert", "aborted", "lock", "test", "sleep", "wait", "relock", "look",
                       "claim", "create", "exit"}]
  /\ priv \in BOOLEAN
  /\ mutex \in {None, "worker"}
  /\ busy \in BOOLEAN /\ quit \in BOOLEAN
  /\ interval \in Intervals
  /\ expires \in Nat /\ clock \in Nat /\ stamp \in Nat
  /\ running \in Nat
  /\ runs \in 0 .. MaxAlerts + MaxSpurious /\ ask \in Nat
  /\ alerts \in 0 .. MaxAlerts /\ spurious \in 0 .. MaxSpurious

\* The command of an alert never runs twice at once, whatever wakes the worker
\* and however stale the busy flag was that alert_notify looked at
\* (alert-service.c:88-106, 121-124).
OneCommand == running <= 1

\* Ready: the worker has had its mutex, which it gives up only to wait.
Ready == pc["worker"] \notin {"none", "assert", "aborted", "lock"}

\* An alert that is answered with err_code 0 after the worker got ready is
\* followed by a command that started after the request came: the signal is not
\* lost (alert-service.c:200-207 against 113-121), several signals may share
\* one command, and a wake-up is only dropped for a command that started after
\* alert_notify looked at the busy flag.
EveryAlertHeard == \A n \in 0 .. MaxAlerts + MaxSpurious :
  (pc["main"] = "signal" /\ ask = n /\ Ready) ~> (runs > n \/ quit)

\* alert_data_free returns: the worker notices quit wherever it is
\* (alert-service.c:155-160).
Stopping == quit
Stopped == pc["main"] = "freed"
\* assert(alert && alert->priv), alert-service.c:111, on a thread that is
\* started before the caller stores priv (alert-service.c:144, 224).
StartedWithPriv == pc["worker"] = "aborted" => priv
=============================================================================
