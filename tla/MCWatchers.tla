----------------------------- MODULE MCWatchers ----------------------------
(***************************************************************************)
(* Small instances of four programs that watch cameras: the alert server   *)
(* and the camera switch of the raspberry pi, a detection window of the    *)
(* demos, and the window of a video source.  Only the component "which"    *)
(* takes steps, so that the state spaces add up instead of multiplying.    *)
(***************************************************************************)
EXTENDS CameraSchedule

CONSTANTS
  None,
  Intervals, MaxTime, MaxAlerts,          \* of AlertService
  MaxSpurious,                            \* of both programs with a thread that waits
  MaxFrames,                              \* of both windows
  Uris, Valid, MaxChanges, MaxNews        \* of VideoWindow

ASSUME WatchersAssumption ==
  /\ Intervals \subseteq Nat
  /\ {MaxTime, MaxAlerts, MaxSpurious, MaxFrames, MaxChanges, MaxNews} \subseteq Nat
  /\ None # "worker"

VARIABLES
  which,
  \* AlertService
  apc, priv, mutex, abusy, aquit, interval, expires, time, stamp, running, runs, ask,
  alerts, aspurious,
  \* DetectionShell
  spc, sheld, sbusy, squit, offered, sframe, encoding, result, answered, idles, drawn, dets,
  tips, playing, smain, lost, scrashed, sspurious,
  \* VideoWindow
  uri, entered, changed, pipe, ended, bus, playable, stoppable, wmain, wheld, read, shown,
  thread, made, old, current, refs, freed, frames, changes, raced, aborted

alertVars == <<apc, priv, mutex, abusy, aquit, interval, expires, time, stamp, running, runs,
               ask, alerts, aspurious>>
scheduleVars == vars
shellVars == <<spc, sheld, sbusy, squit, offered, sframe, encoding, result, answered, idles,
               drawn, dets, tips, playing, smain, lost, scrashed, sspurious>>
windowVars == <<uri, entered, changed, pipe, ended, bus, playable, stoppable, wmain, wheld,
                read, shown, thread, made, old, current, refs, freed, frames, changes,
                raced, aborted>>
allVars == <<which, alertVars, scheduleVars, shellVars, windowVars>>

\* Days of two hours of three minutes.  Two ranges on the first day; a range on the
\* second, after texts that lack their end or cannot be read.
T(h, m) == [hour |-> h, min |-> m]
MCPlans ==
  {[masks |-> <<TRUE>>,
    texts |-> <<[has |-> "both", begin |-> T(0, 0), end |-> T(0, 2)],
                [has |-> "both", begin |-> T(1, 0), end |-> T(1, 2)]>>],
   [masks |-> <<FALSE, TRUE>>,
    texts |-> <<[has |-> "begin", begin |-> T(1, 0)], [has |-> "nothing"],
                [has |-> "both", begin |-> T(0, 2), end |-> T(1, 2)]>>]}

Alert == INSTANCE AlertService WITH
  pc <- apc, busy <- abusy, quit <- aquit, clock <- time, spurious <- aspurious
Shell == INSTANCE DetectionShell WITH
  pc <- spc, held <- sheld, busy <- sbusy, quit <- squit, frame <- sframe, main <- smain,
  crashed <- scrashed, spurious <- sspurious
Window == INSTANCE VideoWindow WITH
  main <- wmain, held <- wheld, crashed <- aborted

\* One value of what only another component chooses.
MCInit ==
  /\ which \in {"alert", "schedule", "shell", "window"}
  /\ Alert!Init /\ Init /\ Shell!Init /\ Window!Init
  /\ which # "alert" => interval = CHOOSE i \in Intervals : TRUE
  /\ which # "window" => uri = CHOOSE u \in Uris : TRUE

OfAlert(A) ==
  which = "alert" /\ A /\ UNCHANGED <<which, scheduleVars, shellVars, windowVars>>
OfSchedule(A) ==
  which = "schedule" /\ A /\ UNCHANGED <<which, alertVars, shellVars, windowVars>>
OfShell(A) ==
  which = "shell" /\ A /\ UNCHANGED <<which, alertVars, scheduleVars, windowVars>>
OfWindow(A) ==
  which = "window" /\ A /\ UNCHANGED <<which, alertVars, scheduleVars, shellVars>>

MCNext ==
  \/ OfAlert(Alert!Next) \/ OfSchedule(Next)
  \/ OfShell(Shell!Next) \/ OfWindow(Window!Next)

\* The fairness of the components: as only one of them ever takes steps, a fair
\* action of one may be joined with those of the others.
MCFairness ==
  /\ WF_allVars(\/ OfAlert(Alert!WorkerRuns)
                \/ OfSchedule(WorkerRuns)
                \/ OfShell(Shell!ThreadRuns)
                \/ OfWindow(Window!ThreadRuns))
  /\ WF_allVars(\/ OfAlert(Alert!MainRuns)
                \/ OfSchedule(EndOfSchedule)
                \/ OfShell(Shell!ThreadLocks)
                \/ OfWindow(Window!MainGoesOn))
  /\ WF_allVars(OfSchedule(CleanUp) \/ OfShell(Shell!IdleRuns))
  /\ WF_allVars(OfShell(Shell!MainEnds))
  /\ SF_allVars(OfAlert(Alert!WorkerLocks))
  /\ SF_allVars(OfAlert(Alert!MainLocks))

MCSpec == MCInit /\ [][MCNext]_allVars /\ MCFairness

-----------------------------------------------------------------------------
\* The type invariants of the components.
MCTypeOK == Alert!TypeOK /\ TypeOK /\ Shell!TypeOK /\ Window!TypeOK

\* The command of an alert is not started twice (alert-service.c:88-124).
OneCommandRuns == Alert!OneCommand

\* A window draws an answer over the picture it was given for (demo-02.c:329-341),
\* and plays what its entry says, from frames that nobody has freed
\* (video_source_common.c:442-488, 1028-1030).
OwnPicture == Shell!OwnPicture /\ Window!OwnVideo /\ Window!FramesAreHeld

\* An alert that was accepted is followed by a command (alert-service.c:113-207).
EveryAlertHeard == Alert!EveryAlertHeard

\* A picture the ai thread takes is drawn (demo-02.c:329).
TakenIsDrawn == Shell!TakenIsDrawn

\* Every program that is told to stop does stop: alert_data_free returns
\* (alert-service.c:155-160), the schedule ends after SIGINT
\* (raspi4/src/camera-switch.c:404) and the ai thread of the window is joined
\* (demo-02.c:414), except where its broadcast is lost; the main loop that sets a
\* pipeline to NULL goes on (video_source_common.c:727).
StopEnds ==
  \/ which = "alert" /\ Alert!Stopping
  \/ which = "schedule" /\ Stopping
  \/ which = "shell" /\ Shell!Stopping
  \/ which = "window" /\ Window!Stopping
  ~>
  \/ which = "alert" /\ Alert!Stopped
  \/ which = "schedule" /\ Stopped
  \/ which = "shell" /\ Shell!Stopped
  \/ which = "window" /\ Window!Stopped
=============================================================================
