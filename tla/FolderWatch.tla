---------------------------- MODULE FolderWatch ----------------------------
(***************************************************************************)
(* The folder source of src/plugins/io/input-source.c (uri fsnotify://) on *)
(* the inotify watches of utils/fs-notify.c.  Somebody writes result files *)
(* into a folder; the program watches the folder (child, index 0) and the  *)
(* folder around it (parent, index 1), and publishes a frame per file.     *)
(* The folder may be renamed, moved away and back, or deleted meanwhile.   *)
(*                                                                         *)
(* inotify queues events and the program reads them later: what an event   *)
(* tells may have changed again when it is handled.                        *)
(***************************************************************************)
EXTENDS Naturals, Sequences

CONSTANTS Names,      \* names the folder can have inside the parent folder
          Modes,      \* 0: json files, pictures elsewhere; 1: the pictures themselves
          MaxFiles,   \* bound: files that are written
          MaxMoves,   \* bound: renames and moves of the folder
          MaxDeletes  \* bound: 0 or 1 deletions of the folder

Away == "away"        \* the folder is in some other folder
Gone == "gone"

VARIABLES mode,     \* src->mode
          place,    \* where the folder is
          files,    \* sequence of the files written: picture there? calm?
          live,     \* watch descriptors of the folder the kernel knows
          lastWd,   \* last watch descriptor the kernel gave out
          events,   \* the inotify queue
          child,    \* notify_data[0]: descriptor and path, or NoData
          moving,   \* src->queue: cookies of the moves that have begun
          loaded,   \* file whose picture src->frame holds
          frames,   \* what was published: the file and the picture it shows
          alive,    \* the process has neither crashed nor called exit(1)
          moves, departures, deletes  \* moves, those to other folders, deletions

vars == <<mode, place, files, live, lastWd, events, child, moving, loaded, frames,
          alive, moves, departures, deletes>>

\* notify_data[1], added second
ParentWd == 2
NotifyData(wd, path) == [wd |-> wd, path |-> path]
NoData == NotifyData(0, Gone)

\* Event kinds are the masks of inotify; of is the name or file, id the cookie.
Event(wd, mask, of, id) == [wd |-> wd, mask |-> mask, of |-> of, id |-> id]
Send(wd, mask, of, id) == <<Event(wd, mask, of, id)>>

\* fsnotify_source_set_uri and play: both folders are watched, the thread runs.
Init ==
  /\ mode \in Modes
  /\ place \in Names
  /\ files = <<>>
  /\ live = {1}
  /\ lastWd = 2
  /\ events = <<>>
  /\ child = NotifyData(1, place)
  /\ moving = {}
  /\ loaded = 0
  /\ frames = <<>>
  /\ alive = TRUE
  /\ moves = 0 /\ departures = 0 /\ deletes = 0

-----------------------------------------------------------------------------
\* The file system.

ToFolder(mask, id) ==
  IF live = {} THEN <<>> ELSE Send(CHOOSE wd \in live : TRUE, mask, Gone, id)

\* A file of the folder is closed after writing.  It is calm until the folder
\* moves, or when the program has not yet caught up with a move.
Settled == child # NoData /\ child.wd \in live /\ child.path = place

Write ==
  /\ place # Gone
  /\ Len(files) < MaxFiles
  /\ \E picture \in BOOLEAN :
       files' = Append(files, [picture |-> picture, calm |-> Settled])
  /\ events' = events \o ToFolder("close_write", Len(files) + 1)
  /\ UNCHANGED <<mode, place, live, lastWd, child, moving, loaded, frames, alive,
                 moves, departures, deletes>>

\* Files whose event has not been handled when the folder moves are not calm.
PendingFiles == {events[i].id : i \in {j \in DOMAIN events : events[j].mask = "close_write"}}
Disturb == files' = [i \in DOMAIN files |->
                       [files[i] EXCEPT !.calm = @ /\ i \notin PendingFiles]]

\* rename(2): the parent folder sees the old name go and the new one come.
Move(to) ==
  /\ place # Gone /\ to # place
  /\ moves < MaxMoves
  /\ moves' = moves + 1
  /\ place' = to
  /\ departures' = IF to = Away THEN departures + 1 ELSE departures
  /\ events' = events
       \o (IF place = Away THEN <<>> ELSE Send(ParentWd, "moved_from", place, moves + 1))
       \o (IF to = Away THEN <<>> ELSE Send(ParentWd, "moved_to", to, moves + 1))
       \o ToFolder("move_self", 0)
  /\ Disturb
  /\ UNCHANGED <<mode, live, lastWd, child, moving, loaded, frames, alive, deletes>>

\* rmdir(2): the watch of the folder goes with it, which is an event too.
Delete ==
  /\ place # Gone
  /\ deletes < MaxDeletes
  /\ deletes' = deletes + 1
  /\ place' = Gone
  /\ events' = events
       \o (IF place = Away THEN <<>> ELSE Send(ParentWd, "delete", place, 0))
       \o ToFolder("delete_self", 0) \o ToFolder("ignored", 0)
  /\ live' = {}
  /\ Disturb
  /\ UNCHANGED <<mode, lastWd, child, moving, loaded, frames, alive, moves, departures>>

-----------------------------------------------------------------------------
\* filesystem_notify_process reads an event and calls back with the watch that
\* has its descriptor; the other events are dropped.

Next1(mask) ==
  /\ alive
  /\ events # <<>>
  /\ Head(events).mask = mask

ForChild == child # NoData /\ Head(events).wd = child.wd
ForParent == ~ForChild /\ Head(events).wd = ParentWd

Drop ==
  /\ alive
  /\ events # <<>>
  /\ ~ForChild /\ ~ForParent
  /\ events' = Tail(events)
  /\ UNCHANGED <<mode, place, files, live, lastWd, child, moving, loaded, frames, alive,
                 moves, departures, deletes>>

\* The picture of a file is found in mode 0 in the folder of pictures, in mode 1
\* under the path the program believes the folder has.
Found(f) == IF mode = 0 THEN files[f].picture ELSE child.path = place

ReloadedNever(f) == loaded

\* A picture that cannot be loaded leaves the one loaded before.
Reloaded(f) == IF Found(f) THEN f ELSE loaded

\* A json file without its picture is skipped, anything else becomes a frame.
OnCloseWrite ==
  /\ Next1("close_write") /\ ForChild
  /\ LET f == Head(events).id IN
     IF mode = 0 /\ ~Found(f)
     THEN UNCHANGED <<loaded, frames>>
     ELSE /\ loaded' = Reloaded(f)
          /\ frames' = Append(frames, [file |-> f, shows |-> loaded'])
  /\ events' = Tail(events)
  /\ UNCHANGED <<mode, place, files, live, lastWd, child, moving, alive,
                 moves, departures, deletes>>

\* IN_DELETE_SELF and IN_MOVE_SELF are only logged; IN_CREATE and IN_DELETE too.
OnLogged ==
  /\ \/ Next1("delete_self") /\ ForChild
     \/ Next1("move_self") /\ ForChild
     \/ Next1("delete") /\ ForParent
  /\ events' = Tail(events)
  /\ UNCHANGED <<mode, place, files, live, lastWd, child, moving, loaded, frames, alive,
                 moves, departures, deletes>>

\* Every other event of the folder is unexpected: exit(1).
OnUnexpected ==
  /\ Next1("ignored") /\ ForChild
  /\ alive' = FALSE
  /\ UNCHANGED <<mode, place, files, live, lastWd, events, child, moving, loaded, frames,
                 moves, departures, deletes>>

\* IN_MOVED_FROM: a move of the folder is remembered by its cookie.  The path
\* of the child is read although there may be no child.
OnMovedFrom ==
  /\ Next1("moved_from") /\ ForParent
  /\ alive' = (child # NoData)
  /\ moving' = IF Head(events).of = child.path THEN moving \cup {Head(events).id} ELSE moving
  /\ events' = Tail(events)
  /\ UNCHANGED <<mode, place, files, live, lastWd, child, loaded, frames,
                 moves, departures, deletes>>

KeepWatch(path) == events' = Tail(events) /\ UNCHANGED <<lastWd, live, child>>

\* update_watch: the old watch goes, and a new one comes if the path is still there.
Rewatch(path) ==
  /\ events' = Tail(events) \o Send(child.wd, "ignored", Gone, 0)
  /\ IF place = path
     THEN /\ lastWd' = lastWd + 1
          /\ live' = {lastWd + 1}
          /\ child' = NotifyData(lastWd + 1, path)
     ELSE /\ live' = {}
          /\ child' = NoData
          /\ UNCHANGED lastWd

\* fs_move_event_queue_leave
ForgetNothing(cookie) == UNCHANGED moving

Forget(cookie) == moving' = moving \ {cookie}

\* IN_MOVED_TO
OnMovedTo ==
  /\ Next1("moved_to") /\ ForParent
  /\ LET cookie == Head(events).id IN
     IF cookie \in moving
     THEN /\ Forget(cookie)
          /\ Rewatch(Head(events).of)
     ELSE /\ events' = Tail(events)
          /\ UNCHANGED <<moving, live, lastWd, child>>
  /\ UNCHANGED <<mode, place, files, loaded, frames, alive, moves, departures, deletes>>

Next ==
  \/ Write \/ Delete
  \/ \E to \in Names \cup {Away} : Move(to)
  \/ Drop \/ OnCloseWrite \/ OnLogged \/ OnUnexpected \/ OnMovedFrom \/ OnMovedTo

Spec == Init /\ [][Next]_vars

-----------------------------------------------------------------------------
TypeOK ==
  /\ mode \in Modes
  /\ place \in Names \cup {Away, Gone}
  /\ files \in Seq([picture : BOOLEAN, calm : BOOLEAN]) /\ Len(files) <= MaxFiles
  /\ live \subseteq 1 .. lastWd
  /\ lastWd \in Nat
  /\ \A i \in DOMAIN events : events[i].wd \in 1 .. lastWd
  /\ child = NoData \/ child \in [wd : 1 .. lastWd, path : Names]
  /\ moving \subseteq 1 .. MaxMoves
  /\ loaded \in 0 .. MaxFiles
  /\ \A i \in DOMAIN frames : frames[i] \in [file : 1 .. MaxFiles, shows : 0 .. MaxFiles]
  /\ alive \in BOOLEAN
  /\ moves \in 0 .. MaxMoves /\ departures \in 0 .. MaxMoves /\ deletes \in 0 .. MaxDeletes

\* A folder that never left the parent folder is watched under its present name
\* once the events are handled, or no more at all when it was renamed twice
\* faster than the program read (input-source.c:964).
WatchFollowsFolder ==
  alive /\ events = <<>> /\ departures = 0 /\ place # Gone => Settled \/ child = NoData

\* The two events of a rename find each other by their cookie: only moves out of
\* the parent folder leave their half behind (input-source.c:950, 956).
MovesAreMatched == alive /\ events = <<>> /\ departures = 0 => moving = {}

\* A file written while the program was up to date with the folder, and handled
\* before the folder moved on, is published with its own picture
\* (input-source.c:887-911).
CalmFileIsShown == alive => \A f \in DOMAIN files :
  LET found == mode = 0 => files[f].picture IN
  files[f].calm /\ found /\ f \notin PendingFiles =>
    \E i \in DOMAIN frames : frames[i] = [file |-> f, shows |-> f]
=============================================================================
