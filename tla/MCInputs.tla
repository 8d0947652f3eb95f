----------------------------- MODULE MCInputs -----------------------------
(***************************************************************************)
(* Small instances of what the programs take their pictures from: the      *)
(* plugins, the http client, the watched folder, the cameras a demo        *)
(* switches between, and the devices that connect to the web socket server *)
(* of ai-demo.  Only the component "which" takes steps, so that the state  *)
(* spaces add up instead of multiplying.                                   *)
(***************************************************************************)
EXTENDS HttpClient, Sequences

CONSTANTS
  Names, Modes, MaxFiles, MaxMoves, MaxDeletes,  \* of FolderWatch
  Cameras, Interval, MaxMemory, MaxFaults,       \* of CameraSwitch
  Folder, TypeOf, WithInit, Chunk, MaxOpens,     \* of PluginManager
  Conns, MaxProducers                            \* of WebSockets

VARIABLES
  which,
  \* FolderWatch
  mode, place, files, live, lastWd, events, child, moving, loaded, frames, alive,
  moves, departures, deletes,
  \* CameraSwitch
  index, seconds, pipeline, playing, sized, current, refs, frame, uploaded, busy, message,
  upc, held, quit, main, missed, faults,
  \* PluginManager
  plugins, allocated, maxSize, loading, handles, mapped, users, opens, crashed,
  \* WebSockets
  conn, producers, session, device, sessions, refused, aborted

clientVars == vars
folderVars == <<mode, place, files, live, lastWd, events, child, moving, loaded, frames,
                alive, moves, departures, deletes>>
switchVars == <<index, seconds, pipeline, playing, sized, current, refs, frame, uploaded,
                busy, message, upc, held, quit, main, missed, faults>>
pluginVars == <<plugins, allocated, maxSize, loading, handles, mapped, users, opens, crashed>>
socketVars == <<conn, producers, session, device, sessions, refused, aborted>>
allVars == <<which, clientVars, folderVars, switchVars, pluginVars, socketVars>>

\* Two engines, an input without ann_plugin_init, and a library that is no plugin.
MCFolder == <<"cuda", "darknet", "tcp", "helper">>
MCTypeOf == [cuda |-> "ai", darknet |-> "ai", tcp |-> "io", helper |-> ""]

Watch == INSTANCE FolderWatch
Switch == INSTANCE CameraSwitch WITH MaxPictures <- MaxMemory, late <- missed
Manager == INSTANCE PluginManager
Sockets == INSTANCE WebSockets WITH
  state <- session, live <- sessions, crashed <- aborted

\* The memory of the camera switch holds the picture of each camera, the one the
\* manager offers, the one being uploaded, and a new one.
ASSUME InputsAssumption ==
  /\ {Watch!Away, Watch!Gone} \cap Names = {} /\ Names # {}
  /\ Modes \subseteq {0, 1} /\ Modes # {}
  /\ {MaxFiles, MaxMoves, MaxDeletes, Interval, MaxMemory, MaxFaults, MaxOpens,
      MaxProducers} \subseteq Nat
  /\ Cameras \in Nat \ {0} /\ MaxMemory >= Cameras + 3
  /\ Folder \in Seq(DOMAIN TypeOf) /\ Chunk \in Nat \ {0}

\* One value of what only another component chooses.
MCInit ==
  /\ which \in {"client", "folder", "switch", "plugins", "sockets"}
  /\ Init /\ Watch!Init /\ Switch!Init /\ Manager!Init /\ Sockets!Init
  /\ which # "folder" =>
       mode = (CHOOSE m \in Modes : TRUE) /\ place = (CHOOSE n \in Names : TRUE)
  /\ which # "client" => url = CHOOSE u \in Servers : TRUE

OfClient(A) ==
  /\ which = "client" /\ A
  /\ UNCHANGED <<which, folderVars, switchVars, pluginVars, socketVars>>
OfWatch(A) ==
  /\ which = "folder" /\ A
  /\ UNCHANGED <<which, clientVars, switchVars, pluginVars, socketVars>>
OfSwitch(A) ==
  /\ which = "switch" /\ A
  /\ UNCHANGED <<which, clientVars, folderVars, pluginVars, socketVars>>
OfManager(A) ==
  /\ which = "plugins" /\ A
  /\ UNCHANGED <<which, clientVars, folderVars, switchVars, socketVars>>
OfSockets(A) ==
  /\ which = "sockets" /\ A
  /\ UNCHANGED <<which, clientVars, folderVars, switchVars, pluginVars>>

MCNext ==
  OfClient(Next) \/ OfWatch(Watch!Next) \/ OfSwitch(Switch!Next)
  \/ OfManager(Manager!Next) \/ OfSockets(Sockets!Next)

\* The fairness of the client and of the switch: as only one component ever takes
\* steps, a fair action of one may be joined with one of the other.
MCFairness ==
  /\ WF_allVars(OfClient(EnterLoop) \/ OfSwitch(Switch!Second))
  /\ WF_allVars(OfClient(Tick) \/ OfSwitch(Switch!Timer))
  /\ WF_allVars(OfClient(Work) \/ OfSwitch(Switch!Thread))
  /\ WF_allVars(OfSwitch(Switch!Join))

MCSpec == MCInit /\ [][MCNext]_allVars /\ MCFairness

-----------------------------------------------------------------------------
\* The type invariants of the components.
MCTypeOK ==
  /\ TypeOK /\ Watch!TypeOK /\ Switch!TypeOK /\ Manager!TypeOK
  /\ Sockets!TypeOK

\* The watch and the matched halves of renames follow the folder
\* (input-source.c:950-964).
WatchFollowsFolder == Watch!WatchFollowsFolder /\ Watch!MovesAreMatched

\* What is written to a calm folder is shown (input-source.c:887-911).
CalmFileIsShown == Watch!CalmFileIsShown

\* Pictures live as long as a source, the manager, the upload or a message in
\* flight needs them, and no longer (demo/camera-switch.c:236-277).
PicturesAreHeld == Switch!RefsAreOwners /\ Switch!MessageLives

\* Cameras take turns whatever happens to them (demo/camera-switch.c:416).
EveryCameraHasItsTurn == Switch!EveryCameraHasItsTurn

\* The arrays from which the last one fills the place of the one removed hold each
\* open plugin (ann-plugins.c:56-95) and each open session (websocket.c:225-290) once.
ArraysHold == Manager!PluginsHeld /\ Sockets!SessionsHeld
=============================================================================
