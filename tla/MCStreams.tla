----------------------------- MODULE MCStreams -----------------------------
(***************************************************************************)
(* Small instances of two programs whose threads must keep a stream going: *)
(* a stream of the camera device of ai-demo, and a stream of the player on *)
(* a channel of its streaming proxy.  Only the component "which" takes     *)
(* steps, so that the state spaces add up instead of multiplying.          *)
(***************************************************************************)
EXTENDS DeviceStream

VARIABLES
  which,
  \* StreamChannel
  pcurrent, next, mutex, counts, freed, pfront, pback, number, results, pc, hold, reg,
  drawing, pshown

deviceVars == vars
playerVars == <<pcurrent, next, mutex, counts, freed, pfront, pback, number, results, pc,
                hold, reg, drawing, pshown>>
allVars == <<which, deviceVars, playerVars>>

Player == INSTANCE StreamChannel WITH
  Streams <- {"s1"}, Main <- "main", None <- "none", Torn <- FALSE, MaxPosts <- 4,
  current <- pcurrent, refs <- counts, front <- pfront, back <- pback, shown <- pshown

MCInit ==
  /\ which \in {"device", "player"}
  /\ Init /\ Player!Init
  /\ which # "device" => ~sized

OfDevice(A) == which = "device" /\ A /\ UNCHANGED <<which, playerVars>>
OfPlayer(A) == which = "player" /\ A /\ UNCHANGED <<which, deviceVars>>

MCNext == OfDevice(Next) \/ OfPlayer(Player!Next)

\* The fairness of the two: as only one of them ever takes steps, a fair action of
\* one may be joined with one of the other.
MCFairness ==
  /\ WF_allVars(OfDevice(Swap \/ Callback))
  /\ WF_allVars(OfDevice(Worker))
  /\ WF_allVars(OfDevice(Restarting))
  /\ SF_allVars(OfDevice(Take) \/ OfPlayer(Player!View("s1")))
  /\ SF_allVars(OfDevice(Show) \/ OfPlayer(Player!StreamThread("s1")))
  /\ SF_allVars(OfDevice(OnEos) \/ OfPlayer(Player!MainFinishes))
  /\ SF_allVars(OfDevice(OnError))
  /\ SF_allVars(OfDevice(Restart))

MCSpec == MCInit /\ [][MCNext]_allVars /\ MCFairness

-----------------------------------------------------------------------------
\* Every frame of the channel is drawn, or a newer one (video_streams.c:127).
NewestIsShown == Player!NewestIsShown
=============================================================================
