--------------------------- MODULE StreamChannel ---------------------------
(***************************************************************************)
(* The video player: a channel of the streaming proxy                      *)
(* (demo/streaming-proxy.c), the streams that take its frames              *)
(* (demo/video_player5/video_streams.c) and the reference counts of the    *)
(* frames they share (utils/video_source_common.c).                        *)
(*                                                                         *)
(* The main (GTK) thread serves the http requests of the channel and, on a *)
(* timer, draws the streams; each stream has a thread of its own.  The     *)
(* channel and the stream threads count references under channel->mutex.   *)
(* The viewer counts under the stream's rwlock only, and refs is a plain   *)
(* long: with Torn the increments are loads and stores that can            *)
(* interleave, without it a build whose increments happen to be atomic.    *)
(*                                                                         *)
(* A frame is identified by its number: the channel numbers every POST,    *)
(* also those whose body turns out not to be a jpeg.                       *)
(***************************************************************************)
EXTENDS Integers, FiniteSets

CONSTANTS Streams,   \* video streams of the player, all on one channel
          Main,      \* the main thread
          None,      \* no thread
          Torn,      \* refs++ and refs-- may interleave
          MaxPosts   \* bound: number of POSTs

ASSUME StreamsAssumption == IsFiniteSet(Streams)
ASSUME ThreadsAssumption == Main \notin Streams /\ None \notin Streams \cup {Main}
ASSUME TornAssumption == Torn \in BOOLEAN
ASSUME MaxPostsAssumption == MaxPosts \in Nat

VARIABLES current,  \* channel->frame
          next,     \* channel->frame_number, the number of the next frame
          mutex,    \* holder of channel->mutex
          refs,     \* reference count of every frame
          freed,    \* frames that were given back to the allocator
          front,    \* frame_buffer[0] of every stream
          back,     \* frame_buffer[1]
          number,   \* stream->frame_number
          results,  \* frame->meta_data of every frame
          pc,       \* where each thread is
          hold,     \* the frame each thread works on
          reg,      \* value of refs a thread has loaded
          drawing,  \* the stream whose rwlock the viewer holds for reading
          shown     \* number of the frame each stream was drawn with last

channelVars == <<current, next, mutex>>
countVars == <<refs, freed, reg>>
streamVars == <<front, back, number>>
viewVars == <<drawing, shown>>
vars == <<channelVars, countVars, streamVars, results, pc, hold, viewVars>>

Threads == Streams \cup {Main}
Frames == 0 .. MaxPosts - 1
NoFrame == -1

Goto(t, from, to) == pc[t] = from /\ pc' = [pc EXCEPT ![t] = to]
Hold(t, f) == hold' = [hold EXCEPT ![t] = f]
Lock(t) == mutex = None /\ mutex' = t
Unlock == mutex' = None

-----------------------------------------------------------------------------
\* video_frame_addref and video_frame_unref.

\* ++refs and --refs are a load and a store.  A thread loads the count in the
\* step that brings it to the store: nothing it does in between is visible.
Load(t, f) == reg' = [reg EXCEPT ![t] = IF Torn THEN refs[f] ELSE 0]

Count(t) == IF Torn THEN reg[t] ELSE refs[hold[t]]

\* The store; a count that is not positive is left alone.
AddRef(t) ==
  /\ refs' = IF Count(t) > 0 THEN [refs EXCEPT ![hold[t]] = Count(t) + 1] ELSE refs
  /\ UNCHANGED freed

Unref(t) ==
  /\ refs' = IF Count(t) > 0 THEN [refs EXCEPT ![hold[t]] = Count(t) - 1] ELSE refs
  /\ freed' = IF Count(t) = 1 THEN freed \cup {hold[t]} ELSE freed
  /\ reg' = [reg EXCEPT ![t] = 0]

-----------------------------------------------------------------------------
Init ==
  /\ current = NoFrame
  /\ next = 0
  /\ mutex = None
  /\ refs = [f \in Frames |-> 0]
  /\ freed = {}
  /\ front = [s \in Streams |-> NoFrame]
  /\ back = [s \in Streams |-> NoFrame]
  /\ number = [s \in Streams |-> 0]
  /\ results = [f \in Frames |-> "none"]
  /\ pc = [t \in Threads |-> "idle"]
  /\ hold = [t \in Threads |-> NoFrame]
  /\ reg = [t \in Threads |-> 0]
  /\ drawing = None
  /\ shown = [s \in Streams |-> NoFrame]

\* A POST whose body is no jpeg uses up a number.
PostGarbage ==
  /\ pc[Main] = "idle"
  /\ next < MaxPosts
  /\ next' = next + 1
  /\ UNCHANGED <<current, mutex, countVars, streamVars, pc, hold, results, viewVars>>

PostImage ==
  /\ Goto(Main, "idle", "publish")
  /\ next < MaxPosts
  /\ next' = next + 1
  /\ refs' = [refs EXCEPT ![next] = 1]
  /\ Hold(Main, next)
  /\ UNCHANGED <<current, mutex, freed, reg, streamVars, results, viewVars>>

PublishForgetsOld ==
  /\ Goto(Main, "publish", "idle")
  /\ mutex = None
  /\ current' = hold[Main]
  /\ UNCHANGED <<next, mutex, countVars, streamVars, hold, results, viewVars>>

\* channel_update_frame replaces the frame under the mutex and unrefs the old one.
Publish ==
  /\ current' = hold[Main]
  /\ Hold(Main, current)
  /\ \/ /\ current = NoFrame
        /\ mutex = None
        /\ Goto(Main, "publish", "idle")
        /\ UNCHANGED <<mutex, reg>>
     \/ /\ current # NoFrame
        /\ Goto(Main, "publish", "drop")
        /\ Lock(Main)
        /\ Load(Main, current)
  /\ UNCHANGED <<next, refs, freed, streamVars, results, viewVars>>

\* channel_get_frame: a GET of the main thread, or the thread of a stream.
GetLock(t, from, ifNone) ==
  /\ Hold(t, current)
  /\ \/ /\ current = NoFrame
        /\ mutex = None
        /\ Goto(t, from, ifNone)
        /\ UNCHANGED <<mutex, reg>>
     \/ /\ current # NoFrame
        /\ Goto(t, from, "get")
        /\ Lock(t)
        /\ Load(t, current)
  /\ UNCHANGED <<current, next, refs, freed, streamVars, results, viewVars>>

GetRef(t) ==
  /\ Goto(t, "get", "got")
  /\ AddRef(t)
  /\ Unlock
  /\ reg' = [reg EXCEPT ![t] = 0]
  /\ UNCHANGED <<current, next, streamVars, hold, results, viewVars>>

\* channel_unref_frame, and the end of channel_update_frame.
UnrefLock(t, from, to) ==
  /\ Goto(t, from, to)
  /\ Lock(t)
  /\ Load(t, hold[t])
  /\ UNCHANGED <<current, next, refs, freed, streamVars, hold, results, viewVars>>

DropRef(t) ==
  /\ Goto(t, "drop", IF t = Main THEN "idle" ELSE "fetch")
  /\ Unref(t)
  /\ Unlock
  /\ UNCHANGED <<current, next, streamVars, hold, results, viewVars>>

\* A GET of the channel answers with the current frame (204 when there is none).
Get == GetLock(Main, "idle", "idle")

GetAnswered == UnrefLock(Main, "got", "drop")

-----------------------------------------------------------------------------
ViewOtherSlot(s) ==
  /\ Goto(Main, "idle", "view")
  /\ number[s] > 0
  /\ back[s] # NoFrame
  /\ Hold(Main, back[s])
  /\ drawing' = s
  /\ Load(Main, back[s])
  /\ UNCHANGED <<channelVars, refs, freed, streamVars, results, shown>>

\* The viewer: on_timeout of the shell calls get_frame(stream, 0, ..).
View(s) ==
  /\ Goto(Main, "idle", "view")
  /\ number[s] > 0
  /\ front[s] # NoFrame
  /\ Hold(Main, front[s])
  /\ drawing' = s
  /\ Load(Main, front[s])
  /\ UNCHANGED <<channelVars, refs, freed, streamVars, results, shown>>

ViewRef ==
  /\ Goto(Main, "view", "copied")
  /\ AddRef(Main)
  /\ reg' = [reg EXCEPT ![Main] = IF Torn THEN refs'[hold[Main]] ELSE 0]
  /\ UNCHANGED <<channelVars, streamVars, hold, results, viewVars>>

ViewUnref ==
  /\ Goto(Main, "copied", "draw")
  /\ Unref(Main)
  /\ UNCHANGED <<channelVars, streamVars, hold, results, viewVars>>

\* get_frame also writes the number of the stream, which its thread writes too.
Draw ==
  /\ Goto(Main, "draw", "idle")
  /\ number' = [number EXCEPT ![drawing] = hold[Main]]
  /\ shown' = [shown EXCEPT ![drawing] = hold[Main]]
  /\ drawing' = None
  /\ UNCHANGED <<channelVars, countVars, front, back, hold, results>>

-----------------------------------------------------------------------------
\* One round of video_stream_thread: drop the frame in frame_buffer[1] ...
Round(s) ==
  /\ next > 0
  /\ Goto(s, "idle", IF back[s] = NoFrame THEN "fetch" ELSE "old")
  /\ Hold(s, back[s])
  /\ back' = [back EXCEPT ![s] = NoFrame]
  /\ UNCHANGED <<channelVars, countVars, front, number, results, viewVars>>

\* ... with the results it carries, whoever else shows it ...
Put(s) ==
  /\ Goto(s, "old", IF results[hold[s]] = "none" THEN "cleared" ELSE "put")
  /\ results' = [results EXCEPT ![hold[s]] = IF @ = "none" THEN @ ELSE "freed"]
  /\ UNCHANGED <<channelVars, countVars, streamVars, hold, viewVars>>

Clear(s) ==
  /\ Goto(s, "put", "cleared")
  /\ results' = [results EXCEPT ![hold[s]] = "none"]
  /\ UNCHANGED <<channelVars, countVars, streamVars, hold, viewVars>>

Drop(s) == UnrefLock(s, "cleared", "drop")

\* ... get the channel's ...
Fetch(s) == GetLock(s, "fetch", "idle")

CheckOffByOne(s) ==
  /\ Goto(s, "got", IF number[s] + 1 >= hold[s] THEN "stale" ELSE "fresh")
  /\ UNCHANGED <<channelVars, countVars, streamVars, hold, results, viewVars>>

\* ... unless the stream has had it: frame 0 never passes ...
Check(s) ==
  /\ Goto(s, "got", IF number[s] >= hold[s] THEN "stale" ELSE "fresh")
  /\ UNCHANGED <<channelVars, countVars, streamVars, hold, results, viewVars>>

Stale(s) == UnrefLock(s, "stale", "reject")

Reject(s) ==
  /\ Goto(s, "reject", "idle")
  /\ Unref(s)
  /\ Unlock
  /\ UNCHANGED <<current, next, streamVars, hold, results, viewVars>>

TakeNumbersOldSlot(s) ==
  /\ Goto(s, "fresh", "predict")
  /\ back' = [back EXCEPT ![s] = hold[s]]
  /\ number' = [number EXCEPT ![s] = back[s]]
  /\ UNCHANGED <<channelVars, countVars, front, hold, results, viewVars>>

Take(s) ==
  /\ Goto(s, "fresh", "predict")
  /\ back' = [back EXCEPT ![s] = hold[s]]
  /\ number' = [number EXCEPT ![s] = hold[s]]
  /\ UNCHANGED <<channelVars, countVars, front, hold, results, viewVars>>

\* ... let the AI engine look at it, with or without a result ...
Predict(s) ==
  /\ Goto(s, "predict", "swap")
  /\ \E found \in BOOLEAN :
       results' = [results EXCEPT ![hold[s]] = IF found THEN "live" ELSE @]
  /\ UNCHANGED <<channelVars, countVars, streamVars, hold, viewVars>>

SwapUnlocked(s) ==
  /\ Goto(s, "swap", "idle")
  /\ front' = [front EXCEPT ![s] = back[s]]
  /\ back' = [back EXCEPT ![s] = front[s]]
  /\ UNCHANGED <<channelVars, countVars, number, hold, results, viewVars>>

\* ... and swap the two buffers.
Swap(s) ==
  /\ drawing # s
  /\ Goto(s, "swap", "idle")
  /\ front' = [front EXCEPT ![s] = back[s]]
  /\ back' = [back EXCEPT ![s] = front[s]]
  /\ UNCHANGED <<channelVars, countVars, number, hold, results, viewVars>>

-----------------------------------------------------------------------------
Request == PostGarbage \/ PostImage \/ Get
Finish == Publish \/ GetRef(Main) \/ GetAnswered \/ DropRef(Main)
Viewer == (\E s \in Streams : View(s)) \/ ViewRef \/ ViewUnref \/ Draw
StreamThread(s) == \/ Round(s) \/ Put(s) \/ Clear(s) \/ Drop(s) \/ DropRef(s)
                   \/ Fetch(s) \/ GetRef(s) \/ Check(s) \/ Stale(s) \/ Reject(s)
                   \/ Take(s) \/ Predict(s) \/ Swap(s)

Next == Request \/ Finish \/ Viewer \/ \E s \in Streams : StreamThread(s)

Spec == Init /\ [][Next]_vars

\* The main loop serves the timer and the sockets that are ready in the same
\* round, so requests do not keep the viewer out for ever; what the main thread
\* has begun it finishes; a thread that asks for a lock gets it some time.
MainFinishes == Finish \/ ViewRef \/ ViewUnref \/ Draw

Fairness ==
  /\ \A s \in Streams : SF_vars(View(s)) /\ SF_vars(StreamThread(s))
  /\ SF_vars(MainFinishes)

LiveSpec == Spec /\ Fairness

-----------------------------------------------------------------------------
MainPcs == {"idle", "publish", "get", "got", "drop", "view", "copied", "draw"}
StreamPcs == {"idle", "old", "put", "cleared", "drop", "fetch", "get", "got", "stale",
              "reject", "fresh", "predict", "swap"}

TypeOK ==
  /\ current \in Frames \cup {NoFrame}
  /\ next \in 0 .. MaxPosts
  /\ mutex \in Threads \cup {None}
  /\ refs \in [Frames -> Nat]
  /\ freed \subseteq Frames
  /\ front \in [Streams -> Frames \cup {NoFrame}]
  /\ back \in [Streams -> Frames \cup {NoFrame}]
  /\ number \in [Streams -> Nat]
  /\ results \in [Frames -> {"none", "live", "freed"}]
  /\ pc \in [Threads -> MainPcs \cup StreamPcs]
  /\ hold \in [Threads -> Frames \cup {NoFrame}]
  /\ reg \in [Threads -> Nat]
  /\ drawing \in Streams \cup {None}
  /\ shown \in [Streams -> Frames \cup {NoFrame}]

\* Whoever may still use a frame: the channel, a slot of a stream, or a thread
\* that was given a reference of its own.
OwnsRef(t, f) ==
  /\ hold[t] = f
  /\ pc[t] \in {"publish", "got", "copied", "old", "put", "cleared", "drop", "stale", "reject", "fresh"}

Owners(f) ==
  (IF current = f THEN {<<"channel", 0>>} ELSE {})
    \cup ({"front"} \X {s \in Streams : front[s] = f})
    \cup ({"back"} \X {s \in Streams : back[s] = f})
    \cup ({"thread"} \X {t \in Threads : OwnsRef(t, f)})

\* The count of a frame is the number of its owners, and the frame is given
\* back with the last of them, neither before nor later: over the channel, two
\* slots per stream and the frames threads have in hand, also when one frame
\* is in both slots of a stream (video_streams.c:116-132, streaming-proxy.c:59-102).
RefsCountOwners == \A f \in Frames :
  /\ refs[f] = Cardinality(Owners(f))
  /\ f \in freed => refs[f] = 0

\* No stream is drawn with an older frame than before, although the viewer
\* turns the number of the stream back (video_streams.c:68) while its thread
\* has a newer frame ready for the swap.
NeverOlder == [][\A s \in Streams : shown'[s] >= shown[s]]_shown

\* The frame the viewer copies is still a frame: on_timeout asserts its type
\* (video_player5/shell.c:822), which a freed frame need not have.
ShownFrameIsLive == pc[Main] \in {"view", "copied", "draw"} => hold[Main] \notin freed

\* The results the viewer takes a reference to (video_streams.c:66, "add_ref")
\* still have one: the thread that cleared them did so on a frame nobody shows.
DrawnResultIsLive == pc[Main] = "draw" => results[hold[Main]] # "freed"

\* What the channel holds is drawn some time, or something newer is: a frame is
\* not lost between the channel, the two slots and the viewer.  Frame 0 is the
\* exception the code makes.
NewestIsShown == \A s \in Streams, f \in Frames \ {0} :
  current = f ~> shown[s] >= f

-----------------------------------------------------------------------------
\* The inductive invariant behind NeverOlder and, without torn counts, behind
\* RefsCountOwners and ShownFrameIsLive.

PcsOK == pc[Main] \in MainPcs /\ \A s \in Streams : pc[s] \in StreamPcs

\* A thread between the steps of a section under the mutex holds the mutex.
Inside(t) == pc[t] \in {"get", "drop", "reject"}
LocksOK == \A t \in Threads : Inside(t) => mutex = t

\* A thread that works on a frame has one: when it takes its reference that is
\* the channel's frame, and a frame to be published is the newest.
Working(t) == pc[t] \in {"publish", "get", "got", "drop", "view", "copied", "draw", "old",
                         "put", "cleared", "stale", "reject", "fresh", "predict"}
HoldsOK ==
  /\ \A t \in Threads : Working(t) => hold[t] \in Frames
  /\ \A t \in Threads : pc[t] = "get" => hold[t] = current
  /\ pc[Main] = "publish" => hold[Main] = next - 1

\* The stream that is drawn shows the frame the viewer works on: its thread waits
\* with the swap.
Viewing == pc[Main] \in {"view", "copied", "draw"}
ViewOK == IF Viewing THEN drawing \in Streams /\ hold[Main] = front[drawing]
                     ELSE drawing = None

\* From the beginning of a round until the new frame is put there frame_buffer[1]
\* is empty.
Emptied(s) == pc[s] \in {"old", "put", "cleared", "drop", "fetch", "get", "got", "stale",
                         "reject", "fresh"}
BackOK == \A s \in Streams : Emptied(s) => back[s] = NoFrame

\* Only frames that were made are in use.
MadeOK ==
  /\ current < next
  /\ \A s \in Streams : front[s] < next /\ back[s] < next
  /\ \A t \in Threads : hold[t] < next
  /\ \A f \in freed : f < next

\* Numbers grow along the way of a frame: shown, front, under way, channel, next.
OrderOK ==
  /\ pc[Main] = "publish" => current < hold[Main]
  /\ \A s \in Streams :
       /\ shown[s] <= front[s]
       /\ front[s] <= current
       /\ pc[s] \in {"get", "got", "fresh"} => front[s] <= hold[s] /\ hold[s] <= current
       /\ pc[s] \in {"predict", "swap"} => front[s] <= back[s] /\ back[s] <= current

PlacesOK == /\ TypeOK /\ PcsOK /\ LocksOK /\ HoldsOK /\ ViewOK /\ BackOK
            /\ MadeOK /\ OrderOK
=============================================================================
