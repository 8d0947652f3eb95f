---------------------------- MODULE FolderProofs ----------------------------
(***************************************************************************)
(* Proofs about the folder source: for any number of files, names and      *)
(* moves, the watch of a folder that never leaves its parent has the name  *)
(* of the folder once the events are handled; the halves of its renames    *)
(* find each other; and a file that is written and handled between two     *)
(* moves is published with its own picture.                                *)
(*                                                                         *)
(* What these say is about an empty queue; the invariant is about the      *)
(* queue on the way there.  Chain lists the names the folder has had: the  *)
(* child has one of them, and the events that are queued are those of the  *)
(* later moves, in their order.  HalfMoved and CalmWatched are what the    *)
(* program may rely on between the two halves of a rename, and before the  *)
(* event of a calm file.  Next to them stand lemmas about a queue: what    *)
(* stays true when its head is handled, and when events come behind.       *)
(***************************************************************************)
EXTENDS MCInputs, SequenceTheorems, TLAPS

-----------------------------------------------------------------------------
\* The watched folder.
Moves == {"moved_from", "moved_to"}
Masks == Moves \cup {"close_write", "move_self", "delete", "delete_self", "ignored"}
Queued == [wd : Nat, mask : Masks, of : Names \cup {Watch!Gone}, id : Nat]
Is(i, mask) == events[i].mask = mask

\* The descriptor of the child is the only one that is live, and not that of the parent.
WatchTypes ==
  /\ Watch!TypeOK
  /\ events \in Seq(Queued)
  /\ frames \in Seq([file : 1 .. MaxFiles, shows : 0 .. MaxFiles])
  /\ lastWd >= 2 /\ child.wd # Watch!ParentWd
  /\ child = Watch!NoData => live = {}
  /\ child # Watch!NoData =>
       live \subseteq {child.wd} /\ (place # Watch!Gone => live = {child.wd})
  /\ moving \subseteq 1 .. moves /\ departures <= moves

\* The events of moves are in the order of the moves, the two of a rename side by
\* side; the folder has left every name but the last it moved to.
MoveEvents ==
  /\ \A i \in DOMAIN events : events[i].mask \in Moves =>
       events[i].wd = Watch!ParentWd /\ events[i].of \in Names /\ events[i].id \in 1 .. moves
  /\ \A i, j \in DOMAIN events :
       i < j /\ events[i].mask \in Moves /\ events[j].mask \in Moves =>
         \/ events[i].id < events[j].id
         \/ /\ j = i + 1 /\ events[i].id = events[j].id /\ events[i].of # events[j].of
            /\ Is(i, "moved_from") /\ Is(j, "moved_to")
  /\ \A i \in DOMAIN events : Is(i, "moved_to") =>
       \/ events[i].of = place \/ place = Watch!Gone
       \/ \E k \in DOMAIN events : i < k /\ Is(k, "moved_from")

\* A rename that has half been handled is the next thing to happen to the watch.
HalfMoved == \A i \in DOMAIN events :
  Is(i, "moved_to") /\ events[i].id \in moving =>
    i = 1 /\ child # Watch!NoData /\ events[i].of # child.path

\* The event of a calm file finds the watch it was sent to, or the program dead.
CalmEvents ==
  /\ \A i \in DOMAIN events : Is(i, "close_write") => events[i].id \in DOMAIN files
  /\ \A i, j \in DOMAIN events :
       j < i /\ Is(j, "moved_to") /\ Is(i, "close_write") /\ files[events[i].id].calm =>
         \/ events[j].of = place
         \/ \E k \in DOMAIN events : j < k /\ k < i /\ Is(k, "moved_from")
CalmWatched == \A i \in DOMAIN events :
  Is(i, "close_write") /\ files[events[i].id].calm =>
    IF child # Watch!NoData
    THEN Watch!Settled /\ events[i].wd = child.wd
    ELSE \E k \in DOMAIN events : k < i /\ Is(k, "moved_from")

\* Where the folder never left its parent: after h of its moves have been handled the
\* child has the h-th of the names nm, and the events of the others are queued.
Chain(h, nm) ==
  /\ place # Watch!Gone => place = nm[moves]
  /\ child # Watch!NoData => child.path = nm[h]
  /\ moving \subseteq {h + 1}
  /\ \A i \in DOMAIN events :
       /\ Is(i, "moved_to") => events[i].id > h /\ events[i].of = nm[events[i].id]
       /\ Is(i, "moved_from") =>
            /\ events[i].id > h /\ events[i].of = nm[events[i].id - 1]
            /\ events[i].id \notin moving
  /\ \A k \in h + 1 .. moves :
       /\ \E i \in DOMAIN events : Is(i, "moved_to") /\ events[i].id = k
       /\ k \notin moving => \E i \in DOMAIN events : Is(i, "moved_from") /\ events[i].id = k

Chained == departures = 0 =>
  /\ place # Watch!Away
  /\ \E h \in 0 .. moves, nm \in [0 .. moves -> Names] : Chain(h, nm)

FolderInv ==
  /\ WatchTypes /\ MoveEvents /\ CalmEvents
  /\ alive => HalfMoved /\ CalmWatched /\ Chained /\ Watch!CalmFileIsShown

\* What the handlers do to the queue: the head goes, and what may come behind is no
\* event of a move or of a file.
Told == Moves \cup {"close_write"}
Popped ==
  /\ events # <<>>
  /\ events' \in Seq(Queued)
  /\ \A i \in DOMAIN events' : events'[i].mask \in Told =>
       i + 1 \in DOMAIN events /\ events'[i] = events[i + 1]
  /\ \A i \in DOMAIN events : i # 1 => i - 1 \in DOMAIN events' /\ events'[i - 1] = events[i]

\* What the file system does to it: events come behind.
Pushed ==
  /\ events' \in Seq(Queued)
  /\ \A i \in DOMAIN events : i \in DOMAIN events' /\ events'[i] = events[i]
  /\ \A i \in DOMAIN events' \ DOMAIN events : i > Len(events)

\* What the proofs use of the constants.
LEMMA FolderConstants ==
  /\ Watch!Away \notin Names /\ Watch!Gone \notin Names /\ Watch!Away # Watch!Gone
  /\ Modes \subseteq {0, 1}
  /\ MaxFiles \in Nat /\ MaxMoves \in Nat /\ MaxDeletes \in Nat
BY InputsAssumption DEF Watch!Away, Watch!Gone

\* Most handlers take the head alone,
LEMMA TailPops ==
  ASSUME events \in Seq(Queued), events # <<>>, events' = Tail(events)
  PROVE  Popped
<1>1. Tail(events) \in Seq(Queued) /\ Len(Tail(events)) = Len(events) - 1
  OBVIOUS
<1>2. \A i \in DOMAIN Tail(events) : i + 1 \in DOMAIN events /\ Tail(events)[i] = events[i + 1]
  OBVIOUS
<1>3. \A i \in DOMAIN events : i # 1 => i - 1 \in DOMAIN Tail(events) /\ Tail(events)[i - 1] = events[i]
  OBVIOUS
<1> QED
  BY <1>1, <1>2, <1>3 DEF Popped

\* and the one that removes the watch has the kernel send an event about it.
LEMMA RewatchPops ==
  ASSUME events \in Seq(Queued), events # <<>>, NEW e \in Queued, e.mask = "ignored",
         events' = Tail(events) \o <<e>>
  PROVE  Popped
<1> DEFINE t == Tail(events)
<1>1. t \in Seq(Queued) /\ Len(t) = Len(events) - 1 /\ Len(events) \in Nat /\ Len(events) > 0
  OBVIOUS
<1>2. \A i \in DOMAIN t : i + 1 \in DOMAIN events /\ t[i] = events[i + 1]
  OBVIOUS
<1>3. \A i \in DOMAIN events : i # 1 => i - 1 \in DOMAIN t /\ t[i - 1] = events[i]
  OBVIOUS
<1> HIDE DEF t
<1>4. events' = t \o <<e>>
  BY DEF t
<1>5. events' \in Seq(Queued) /\ DOMAIN events' = 1 .. Len(t) + 1 /\ DOMAIN t = 1 .. Len(t)
  BY <1>1, <1>4
<1>6. \A i \in 1 .. Len(t) : events'[i] = t[i]
  BY <1>1, <1>4
<1>7. events'[Len(t) + 1] = e
  BY <1>1, <1>4
<1>8. \A i \in DOMAIN events' : events'[i].mask \in Told =>
        i + 1 \in DOMAIN events /\ events'[i] = events[i + 1]
  <2> SUFFICES ASSUME NEW i \in DOMAIN events', events'[i].mask \in Told
               PROVE  i + 1 \in DOMAIN events /\ events'[i] = events[i + 1]
    OBVIOUS
  <2>1. i # Len(t) + 1
    BY <1>7 DEF Told, Moves
  <2>2. i \in DOMAIN t
    BY <2>1, <1>1, <1>5
  <2> QED
    BY <2>2, <1>2, <1>5, <1>6
<1>9. \A i \in DOMAIN events : i # 1 => i - 1 \in DOMAIN events' /\ events'[i - 1] = events[i]
  BY <1>1, <1>3, <1>5, <1>6
<1> QED
  BY <1>5, <1>8, <1>9 DEF Popped

\* What comes behind are the elements of the sequence that is appended.
LEMMA AppendPushes ==
  ASSUME events \in Seq(Queued), NEW e \in Seq(Queued), events' = events \o e
  PROVE  /\ Pushed
         /\ Len(events) \in Nat
         /\ \A i \in DOMAIN events' \ DOMAIN events :
              i - Len(events) \in DOMAIN e /\ events'[i] = e[i - Len(events)]
         /\ \A i \in DOMAIN e :
              /\ i + Len(events) \in DOMAIN events' \ DOMAIN events
              /\ events'[i + Len(events)] = e[i]
<1>1. events' \in Seq(Queued) /\ Len(events') = Len(events) + Len(e) /\ Len(events) \in Nat /\ Len(e) \in Nat
  OBVIOUS
<1>2. DOMAIN events = 1 .. Len(events) /\ DOMAIN e = 1 .. Len(e) /\ DOMAIN events' = 1 .. Len(events')
  BY <1>1
<1>3. \A i \in 1 .. Len(events) + Len(e) :
        events'[i] = IF i <= Len(events) THEN events[i] ELSE e[i - Len(events)]
  OBVIOUS
<1> QED
  BY <1>1, <1>2, <1>3 DEF Pushed

\* The kernel tells the child of the folder, as long as it has its watch.
LEMMA FolderTold ==
  ASSUME WatchTypes, NEW m, NEW n
  PROVE  Watch!ToFolder(m, n) = IF live = {} THEN <<>>
           ELSE <<[wd |-> child.wd, mask |-> m, of |-> Watch!Gone, id |-> n]>>
<1>1. CASE live = {}
  BY <1>1 DEF Watch!ToFolder
<1>2. CASE live # {}
  <2>1. live = {child.wd}
    BY <1>2 DEF WatchTypes
  <2>2. (CHOOSE wd \in live : TRUE) = child.wd
    BY <2>1
  <2> QED
    BY <1>2, <2>2 DEF Watch!ToFolder, Watch!Send, Watch!Event
<1> QED
  BY <1>1, <1>2

\* The descriptor of a child that has its watch.
LEMMA ChildWd ==
  ASSUME WatchTypes
  PROVE  /\ lastWd \in Nat /\ lastWd >= 2
         /\ live # {} => child.wd \in 1 .. lastWd
         /\ child # Watch!NoData => child.wd \in 1 .. lastWd /\ child.path \in Names
         /\ child \in [wd : Nat, path : Names \cup {Watch!Gone}]
<1>1. lastWd \in Nat /\ lastWd >= 2
  BY DEF WatchTypes, Watch!TypeOK
<1>2. child = Watch!NoData \/ child \in [wd : 1 .. lastWd, path : Names]
  BY DEF WatchTypes, Watch!TypeOK
<1>3. child # Watch!NoData => child.wd \in 1 .. lastWd /\ child.path \in Names
  BY <1>2
<1>4. Watch!NoData \in [wd : Nat, path : Names \cup {Watch!Gone}]
  BY DEF Watch!NoData, Watch!NotifyData
<1>5. child \in [wd : Nat, path : Names \cup {Watch!Gone}]
  BY <1>1, <1>2, <1>4
<1> QED
  BY <1>1, <1>3, <1>5 DEF WatchTypes

\* Both folders are watched and nothing has happened.
LEMMA FolderInit == Watch!Init => FolderInv
<1> SUFFICES ASSUME Watch!Init PROVE FolderInv
  OBVIOUS
<1> USE FolderConstants
<1>1. /\ mode \in Modes /\ place \in Names /\ files = <<>> /\ live = {1} /\ lastWd = 2
      /\ events = <<>> /\ child = [wd |-> 1, path |-> place] /\ moving = {} /\ loaded = 0
      /\ frames = <<>> /\ alive = TRUE /\ moves = 0 /\ departures = 0 /\ deletes = 0
  BY DEF Watch!Init, Watch!NotifyData
<1>2. Watch!TypeOK
  BY <1>1 DEF Watch!TypeOK
<1>3. child # Watch!NoData
  BY <1>1 DEF Watch!NoData, Watch!NotifyData
<1>4. WatchTypes
  BY <1>1, <1>2, <1>3 DEF WatchTypes, Watch!ParentWd
<1>5. MoveEvents /\ CalmEvents /\ HalfMoved /\ CalmWatched
  BY <1>1 DEF MoveEvents, CalmEvents, HalfMoved, CalmWatched
<1>6. Watch!CalmFileIsShown
  BY <1>1 DEF Watch!CalmFileIsShown
<1>7. Chained
  <2> DEFINE nm == [n \in 0 .. 0 |-> place]
  <2>1. nm \in [0 .. moves -> Names] /\ nm[0] = place /\ child.path = place
    BY <1>1
  <2>2. Chain(0, nm)
    BY <1>1, <2>1 DEF Chain
  <2>3. 0 \in 0 .. moves
    BY <1>1
  <2>4. place # Watch!Away
    BY <1>1
  <2> QED
    BY <2>1, <2>2, <2>3, <2>4 DEF Chained
<1> QED
  BY <1>4, <1>5, <1>6, <1>7 DEF FolderInv

\* The events of moves and files keep their order when the head is handled.
LEMMA PoppedInOrder ==
  ASSUME MoveEvents, CalmEvents, Popped, UNCHANGED <<place, files, moves>>, events \in Seq(Queued)
  PROVE  MoveEvents' /\ CalmEvents'
<1> USE DEF Told, Moves
<1>1. ASSUME NEW i \in DOMAIN events', events'[i].mask \in Told
      PROVE  i + 1 \in DOMAIN events /\ events'[i] = events[i + 1]
  BY <1>1 DEF Popped
<1>2. ASSUME NEW i \in DOMAIN events'
      PROVE  i \in Nat /\ i >= 1
  BY <1>2 DEF Popped
<1>3. ASSUME NEW k \in DOMAIN events, NEW i \in Nat, i >= 1, i + 1 < k
      PROVE  k - 1 \in DOMAIN events' /\ events'[k - 1] = events[k] /\ k \in Nat
  BY <1>3 DEF Popped
<1>4. \A i \in DOMAIN events' : events'[i].mask \in Moves =>
        events'[i].wd = Watch!ParentWd /\ events'[i].of \in Names /\ events'[i].id \in 1 .. moves'
  BY <1>1 DEF MoveEvents
<1>5. ASSUME NEW i \in DOMAIN events', NEW j \in DOMAIN events',
             i < j, events'[i].mask \in Moves, events'[j].mask \in Moves
      PROVE  \/ events'[i].id < events'[j].id
             \/ /\ j = i + 1 /\ events'[i].id = events'[j].id /\ events'[i].of # events'[j].of
                /\ Is(i, "moved_from")' /\ Is(j, "moved_to")'
  <2>1. i + 1 \in DOMAIN events /\ events'[i] = events[i + 1]
    BY <1>5, <1>1
  <2>2. j + 1 \in DOMAIN events /\ events'[j] = events[j + 1]
    BY <1>5, <1>1
  <2>3. i + 1 < j + 1 /\ (j + 1 = i + 1 + 1 => j = i + 1)
    BY <1>2, <1>5
  <2>4. \/ events[i + 1].id < events[j + 1].id
        \/ /\ j + 1 = i + 1 + 1 /\ events[i + 1].id = events[j + 1].id
           /\ events[i + 1].of # events[j + 1].of
           /\ Is(i + 1, "moved_from") /\ Is(j + 1, "moved_to")
    BY <2>1, <2>2, <2>3, <1>5 DEF MoveEvents
  <2> QED
    BY <2>1, <2>2, <2>3, <2>4 DEF Is
<1>6. ASSUME NEW i \in DOMAIN events', Is(i, "moved_to")'
      PROVE  \/ events'[i].of = place' \/ place' = Watch!Gone
             \/ \E k \in DOMAIN events' : i < k /\ Is(k, "moved_from")'
  <2>1. i + 1 \in DOMAIN events /\ events'[i] = events[i + 1]
    BY <1>6, <1>1 DEF Is
  <2>2. \/ events[i + 1].of = place \/ place = Watch!Gone
        \/ \E k \in DOMAIN events : i + 1 < k /\ Is(k, "moved_from")
    BY <2>1, <1>6 DEF MoveEvents, Is
  <2>3. ASSUME NEW k \in DOMAIN events, i + 1 < k, Is(k, "moved_from")
        PROVE  k - 1 \in DOMAIN events' /\ i < k - 1 /\ Is(k - 1, "moved_from")'
    BY <2>3, <1>2, <1>3 DEF Is
  <2> QED
    BY <2>1, <2>2, <2>3
<1>7. \A i \in DOMAIN events' : Is(i, "close_write")' => events'[i].id \in DOMAIN files'
  BY <1>1 DEF CalmEvents, Is
<1>8. ASSUME NEW i \in DOMAIN events', NEW j \in DOMAIN events',
             j < i, Is(j, "moved_to")', Is(i, "close_write")', files'[events'[i].id].calm
      PROVE  \/ events'[j].of = place'
             \/ \E k \in DOMAIN events' : j < k /\ k < i /\ Is(k, "moved_from")'
  <2>1. i + 1 \in DOMAIN events /\ events'[i] = events[i + 1]
    BY <1>8, <1>1 DEF Is
  <2>2. j + 1 \in DOMAIN events /\ events'[j] = events[j + 1]
    BY <1>8, <1>1 DEF Is
  <2>3. j + 1 < i + 1
    BY <1>2, <1>8
  <2>4. \/ events[j + 1].of = place
        \/ \E k \in DOMAIN events : j + 1 < k /\ k < i + 1 /\ Is(k, "moved_from")
    BY <2>1, <2>2, <2>3, <1>8 DEF CalmEvents, Is
  <2>5. ASSUME NEW k \in DOMAIN events, j + 1 < k, k < i + 1, Is(k, "moved_from")
        PROVE  k - 1 \in DOMAIN events' /\ j < k - 1 /\ k - 1 < i /\ Is(k - 1, "moved_from")'
    <3>1. j \in Nat /\ j >= 1 /\ i \in Nat
      BY <1>2
    <3>2. k - 1 \in DOMAIN events' /\ events'[k - 1] = events[k] /\ k \in Nat
      BY <3>1, <2>5, <1>3
    <3> QED
      BY <3>1, <3>2, <2>5 DEF Is
  <2> QED
    BY <2>2, <2>4, <2>5
<1>9. MoveEvents'
  BY <1>4, <1>5, <1>6 DEF MoveEvents
<1>10. CalmEvents'
  BY <1>7, <1>8 DEF CalmEvents
<1> QED
  BY <1>9, <1>10

\* No file but that of the head stops being one whose event is pending.
LEMMA PoppedFiles ==
  ASSUME Popped, events \in Seq(Queued), NEW f \in Watch!PendingFiles, f \notin Watch!PendingFiles'
  PROVE  Head(events).mask = "close_write" /\ Head(events).id = f
<1>1. PICK i \in DOMAIN events : events[i].mask = "close_write" /\ f = events[i].id
  BY DEF Watch!PendingFiles
<1>2. i # 1 => i - 1 \in DOMAIN events' /\ events'[i - 1] = events[i]
  BY DEF Popped
<1>3. i = 1
  BY <1>1, <1>2 DEF Watch!PendingFiles
<1> QED
  BY <1>1, <1>3

\* A calm file that stays pending stays watched, unless the head was the moved_from
\* before it.
LEMMA PoppedCalm ==
  ASSUME CalmWatched, Popped, UNCHANGED <<place, files, live, child>>, events \in Seq(Queued),
         Head(events).mask = "moved_from" => child # Watch!NoData
  PROVE  CalmWatched'
<1> SUFFICES ASSUME NEW i \in DOMAIN events', Is(i, "close_write")', files'[events'[i].id].calm
             PROVE  IF child # Watch!NoData
                    THEN Watch!Settled /\ events'[i].wd = child.wd
                    ELSE \E k \in DOMAIN events' : k < i /\ Is(k, "moved_from")'
  BY DEF CalmWatched, Watch!Settled
<1>1. i + 1 \in DOMAIN events /\ events'[i] = events[i + 1] /\ i \in Nat
  BY DEF Popped, Told, Is
<1>2. IF child # Watch!NoData
      THEN Watch!Settled /\ events[i + 1].wd = child.wd
      ELSE \E k \in DOMAIN events : k < i + 1 /\ Is(k, "moved_from")
  BY <1>1 DEF CalmWatched, Is
<1>3. CASE child # Watch!NoData
  BY <1>1, <1>2, <1>3
<1>4. CASE child = Watch!NoData
  <2>1. PICK k \in DOMAIN events : k < i + 1 /\ Is(k, "moved_from")
    BY <1>2, <1>4
  <2>2. k # 1
    BY <2>1, <1>4 DEF Is
  <2>3. k - 1 \in DOMAIN events' /\ events'[k - 1] = events[k] /\ k \in Nat
    BY <2>2 DEF Popped
  <2> QED
    BY <2>1, <2>3, <1>1, <1>4 DEF Is
<1> QED
  BY <1>3, <1>4

\* Handling an event of another kind leaves the chain of moves as it is.
LEMMA PoppedChain ==
  ASSUME Chained, Popped, UNCHANGED <<place, child, moving, moves, departures>>,
         events \in Seq(Queued), Head(events).mask \notin Moves
  PROVE  Chained'
<1> SUFFICES ASSUME departures' = 0
             PROVE  /\ place' # Watch!Away
                    /\ \E h \in 0 .. moves', nm \in [0 .. moves' -> Names] : Chain(h, nm)'
  BY DEF Chained
<1>1. place # Watch!Away
  BY DEF Chained
<1>2. PICK h \in 0 .. moves, nm \in [0 .. moves -> Names] : Chain(h, nm)
  BY DEF Chained
<1>3. \A i \in DOMAIN events' : events'[i].mask \in Moves =>
        i + 1 \in DOMAIN events /\ events'[i] = events[i + 1]
  BY DEF Popped, Told
<1>4. \A i \in DOMAIN events : events[i].mask \in Moves =>
        i - 1 \in DOMAIN events' /\ events'[i - 1] = events[i]
  BY DEF Popped
<1>5. \A i \in DOMAIN events' :
        /\ Is(i, "moved_to")' => events'[i].id > h /\ events'[i].of = nm[events'[i].id]
        /\ Is(i, "moved_from")' =>
             /\ events'[i].id > h /\ events'[i].of = nm[events'[i].id - 1]
             /\ events'[i].id \notin moving'
  BY <1>2, <1>3 DEF Chain, Is, Moves
<1>6. \A k \in h + 1 .. moves' :
        /\ \E i \in DOMAIN events' : Is(i, "moved_to")' /\ events'[i].id = k
        /\ k \notin moving' => \E i \in DOMAIN events' : Is(i, "moved_from")' /\ events'[i].id = k
  BY <1>2, <1>4 DEF Chain, Is, Moves
<1>7. Chain(h, nm)'
  BY <1>2, <1>5, <1>6 DEF Chain
<1> QED
  BY <1>1, <1>7

\* A calm file stays shown when the head is handled, unless the head was its event.
LEMMA PoppedShown ==
  ASSUME Watch!CalmFileIsShown, alive, Popped, events \in Seq(Queued),
         UNCHANGED <<mode, files>>, DOMAIN frames \subseteq DOMAIN frames',
         \A n \in DOMAIN frames : frames'[n] = frames[n],
         \A f \in DOMAIN files :
           Head(events).mask = "close_write" /\ Head(events).id = f /\ files[f].calm
           /\ (mode = 0 => files[f].picture)
             => \E n \in DOMAIN frames' : frames'[n] = [file |-> f, shows |-> f]
  PROVE  Watch!CalmFileIsShown'
<1> SUFFICES ASSUME NEW f \in DOMAIN files, files[f].calm, mode = 0 => files[f].picture,
                    f \notin Watch!PendingFiles'
             PROVE  \E n \in DOMAIN frames' : frames'[n] = [file |-> f, shows |-> f]
  BY DEF Watch!CalmFileIsShown
<1>1. CASE f \in Watch!PendingFiles
  BY <1>1, PoppedFiles
<1>2. CASE f \notin Watch!PendingFiles
  <2>1. PICK n \in DOMAIN frames : frames[n] = [file |-> f, shows |-> f]
    BY <1>2 DEF Watch!CalmFileIsShown
  <2> QED
    BY <2>1
<1> QED
  BY <1>1, <1>2

\* The event of a calm file reaches the child.
LEMMA CalmReaches ==
  ASSUME CalmWatched, events \in Seq(Queued), events # <<>>, Head(events).mask = "close_write",
         files[Head(events).id].calm
  PROVE  Watch!ForChild /\ Watch!Settled
<1>1. 1 \in DOMAIN events /\ Head(events) = events[1] /\ Is(1, "close_write")
  BY DEF Is
<1>2. IF child # Watch!NoData
      THEN Watch!Settled /\ events[1].wd = child.wd
      ELSE \E k \in DOMAIN events : k < 1 /\ Is(k, "moved_from")
  BY <1>1 DEF CalmWatched
<1>3. ~ \E k \in DOMAIN events : k < 1
  OBVIOUS
<1> QED
  BY <1>1, <1>2, <1>3 DEF Watch!ForChild

\* Handling an event that changes the queue alone.
LEMMA PoppedOnly ==
  ASSUME FolderInv, alive, Popped, Head(events).mask \notin Moves,
         Head(events).mask = "close_write" => ~Watch!ForChild,
         \A i \in DOMAIN events' : events'[i].wd \in 1 .. lastWd',
         UNCHANGED <<mode, place, files, live, lastWd, child, moving, loaded, frames, alive,
                     moves, departures, deletes>>
  PROVE  FolderInv'
<1>1. WatchTypes /\ MoveEvents /\ CalmEvents /\ HalfMoved /\ CalmWatched /\ Chained
      /\ Watch!CalmFileIsShown
  BY DEF FolderInv
<1>2. events \in Seq(Queued) /\ events' \in Seq(Queued) /\ events # <<>>
  BY <1>1 DEF WatchTypes, Popped
<1>3. Watch!TypeOK'
  BY <1>1 DEF WatchTypes, Watch!TypeOK
<1>4. WatchTypes'
  BY <1>1, <1>2, <1>3 DEF WatchTypes
<1>5. MoveEvents' /\ CalmEvents'
  BY <1>1, <1>2, PoppedInOrder
<1>6. HalfMoved'
  <2> SUFFICES ASSUME NEW i \in DOMAIN events', Is(i, "moved_to")', events'[i].id \in moving
               PROVE  FALSE
    BY DEF HalfMoved
  <2>1. i + 1 \in DOMAIN events /\ events'[i] = events[i + 1] /\ i \in Nat /\ i >= 1
    BY <1>2 DEF Popped, Told, Moves, Is
  <2>2. i + 1 = 1
    BY <2>1, <1>1 DEF HalfMoved, Is
  <2> QED
    BY <2>1, <2>2
<1>7. CalmWatched'
  BY <1>1, <1>2, PoppedCalm DEF Moves
<1>8. Chained'
  BY <1>1, <1>2, PoppedChain
<1>9. Watch!CalmFileIsShown'
  <2>1. ~(Head(events).mask = "close_write" /\ files[Head(events).id].calm)
    BY <1>1, <1>2, CalmReaches
  <2> QED
    BY <1>1, <1>2, <2>1, PoppedShown
<1> QED
  BY <1>4, <1>5, <1>6, <1>7, <1>8, <1>9 DEF FolderInv

\* The head and the rest of a queue that is not empty have their types.
LEMMA TailTypes ==
  ASSUME WatchTypes, events # <<>>
  PROVE  /\ Tail(events) \in Seq(Queued) /\ Head(events) \in Queued
         /\ Head(events) = events[1] /\ 1 \in DOMAIN events
         /\ \A i \in DOMAIN Tail(events) : Tail(events)[i].wd \in 1 .. lastWd
<1>1. events \in Seq(Queued) /\ \A i \in DOMAIN events : events[i].wd \in 1 .. lastWd
  BY DEF WatchTypes, Watch!TypeOK
<1>2. \A i \in DOMAIN Tail(events) : i + 1 \in DOMAIN events /\ Tail(events)[i] = events[i + 1]
  BY <1>1
<1>3. Tail(events) \in Seq(Queued) /\ Head(events) \in Queued
      /\ Head(events) = events[1] /\ 1 \in DOMAIN events
  BY <1>1
<1> QED
  BY <1>1, <1>2, <1>3

\* Events that are dropped or only logged are neither of a calm file nor of a move.
LEMMA FolderDrop == FolderInv /\ (Watch!Drop \/ Watch!OnLogged) => FolderInv'
<1> SUFFICES ASSUME FolderInv, Watch!Drop \/ Watch!OnLogged PROVE FolderInv'
  OBVIOUS
<1>1. /\ alive /\ events # <<>> /\ events' = Tail(events)
      /\ UNCHANGED <<mode, place, files, live, lastWd, child, moving, loaded, frames, alive,
                     moves, departures, deletes>>
  BY DEF Watch!Drop, Watch!OnLogged, Watch!Next1
<1>2. Head(events).mask = "close_write" => ~Watch!ForChild
  BY DEF Watch!Drop, Watch!OnLogged, Watch!Next1
<1>3. WatchTypes /\ MoveEvents
  BY DEF FolderInv
<1>4. Popped /\ \A i \in DOMAIN events' : events'[i].wd \in 1 .. lastWd'
  BY <1>1, <1>3, TailPops, TailTypes DEF WatchTypes
<1>5. Head(events).mask \notin Moves
  <2>1. CASE Watch!Drop
    <3>1. ~Watch!ForChild /\ ~Watch!ForParent
      BY <2>1 DEF Watch!Drop
    <3>2. Head(events).mask \in Moves => Head(events).wd = Watch!ParentWd
      BY <1>1, <1>3, TailTypes DEF MoveEvents
    <3> QED
      BY <3>1, <3>2 DEF Watch!ForParent
  <2>2. CASE Watch!OnLogged
    BY <2>2 DEF Watch!OnLogged, Watch!Next1, Moves
  <2> QED
    BY <2>1, <2>2
<1> QED
  BY <1>1, <1>2, <1>4, <1>5, PoppedOnly

\* The unexpected event ends the program, of which no more is said.
LEMMA FolderUnexpected == FolderInv /\ Watch!OnUnexpected => FolderInv'
<1> SUFFICES ASSUME FolderInv, Watch!OnUnexpected PROVE FolderInv'
  OBVIOUS
<1>1. /\ alive' = FALSE
      /\ UNCHANGED <<mode, place, files, live, lastWd, events, child, moving, loaded, frames,
                     moves, departures, deletes>>
  BY DEF Watch!OnUnexpected
<1>2. WatchTypes /\ MoveEvents /\ CalmEvents
  BY DEF FolderInv
<1>3. Watch!TypeOK'
  BY <1>1, <1>2 DEF WatchTypes, Watch!TypeOK
<1>4. WatchTypes'
  BY <1>1, <1>2, <1>3 DEF WatchTypes
<1>5. MoveEvents' /\ CalmEvents'
  BY <1>1, <1>2 DEF MoveEvents, CalmEvents, Is
<1> QED
  BY <1>1, <1>4, <1>5 DEF FolderInv

\* A file is handled under the name it was written to, if it is calm.
LEMMA FolderCloseWrite == FolderInv /\ Watch!OnCloseWrite => FolderInv'
<1> SUFFICES ASSUME FolderInv, Watch!OnCloseWrite PROVE FolderInv'
  OBVIOUS
<1> DEFINE f == Head(events).id
           Skipped == mode = 0 /\ ~Watch!Found(f)
<1>1. /\ alive /\ events # <<>> /\ events' = Tail(events) /\ Head(events).mask = "close_write"
      /\ Watch!ForChild
      /\ UNCHANGED <<mode, place, files, live, lastWd, child, moving, alive,
                     moves, departures, deletes>>
  BY DEF Watch!OnCloseWrite, Watch!Next1
<1>2. IF Skipped THEN UNCHANGED <<loaded, frames>>
      ELSE loaded' = Watch!Reloaded(f) /\ frames' = Append(frames, [file |-> f, shows |-> loaded'])
  BY DEF Watch!OnCloseWrite
<1>3. WatchTypes /\ MoveEvents /\ CalmEvents /\ HalfMoved /\ CalmWatched /\ Chained
      /\ Watch!CalmFileIsShown
  BY <1>1 DEF FolderInv
<1>4. Popped /\ \A i \in DOMAIN events' : events'[i].wd \in 1 .. lastWd'
  BY <1>1, <1>3, TailPops, TailTypes DEF WatchTypes
<1>5. events \in Seq(Queued) /\ events' \in Seq(Queued)
  BY <1>3, <1>4 DEF WatchTypes, Popped
<1>6. f \in DOMAIN files /\ f \in 1 .. MaxFiles
  <2>1. Head(events) = events[1] /\ 1 \in DOMAIN events
    BY <1>1, <1>3, TailTypes
  <2>2. f \in DOMAIN files
    BY <2>1, <1>1, <1>3 DEF CalmEvents, Is
  <2>3. files \in Seq([picture : BOOLEAN, calm : BOOLEAN]) /\ Len(files) <= MaxFiles
    BY <1>3 DEF WatchTypes, Watch!TypeOK
  <2> QED
    BY <2>2, <2>3, FolderConstants
<1>7. loaded \in 0 .. MaxFiles /\ frames \in Seq([file : 1 .. MaxFiles, shows : 0 .. MaxFiles])
  BY <1>3 DEF WatchTypes, Watch!TypeOK
<1>8. (loaded' = loaded \/ loaded' = f)
      /\ (frames' = frames \/ frames' = Append(frames, [file |-> f, shows |-> loaded']))
  <2>1. CASE Skipped
    BY <2>1, <1>2
  <2>2. CASE ~Skipped
    BY <2>2, <1>2 DEF Watch!Reloaded
  <2> QED
    BY <2>1, <2>2
<1> HIDE DEF f, Skipped
<1>9. loaded' \in 0 .. MaxFiles
  BY <1>6, <1>7, <1>8, FolderConstants
<1>10. /\ frames' \in Seq([file : 1 .. MaxFiles, shows : 0 .. MaxFiles])
       /\ \A n \in DOMAIN frames' : frames'[n] \in [file : 1 .. MaxFiles, shows : 0 .. MaxFiles]
       /\ \A n \in DOMAIN frames : n \in DOMAIN frames' /\ frames'[n] = frames[n]
  <2> DEFINE Frame == [file |-> f, shows |-> loaded']
             S == [file : 1 .. MaxFiles, shows : 0 .. MaxFiles]
  <2>1. Frame \in S
    BY <1>6, <1>9
  <2>2. frames \in Seq(S)
    BY <1>7
  <2> HIDE DEF Frame, S
  <2>3. frames' = frames \/ frames' = Append(frames, Frame)
    BY <1>8 DEF Frame
  <2>4. frames' \in Seq(S) /\ (\A n \in DOMAIN frames : n \in DOMAIN frames' /\ frames'[n] = frames[n])
    BY <2>1, <2>2, <2>3
  <2>5. \A n \in DOMAIN frames' : frames'[n] \in S
    BY <2>4
  <2> QED
    BY <2>4, <2>5 DEF S
<1>11. Watch!TypeOK'
  <2>1. \A i \in DOMAIN frames' : frames'[i] \in [file : 1 .. MaxFiles, shows : 0 .. MaxFiles]
    BY <1>10
  <2> QED
    BY <2>1, <1>1, <1>3, <1>4, <1>9 DEF WatchTypes, Watch!TypeOK
<1>12. WatchTypes'
  BY <1>1, <1>3, <1>5, <1>10, <1>11 DEF WatchTypes
<1>13. MoveEvents' /\ CalmEvents'
  BY <1>1, <1>3, <1>4, <1>5, PoppedInOrder
<1>14. HalfMoved'
  <2> SUFFICES ASSUME NEW i \in DOMAIN events', Is(i, "moved_to")', events'[i].id \in moving
               PROVE  FALSE
    BY <1>1 DEF HalfMoved
  <2>1. i + 1 \in DOMAIN events /\ events'[i] = events[i + 1] /\ i \in Nat /\ i >= 1
    BY <1>4, <1>5 DEF Popped, Told, Moves, Is
  <2>2. i + 1 = 1
    BY <2>1, <1>3 DEF HalfMoved, Is
  <2> QED
    BY <2>1, <2>2
<1>15. CalmWatched'
  BY <1>1, <1>3, <1>4, <1>5, PoppedCalm
<1>16. Chained'
  <2>1. Head(events).mask \notin Moves
    BY <1>1 DEF Moves
  <2> QED
    BY <2>1, <1>1, <1>3, <1>4, <1>5, PoppedChain
<1>17. ASSUME files[f].calm, mode = 0 => files[f].picture
       PROVE  \E n \in DOMAIN frames' : frames'[n] = [file |-> f, shows |-> f]
  <2>1. child.path = place
    BY <1>1, <1>3, <1>5, <1>17, CalmReaches DEF Watch!Settled, f
  <2>2. Watch!Found(f)
    BY <2>1, <1>17 DEF Watch!Found
  <2>3. frames' = Append(frames, [file |-> f, shows |-> f])
    BY <2>2, <1>2 DEF Watch!Reloaded, Skipped
  <2>4. Len(frames) + 1 \in DOMAIN frames' /\ frames'[Len(frames) + 1] = [file |-> f, shows |-> f]
    BY <2>3, <1>7
  <2> QED
    BY <2>4
<1>18. Watch!CalmFileIsShown'
  BY <1>1, <1>3, <1>4, <1>5, <1>10, <1>17, PoppedShown DEF f
<1> QED
  BY <1>12, <1>13, <1>14, <1>15, <1>16, <1>18 DEF FolderInv

\* The first event of a move in the queue is that of the move after the h-th.
LEMMA HeadOfChain ==
  ASSUME MoveEvents, events \in Seq(Queued), events # <<>>, Head(events).mask \in Moves,
         NEW h \in Nat, NEW nm, Chain(h, nm), moves \in Nat
  PROVE  /\ h + 1 \in 1 .. moves /\ Head(events).id = h + 1
         /\ \A i \in DOMAIN events : i # 1 /\ events[i].mask \in Moves =>
              \/ events[i].id > h + 1
              \/ i = 2 /\ events[i].id = h + 1 /\ Is(i, "moved_to") /\ Is(1, "moved_from")
                 /\ events[i].of # Head(events).of
<1> DEFINE q == Head(events).id
<1>1. 1 \in DOMAIN events /\ Head(events) = events[1] /\ \A i \in DOMAIN events : i \in Nat /\ i >= 1
  OBVIOUS
<1>2. q \in 1 .. moves
  BY <1>1 DEF MoveEvents
<1>3. q > h
  BY <1>1 DEF Chain, Is, Moves
<1>4. \A i \in DOMAIN events : i # 1 /\ events[i].mask \in Moves =>
        \/ q < events[i].id
        \/ i = 2 /\ q = events[i].id /\ Is(i, "moved_to") /\ Is(1, "moved_from")
           /\ events[i].of # Head(events).of
  BY <1>1 DEF MoveEvents
<1>5. PICK first \in DOMAIN events : Is(first, "moved_to") /\ events[first].id = h + 1
  BY <1>2, <1>3 DEF Chain
<1>6. q <= h + 1
  BY <1>1, <1>4, <1>5, <1>2 DEF Is, Moves
<1>7. q = h + 1
  BY <1>2, <1>3, <1>6
<1>8. \A i \in DOMAIN events : events[i].mask \in Moves => events[i].id \in Nat
  BY DEF MoveEvents
<1> HIDE DEF q
<1> QED
  BY <1>1, <1>2, <1>4, <1>7, <1>8 DEF q

\* The first half of a rename: the folder had the name that the child has, and the
\* second half is the next event, to another name.
LEMMA FolderMovedFrom == FolderInv /\ Watch!OnMovedFrom => FolderInv'
<1> SUFFICES ASSUME FolderInv, Watch!OnMovedFrom PROVE FolderInv'
  OBVIOUS
<1> DEFINE q == Head(events).id
<1>1. /\ alive /\ events # <<>> /\ events' = Tail(events) /\ Head(events).mask = "moved_from"
      /\ alive' = (child # Watch!NoData)
      /\ moving' = IF Head(events).of = child.path THEN moving \cup {q} ELSE moving
      /\ UNCHANGED <<mode, place, files, live, lastWd, child, loaded, frames,
                     moves, departures, deletes>>
  BY DEF Watch!OnMovedFrom, Watch!Next1
<1>2. WatchTypes /\ MoveEvents /\ CalmEvents /\ HalfMoved /\ CalmWatched /\ Chained
      /\ Watch!CalmFileIsShown
  BY <1>1 DEF FolderInv
<1>3. Popped /\ \A i \in DOMAIN events' : events'[i].wd \in 1 .. lastWd'
  BY <1>1, <1>2, TailPops, TailTypes DEF WatchTypes
<1>4. events \in Seq(Queued) /\ events' \in Seq(Queued) /\ moves \in Nat /\ moves <= MaxMoves
  BY <1>2, <1>3, FolderConstants DEF WatchTypes, Watch!TypeOK, Popped
<1>5. 1 \in DOMAIN events /\ Head(events) = events[1]
  BY <1>1, <1>2, TailTypes
<1>6. q \in 1 .. moves
  BY <1>1, <1>2, <1>5 DEF MoveEvents, Moves
<1>7. moving' \subseteq 1 .. moves /\ moving \subseteq moving' /\ moving' \subseteq moving \cup {q}
  BY <1>1, <1>2, <1>6 DEF WatchTypes
<1>8. alive' \in BOOLEAN
  BY <1>1
<1>9. Watch!TypeOK'
  <2>1. moving' \subseteq 1 .. MaxMoves
    BY <1>4, <1>7, FolderConstants
  <2> QED
    BY <2>1, <1>1, <1>2, <1>3, <1>8 DEF WatchTypes, Watch!TypeOK
<1>10. WatchTypes'
  BY <1>1, <1>2, <1>4, <1>7, <1>9 DEF WatchTypes
<1>11. MoveEvents' /\ CalmEvents'
  BY <1>1, <1>2, <1>3, <1>4, PoppedInOrder
<1>12. SUFFICES ASSUME alive' PROVE HalfMoved' /\ CalmWatched' /\ Chained' /\ Watch!CalmFileIsShown'
  BY <1>10, <1>11 DEF FolderInv
<1>13. child # Watch!NoData
  BY <1>1, <1>12
<1>14. HalfMoved'
  <2> SUFFICES ASSUME NEW i \in DOMAIN events', Is(i, "moved_to")', events'[i].id \in moving'
               PROVE  i = 1 /\ child # Watch!NoData /\ events'[i].of # child.path
    BY <1>1 DEF HalfMoved
  <2>1. i + 1 \in DOMAIN events /\ events'[i] = events[i + 1] /\ i \in Nat /\ i >= 1
    BY <1>3, <1>4 DEF Popped, Told, Moves, Is
  <2>2. Is(i + 1, "moved_to")
    BY <2>1 DEF Is
  <2>3. events[i + 1].id \notin moving
    BY <2>1, <2>2, <1>2 DEF HalfMoved
  <2>4. events[i + 1].id = q /\ Head(events).of = child.path
    BY <2>1, <2>3, <1>1
  <2>5. \/ q < events[i + 1].id
        \/ i + 1 = 2 /\ events[1].of # events[i + 1].of
    BY <2>1, <2>2, <1>1, <1>2, <1>5 DEF MoveEvents, Is, Moves
  <2> QED
    BY <2>1, <2>4, <2>5, <1>5, <1>6, <1>13
<1>15. CalmWatched'
  BY <1>1, <1>2, <1>3, <1>4, <1>13, PoppedCalm
<1>16. Chained'
  <2> SUFFICES ASSUME departures' = 0
               PROVE  /\ place' # Watch!Away
                      /\ \E h \in 0 .. moves', nm \in [0 .. moves' -> Names] : Chain(h, nm)'
    BY DEF Chained
  <2>1. PICK h \in 0 .. moves, nm \in [0 .. moves -> Names] : place # Watch!Away /\ Chain(h, nm)
    BY <1>1, <1>2 DEF Chained
  <2>2. /\ h + 1 \in 1 .. moves /\ q = h + 1
        /\ \A i \in DOMAIN events : i # 1 /\ events[i].mask \in Moves =>
             events[i].id > h + 1 \/ Is(i, "moved_to")
    BY <2>1, <1>1, <1>2, <1>4, HeadOfChain DEF Moves
  <2>3. Head(events).of = nm[h]
    <3>1. events[1].of = nm[events[1].id - 1]
      BY <2>1, <1>1, <1>5 DEF Chain, Is
    <3> QED
      BY <3>1, <2>2, <1>5
  <2>4. moving' = moving \cup {h + 1} /\ moving' \subseteq {h + 1}
    BY <2>1, <2>2, <2>3, <1>1, <1>13 DEF Chain
  <2>5. ASSUME NEW i \in DOMAIN events'
        PROVE  /\ Is(i, "moved_to")' => events'[i].id > h /\ events'[i].of = nm[events'[i].id]
               /\ Is(i, "moved_from")' =>
                    /\ events'[i].id > h /\ events'[i].of = nm[events'[i].id - 1]
                    /\ events'[i].id \notin moving'
    <3>1. events'[i].mask \in Moves =>
            i + 1 \in DOMAIN events /\ events'[i] = events[i + 1] /\ i + 1 # 1
      BY <1>3, <1>4 DEF Popped, Told
    <3>2. Is(i, "moved_from")' => events'[i].id > h + 1
      BY <3>1, <2>2 DEF Is, Moves
    <3>3. Is(i, "moved_from")' => events'[i].id \notin moving'
      <4>1. events'[i].id \in moving' => events'[i].id = h + 1
        BY <2>4
      <4>2. h + 1 \in Nat /\ ~(h + 1 > h + 1)
        BY <2>1, <1>4
      <4> QED
        BY <3>2, <4>1, <4>2
    <3> QED
      BY <3>1, <3>3, <2>1 DEF Chain, Is, Moves
  <2>6. ASSUME NEW k \in h + 1 .. moves
        PROVE  /\ \E i \in DOMAIN events' : Is(i, "moved_to")' /\ events'[i].id = k
               /\ k \notin moving' => \E i \in DOMAIN events' : Is(i, "moved_from")' /\ events'[i].id = k
    <3>1. \A i \in DOMAIN events : i # 1 => i - 1 \in DOMAIN events' /\ events'[i - 1] = events[i]
      BY <1>3 DEF Popped
    <3>2. PICK i \in DOMAIN events : Is(i, "moved_to") /\ events[i].id = k
      BY <2>1 DEF Chain
    <3>3. i # 1
      BY <3>2, <1>1, <1>5 DEF Is
    <3>4. ASSUME k \notin moving'
          PROVE  \E n \in DOMAIN events' : Is(n, "moved_from")' /\ events'[n].id = k
      <4>1. PICK n \in DOMAIN events : Is(n, "moved_from") /\ events[n].id = k
        BY <3>4, <2>1, <2>4 DEF Chain
      <4>2. n # 1
        BY <4>1, <3>4, <2>2, <2>4, <1>5
      <4> QED
        BY <4>1, <4>2, <3>1 DEF Is
    <3> QED
      BY <3>1, <3>2, <3>3, <3>4 DEF Is
  <2>7. Chain(h, nm)'
    BY <2>1, <2>4, <2>5, <2>6, <1>1 DEF Chain
  <2> QED
    BY <2>1, <2>7, <1>1
<1>17. Watch!CalmFileIsShown'
  BY <1>1, <1>2, <1>3, <1>4, PoppedShown
<1> QED
  BY <1>14, <1>15, <1>16, <1>17

\* The second half of a rename that the child took part in: the child gets a new
\* watch under the new name, or none when the folder has moved on.
LEMMA FolderMovedTo == FolderInv /\ Watch!OnMovedTo => FolderInv'
<1> SUFFICES ASSUME FolderInv, Watch!OnMovedTo PROVE FolderInv'
  OBVIOUS
<1> DEFINE q == Head(events).id
           to == Head(events).of
<1>1. /\ alive /\ events # <<>> /\ Head(events).mask = "moved_to"
      /\ UNCHANGED <<mode, place, files, loaded, frames, alive, moves, departures, deletes>>
  BY DEF Watch!OnMovedTo, Watch!Next1
<1>2. WatchTypes /\ MoveEvents /\ CalmEvents /\ HalfMoved /\ CalmWatched /\ Chained
      /\ Watch!CalmFileIsShown
  BY <1>1 DEF FolderInv
<1>3. IF q \in moving
      THEN moving' = moving \ {q} /\ Watch!Rewatch(to)
      ELSE events' = Tail(events) /\ UNCHANGED <<moving, live, lastWd, child>>
  BY DEF Watch!OnMovedTo, Watch!Forget
<1>4. events \in Seq(Queued) /\ moves \in Nat /\ moves <= MaxMoves
  BY <1>2, FolderConstants DEF WatchTypes, Watch!TypeOK
<1>5. 1 \in DOMAIN events /\ Head(events) = events[1] /\ Is(1, "moved_to")
  BY <1>1, <1>2, TailTypes DEF Is
<1>6. q \in 1 .. moves /\ to \in Names
  BY <1>2, <1>5 DEF MoveEvents, Moves, Is
<1>7. lastWd \in Nat /\ lastWd >= 2
      /\ (child # Watch!NoData => child.wd \in 1 .. lastWd /\ child.path \in Names)
  BY <1>2, ChildWd
<1>8. moving' \subseteq moving
  BY <1>3
<1>9. q \in moving => child # Watch!NoData /\ to # child.path
  BY <1>2, <1>5 DEF HalfMoved
\* The new watch, and what is sent of the old one.
<1>10. q \in moving =>
         /\ events' = Tail(events) \o <<[wd |-> child.wd, mask |-> "ignored", of |-> Watch!Gone, id |-> 0]>>
         /\ \/ place = to /\ lastWd' = lastWd + 1 /\ live' = {lastWd + 1}
               /\ child' = [wd |-> lastWd + 1, path |-> to]
            \/ place # to /\ live' = {} /\ child' = Watch!NoData /\ lastWd' = lastWd
  <2> SUFFICES ASSUME q \in moving
               PROVE  /\ events' = Tail(events) \o <<[wd |-> child.wd, mask |-> "ignored", of |-> Watch!Gone, id |-> 0]>>
                      /\ \/ place = to /\ lastWd' = lastWd + 1 /\ live' = {lastWd + 1}
                            /\ child' = [wd |-> lastWd + 1, path |-> to]
                         \/ place # to /\ live' = {} /\ child' = Watch!NoData /\ lastWd' = lastWd
    OBVIOUS
  <2>1. Watch!Rewatch(to)
    BY <1>3
  <2>2. CASE place = to
    BY <2>1, <2>2 DEF Watch!Rewatch, Watch!Send, Watch!Event, Watch!NotifyData
  <2>3. CASE place # to
    BY <2>1, <2>3 DEF Watch!Rewatch, Watch!Send, Watch!Event
  <2> QED
    BY <2>2, <2>3
<1> HIDE DEF q, to
<1>11. Popped /\ \A i \in DOMAIN events' : events'[i].wd \in 1 .. lastWd'
  <2>1. CASE q \notin moving
    <3>1. events' = Tail(events) /\ lastWd' = lastWd
      BY <2>1, <1>3
    <3> QED
      BY <3>1, <1>1, <1>2, <1>4, TailPops, TailTypes
  <2>2. CASE q \in moving
    <3> DEFINE e == [wd |-> child.wd, mask |-> "ignored", of |-> Watch!Gone, id |-> 0]
               t == Tail(events)
    <3>1. e \in Queued /\ e.mask = "ignored" /\ e.wd \in 1 .. lastWd
      BY <2>2, <1>7, <1>9 DEF Queued, Masks
    <3>2. events' = t \o <<e>>
      BY <2>2, <1>10
    <3>3. t \in Seq(Queued) /\ \A i \in DOMAIN t : t[i].wd \in 1 .. lastWd
      BY <1>1, <1>2, TailTypes
    <3> HIDE DEF e
    <3>4. Popped
      BY <3>1, <3>2, <1>1, <1>4, RewatchPops
    <3> HIDE DEF t
    <3>5. \A i \in DOMAIN events' : events'[i].wd \in 1 .. lastWd
      BY <3>1, <3>2, <3>3
    <3>6. lastWd' \in Nat /\ lastWd' >= lastWd
      BY <2>2, <1>7, <1>10
    <3> QED
      BY <3>4, <3>5, <3>6, <1>7
  <2> QED
    BY <2>1, <2>2
<1>12. events' \in Seq(Queued)
  BY <1>11 DEF Popped
<1>13. /\ lastWd' \in Nat /\ lastWd' >= 2 /\ live' \subseteq 1 .. lastWd'
       /\ child' = Watch!NoData \/ child' \in [wd : 1 .. lastWd', path : Names]
       /\ child'.wd # Watch!ParentWd
       /\ child' = Watch!NoData => live' = {}
       /\ child' # Watch!NoData =>
            live' \subseteq {child'.wd} /\ (place # Watch!Gone => live' = {child'.wd})
  <2>1. CASE q \notin moving
    <3>1. lastWd' = lastWd /\ live' = live /\ child' = child
      BY <2>1, <1>3
    <3> QED
      BY <3>1, <1>2 DEF WatchTypes, Watch!TypeOK
  <2>2. CASE q \in moving /\ place = to
    <3>1. lastWd' = lastWd + 1 /\ live' = {lastWd + 1} /\ child' = [wd |-> lastWd + 1, path |-> to]
      BY <2>2, <1>10
    <3>2. child'.wd = lastWd + 1 /\ child' \in [wd : 1 .. lastWd + 1, path : Names]
      BY <3>1, <1>6, <1>7
    <3>3. child' # Watch!NoData
      BY <3>2, <1>7 DEF Watch!NoData, Watch!NotifyData
    <3> QED
      BY <3>1, <3>2, <3>3, <1>7 DEF Watch!ParentWd
  <2>3. CASE q \in moving /\ place # to
    <3>1. live' = {} /\ child' = Watch!NoData /\ lastWd' = lastWd
      BY <2>3, <1>10
    <3> QED
      BY <3>1, <1>7 DEF Watch!NoData, Watch!NotifyData, Watch!ParentWd
  <2> QED
    BY <2>1, <2>2, <2>3
<1>14. Watch!TypeOK'
  <2>1. moving' \subseteq 1 .. MaxMoves
    BY <1>2, <1>8 DEF WatchTypes, Watch!TypeOK
  <2> QED
    BY <2>1, <1>1, <1>2, <1>11, <1>13 DEF WatchTypes, Watch!TypeOK
<1>15. WatchTypes'
  <2>1. moving' \subseteq 1 .. moves
    BY <1>2, <1>8 DEF WatchTypes
  <2> QED
    BY <2>1, <1>1, <1>2, <1>12, <1>13, <1>14 DEF WatchTypes
<1>16. MoveEvents' /\ CalmEvents'
  BY <1>1, <1>2, <1>4, <1>11, PoppedInOrder
<1>17. HalfMoved'
  <2> SUFFICES ASSUME NEW i \in DOMAIN events', Is(i, "moved_to")', events'[i].id \in moving'
               PROVE  FALSE
    BY DEF HalfMoved
  <2>1. i + 1 \in DOMAIN events /\ events'[i] = events[i + 1] /\ i \in Nat /\ i >= 1
    BY <1>11, <1>12 DEF Popped, Told, Moves, Is
  <2>2. i + 1 = 1
    BY <2>1, <1>2, <1>8 DEF HalfMoved, Is
  <2> QED
    BY <2>1, <2>2
<1>18. CalmWatched'
  <2>1. CASE q \notin moving
    <3>1. live' = live /\ child' = child
      BY <2>1, <1>3
    <3> QED
      BY <3>1, <1>1, <1>2, <1>4, <1>11, PoppedCalm
  <2>2. CASE q \in moving
    <3> SUFFICES ASSUME NEW i \in DOMAIN events', Is(i, "close_write")', files'[events'[i].id].calm
                 PROVE  child' = Watch!NoData /\ \E k \in DOMAIN events' : k < i /\ Is(k, "moved_from")'
      BY DEF CalmWatched
    <3>1. i + 1 \in DOMAIN events /\ events'[i] = events[i + 1] /\ i \in Nat /\ i >= 1
      BY <1>11, <1>12 DEF Popped, Told, Is
    <3>2. Is(i + 1, "close_write") /\ files[events[i + 1].id].calm
      BY <3>1, <1>1 DEF Is
    <3>3. child.path = place
      BY <3>1, <3>2, <2>2, <1>2, <1>9 DEF CalmWatched, Watch!Settled
    <3>4. place # to
      BY <3>3, <2>2, <1>9
    <3>5. child' = Watch!NoData
      BY <3>4, <2>2, <1>10
    <3>6. PICK k \in DOMAIN events : 1 < k /\ k < i + 1 /\ Is(k, "moved_from")
      <4>1. \/ events[1].of = place
            \/ \E k \in DOMAIN events : 1 < k /\ k < i + 1 /\ Is(k, "moved_from")
        BY <3>1, <3>2, <1>2, <1>5 DEF CalmEvents
      <4> QED
        BY <4>1, <3>4, <1>5 DEF to
    <3>7. k - 1 \in DOMAIN events' /\ events'[k - 1] = events[k] /\ k \in Nat /\ k - 1 < i
      BY <3>1, <3>6, <1>4, <1>11 DEF Popped
    <3> QED
      BY <3>5, <3>6, <3>7 DEF Is
  <2> QED
    BY <2>1, <2>2
<1>19. Chained'
  <2> SUFFICES ASSUME departures' = 0
               PROVE  /\ place' # Watch!Away
                      /\ \E h \in 0 .. moves', nm \in [0 .. moves' -> Names] : Chain(h, nm)'
    BY DEF Chained
  <2>1. PICK h \in 0 .. moves, nm \in [0 .. moves -> Names] : place # Watch!Away /\ Chain(h, nm)
    BY <1>1, <1>2 DEF Chained
  <2>2. /\ h + 1 \in 1 .. moves /\ q = h + 1
        /\ \A i \in DOMAIN events : i # 1 /\ events[i].mask \in Moves => events[i].id > h + 1
    <3>1. Head(events).mask \in Moves /\ ~Is(1, "moved_from")
      BY <1>1, <1>5 DEF Moves, Is
    <3> QED
      BY <3>1, <2>1, <1>1, <1>2, <1>4, HeadOfChain DEF q
  <2>3. to = nm[h + 1]
    <3>1. events[1].of = nm[events[1].id]
      BY <2>1, <1>5 DEF Chain
    <3> QED
      BY <3>1, <2>2, <1>5 DEF q, to
  <2>4. q \in moving
    <3> SUFFICES ASSUME q \notin moving PROVE FALSE
      OBVIOUS
    <3>1. PICK i \in DOMAIN events : Is(i, "moved_from") /\ events[i].id = h + 1
      BY <2>1, <2>2 DEF Chain
    <3>2. i # 1
      BY <3>1, <1>5 DEF Is
    <3> QED
      BY <3>1, <3>2, <2>1, <2>2 DEF Is, Moves
  <2>5. moving' = {}
    BY <2>1, <2>2, <2>4, <1>3 DEF Chain
  <2>6. child' # Watch!NoData => child'.path = nm[h + 1]
    BY <2>3, <2>4, <1>10
  <2>7. ASSUME NEW i \in DOMAIN events'
        PROVE  /\ Is(i, "moved_to")' => events'[i].id > h + 1 /\ events'[i].of = nm[events'[i].id]
               /\ Is(i, "moved_from")' =>
                    events'[i].id > h + 1 /\ events'[i].of = nm[events'[i].id - 1]
    <3>1. events'[i].mask \in Moves =>
            i + 1 \in DOMAIN events /\ events'[i] = events[i + 1] /\ i + 1 # 1
      BY <1>11, <1>12 DEF Popped, Told
    <3> QED
      BY <3>1, <2>1, <2>2 DEF Chain, Is, Moves
  <2>8. ASSUME NEW k \in h + 1 + 1 .. moves
        PROVE  /\ \E i \in DOMAIN events' : Is(i, "moved_to")' /\ events'[i].id = k
               /\ \E i \in DOMAIN events' : Is(i, "moved_from")' /\ events'[i].id = k
    <3>1. \A i \in DOMAIN events : i # 1 => i - 1 \in DOMAIN events' /\ events'[i - 1] = events[i]
      BY <1>11 DEF Popped
    <3>2. k \in h + 1 .. moves /\ k # h + 1 /\ k # q
      BY <2>1, <2>2, <1>4
    <3>3. k \notin moving
      BY <3>2, <2>1 DEF Chain
    <3>4. PICK i \in DOMAIN events : Is(i, "moved_to") /\ events[i].id = k
      BY <3>2, <2>1 DEF Chain
    <3>5. PICK n \in DOMAIN events : Is(n, "moved_from") /\ events[n].id = k
      BY <3>2, <3>3, <2>1 DEF Chain
    <3>6. i # 1 /\ n # 1
      BY <3>2, <3>4, <3>5, <1>5 DEF q
    <3> QED
      BY <3>1, <3>4, <3>5, <3>6 DEF Is
  <2>9. Chain(h + 1, nm)'
    BY <2>1, <2>5, <2>6, <2>7, <2>8, <1>1 DEF Chain
  <2>10. h + 1 \in 0 .. moves'
    BY <2>1, <2>2, <1>1
  <2> QED
    BY <2>1, <2>9, <2>10, <1>1
<1>20. Watch!CalmFileIsShown'
  BY <1>1, <1>2, <1>4, <1>11, PoppedShown
<1> QED
  BY <1>15, <1>16, <1>17, <1>18, <1>19, <1>20 DEF FolderInv

\* What the kernel sends about files, and about the end of the folder, is no move.
LEMMA PushedInOrder ==
  ASSUME MoveEvents, Pushed, events \in Seq(Queued),
         \A i \in DOMAIN events' \ DOMAIN events : events'[i].mask \notin Moves,
         place' \in {place, Watch!Gone}, UNCHANGED moves
  PROVE  MoveEvents'
<1> USE DEF Moves
<1>1. \A i \in DOMAIN events' : events'[i].mask \in Moves =>
        i \in DOMAIN events /\ events'[i] = events[i]
  BY DEF Pushed
<1>2. \A i \in DOMAIN events' : events'[i].mask \in Moves =>
        events'[i].wd = Watch!ParentWd /\ events'[i].of \in Names /\ events'[i].id \in 1 .. moves'
  BY <1>1 DEF MoveEvents
<1>3. \A i, j \in DOMAIN events' :
        i < j /\ events'[i].mask \in Moves /\ events'[j].mask \in Moves =>
         \/ events'[i].id < events'[j].id
         \/ /\ j = i + 1 /\ events'[i].id = events'[j].id /\ events'[i].of # events'[j].of
            /\ Is(i, "moved_from")' /\ Is(j, "moved_to")'
  BY <1>1 DEF MoveEvents, Is
<1>4. ASSUME NEW i \in DOMAIN events', Is(i, "moved_to")'
      PROVE  \/ events'[i].of = place' \/ place' = Watch!Gone
             \/ \E k \in DOMAIN events' : i < k /\ Is(k, "moved_from")'
  <2>1. i \in DOMAIN events /\ events'[i] = events[i]
    BY <1>1, <1>4 DEF Is
  <2>2. \/ events[i].of = place \/ place = Watch!Gone
        \/ \E k \in DOMAIN events : i < k /\ Is(k, "moved_from")
    BY <2>1, <1>4 DEF MoveEvents, Is
  <2>3. \A k \in DOMAIN events : k \in DOMAIN events' /\ events'[k] = events[k]
    BY DEF Pushed
  <2> QED
    BY <2>1, <2>2, <2>3 DEF Is
<1> QED
  BY <1>2, <1>3, <1>4 DEF MoveEvents

\* A rename that has half been handled stays the next thing.
LEMMA PushedHalfMoved ==
  ASSUME MoveEvents, HalfMoved, Pushed, events \in Seq(Queued), UNCHANGED <<moving, child>>,
         \A i \in DOMAIN events' \ DOMAIN events :
           Is(i, "moved_to")' => events'[i].id \notin moving
  PROVE  HalfMoved'
<1> SUFFICES ASSUME NEW i \in DOMAIN events', Is(i, "moved_to")', events'[i].id \in moving
             PROVE  i = 1 /\ child # Watch!NoData /\ events'[i].of # child.path
  BY DEF HalfMoved
<1>1. i \in DOMAIN events /\ events'[i] = events[i]
  BY DEF Pushed
<1> QED
  BY <1>1 DEF HalfMoved, Is

\* The chain of moves is the same when other events come behind.
LEMMA PushedChain ==
  ASSUME Chained, Pushed, events \in Seq(Queued),
         \A i \in DOMAIN events' \ DOMAIN events : events'[i].mask \notin Moves,
         place' \in {place, Watch!Gone}, UNCHANGED <<child, moving, moves, departures>>
  PROVE  Chained'
<1> SUFFICES ASSUME departures' = 0
             PROVE  /\ place' # Watch!Away
                    /\ \E h \in 0 .. moves', nm \in [0 .. moves' -> Names] : Chain(h, nm)'
  BY DEF Chained
<1>1. PICK h \in 0 .. moves, nm \in [0 .. moves -> Names] : place # Watch!Away /\ Chain(h, nm)
  BY DEF Chained
<1>2. \A i \in DOMAIN events' : events'[i].mask \in Moves =>
        i \in DOMAIN events /\ events'[i] = events[i]
  BY DEF Pushed
<1>3. \A i \in DOMAIN events : i \in DOMAIN events' /\ events'[i] = events[i]
  BY DEF Pushed
<1>4. place' # Watch!Away /\ (place' # Watch!Gone => place' = nm[moves])
  BY <1>1, FolderConstants DEF Chain
<1>5. \A i \in DOMAIN events' :
        /\ Is(i, "moved_to")' => events'[i].id > h /\ events'[i].of = nm[events'[i].id]
        /\ Is(i, "moved_from")' =>
             /\ events'[i].id > h /\ events'[i].of = nm[events'[i].id - 1]
             /\ events'[i].id \notin moving'
  BY <1>1, <1>2 DEF Chain, Is, Moves
<1>6. \A k \in h + 1 .. moves' :
        /\ \E i \in DOMAIN events' : Is(i, "moved_to")' /\ events'[i].id = k
        /\ k \notin moving' => \E i \in DOMAIN events' : Is(i, "moved_from")' /\ events'[i].id = k
  BY <1>1, <1>3 DEF Chain, Is
<1>7. Chain(h, nm)'
  BY <1>1, <1>4, <1>5, <1>6 DEF Chain
<1> QED
  BY <1>1, <1>4, <1>7

\* A file whose event is pending stays pending.
LEMMA PushedPending ==
  ASSUME Pushed
  PROVE  Watch!PendingFiles \subseteq Watch!PendingFiles'
<1> SUFFICES ASSUME NEW f \in Watch!PendingFiles PROVE f \in Watch!PendingFiles'
  OBVIOUS
<1>1. PICK i \in DOMAIN events : events[i].mask = "close_write" /\ events[i].id = f
  BY DEF Watch!PendingFiles
<1>2. i \in DOMAIN events' /\ events'[i] = events[i]
  BY DEF Pushed
<1> QED
  BY <1>1, <1>2 DEF Watch!PendingFiles

FileState == [picture : BOOLEAN, calm : BOOLEAN]

\* A file of which only the calm changes.
LEMMA CalmChanges ==
  ASSUME NEW r \in FileState, NEW b \in BOOLEAN, NEW s, s = [r EXCEPT !.calm = b]
  PROVE  s \in FileState /\ s.calm = b /\ s.picture = r.picture
BY DEF FileState

\* When the folder moves or goes, no file whose event is pending stays calm.
LEMMA Disturbed ==
  ASSUME WatchTypes, CalmEvents, Pushed, Watch!Disturb,
         \A i \in DOMAIN events' \ DOMAIN events : events'[i].mask # "close_write"
  PROVE  /\ files' \in Seq([picture : BOOLEAN, calm : BOOLEAN]) /\ Len(files') = Len(files)
         /\ DOMAIN files' = DOMAIN files
         /\ CalmEvents' /\ CalmWatched'
         /\ Watch!CalmFileIsShown /\ UNCHANGED <<mode, alive, frames>> => Watch!CalmFileIsShown'
<1> DEFINE Pending(f) == f \in Watch!PendingFiles
<1>1. files \in Seq(FileState)
  BY DEF WatchTypes, Watch!TypeOK, FileState
<1>2. files' = [f \in DOMAIN files |-> [files[f] EXCEPT !.calm = @ /\ ~Pending(f)]]
  BY Zenon DEF Watch!Disturb
<1> HIDE DEF Pending
<1>3. \A f \in DOMAIN files :
        /\ files'[f] \in FileState
        /\ files'[f].calm = (files[f].calm /\ ~Pending(f))
        /\ files'[f].picture = files[f].picture
  <2> TAKE f \in DOMAIN files
  <2> DEFINE b == files[f].calm /\ ~Pending(f)
  <2>1. files[f] \in FileState
    BY <1>1
  <2>2. files'[f] = [files[f] EXCEPT !.calm = b]
    BY <1>2, Zenon
  <2>3. b \in BOOLEAN
    BY Zenon
  <2> HIDE DEF b
  <2>4. files'[f] \in FileState /\ files'[f].calm = b /\ files'[f].picture = files[f].picture
    BY <2>1, <2>2, <2>3, CalmChanges
  <2> QED
    BY <2>4, Zenon DEF b
<1>4. \A f \in DOMAIN files :
        files'[f].calm => files[f].calm /\ f \notin Watch!PendingFiles
  BY <1>3, Zenon DEF Pending
<1>5. DOMAIN files' = DOMAIN files
  BY <1>2
<1>6. files' \in Seq(FileState) /\ Len(files') = Len(files)
  <2>1. files' = [f \in DOMAIN files |-> files'[f]]
    BY <1>2, Zenon
  <2>2. PICK n \in Nat : n = Len(files) /\ DOMAIN files = 1 .. n
    BY <1>1
  <2>3. files' \in [1 .. n -> FileState]
    BY <1>3, <2>1, <2>2, Zenon
  <2> QED
    BY <2>2, <2>3
<1>7. \A i \in DOMAIN events' : Is(i, "close_write")' =>
        /\ i \in DOMAIN events /\ events'[i] = events[i]
        /\ events'[i].id \in DOMAIN files' /\ events'[i].id \in Watch!PendingFiles
        /\ ~files'[events'[i].id].calm
  <2> SUFFICES ASSUME NEW i \in DOMAIN events', Is(i, "close_write")'
               PROVE  /\ i \in DOMAIN events /\ events'[i] = events[i]
                      /\ events'[i].id \in DOMAIN files' /\ events'[i].id \in Watch!PendingFiles
                      /\ ~files'[events'[i].id].calm
    OBVIOUS
  <2>1. i \in DOMAIN events /\ events'[i] = events[i]
    BY DEF Pushed, Is
  <2>2. events[i].id \in DOMAIN files /\ events[i].id \in Watch!PendingFiles
    BY <2>1 DEF CalmEvents, Is, Watch!PendingFiles
  <2>3. ~files'[events[i].id].calm
    BY <2>2, <1>4, Zenon
  <2> QED
    BY <2>1, <2>2, <2>3, <1>5
<1>8. CalmEvents' /\ CalmWatched'
  BY <1>7 DEF CalmEvents, CalmWatched
<1>9. ASSUME Watch!CalmFileIsShown, UNCHANGED <<mode, alive, frames>>
      PROVE  Watch!CalmFileIsShown'
  <2> SUFFICES ASSUME alive, NEW f \in DOMAIN files, files'[f].calm, mode = 0 => files'[f].picture
               PROVE  \E n \in DOMAIN frames : frames[n] = [file |-> f, shows |-> f]
    BY <1>5, <1>9 DEF Watch!CalmFileIsShown
  <2>1. files[f].calm /\ f \notin Watch!PendingFiles
    BY <1>4, Zenon
  <2>2. mode = 0 => files[f].picture
    BY <1>3, Zenon
  <2> QED
    BY <2>1, <2>2, <1>9 DEF Watch!CalmFileIsShown
<1> QED
  BY <1>5, <1>6, <1>8, <1>9 DEF FileState

\* What the kernel sends to the child has its type and its descriptor.
LEMMA FolderTells ==
  ASSUME WatchTypes, NEW m \in Masks, NEW n \in Nat
  PROVE  /\ Watch!ToFolder(m, n) \in Seq(Queued)
         /\ Len(Watch!ToFolder(m, n)) = IF live = {} THEN 0 ELSE 1
         /\ \A i \in DOMAIN Watch!ToFolder(m, n) :
              /\ Watch!ToFolder(m, n)[i].mask = m /\ Watch!ToFolder(m, n)[i].id = n
              /\ Watch!ToFolder(m, n)[i].wd = child.wd /\ child.wd \in 1 .. lastWd
<1> DEFINE e == [wd |-> child.wd, mask |-> m, of |-> Watch!Gone, id |-> n]
<1>1. Watch!ToFolder(m, n) = IF live = {} THEN <<>> ELSE <<e>>
  BY FolderTold
<1>2. live # {} => child.wd \in 1 .. lastWd /\ lastWd \in Nat
  BY ChildWd
<1>3. live # {} => e \in Queued
  BY <1>2 DEF Queued
<1>4. e.mask = m /\ e.id = n /\ e.wd = child.wd
  OBVIOUS
<1> HIDE DEF e
<1>5. CASE live = {}
  BY <1>1, <1>5
<1>6. CASE live # {}
  <2>1. Watch!ToFolder(m, n) = <<e>>
    BY <1>1, <1>6
  <2> QED
    BY <2>1, <1>2, <1>3, <1>4, <1>6
<1> QED
  BY <1>5, <1>6

\* A file that is written while the watch is settled is calm, and its event is sent
\* to the watch.
LEMMA FolderWrite == FolderInv /\ Watch!Write => FolderInv'
<1> SUFFICES ASSUME FolderInv, Watch!Write PROVE FolderInv'
  OBVIOUS
<1> DEFINE f == Len(files) + 1
           e == Watch!ToFolder("close_write", f)
<1>1. PICK picture \in BOOLEAN :
        files' = Append(files, [picture |-> picture, calm |-> Watch!Settled])
  BY DEF Watch!Write
<1>2. /\ place # Watch!Gone /\ Len(files) < MaxFiles /\ events' = events \o e
      /\ UNCHANGED <<mode, place, live, lastWd, child, moving, loaded, frames, alive,
                     moves, departures, deletes>>
  BY DEF Watch!Write
<1>3. WatchTypes /\ MoveEvents /\ CalmEvents
  BY DEF FolderInv
<1>4. /\ events \in Seq(Queued) /\ files \in Seq(FileState)
      /\ \A i \in DOMAIN events : events[i].wd \in 1 .. lastWd
  BY <1>3 DEF WatchTypes, Watch!TypeOK, FileState
<1>5. f \in Nat /\ f <= MaxFiles /\ f \notin DOMAIN files
  BY <1>2, <1>4, FolderConstants
<1>6. "close_write" \in Masks
  BY DEF Masks
<1> HIDE DEF f
<1>7. /\ e \in Seq(Queued) /\ Len(e) = IF live = {} THEN 0 ELSE 1
      /\ \A i \in DOMAIN e : e[i].mask = "close_write" /\ e[i].id = f
                             /\ e[i].wd = child.wd /\ child.wd \in 1 .. lastWd
  BY <1>3, <1>5, <1>6, FolderTells
<1> HIDE DEF e
<1>8. /\ Pushed /\ Len(events) \in Nat
      /\ \A i \in DOMAIN events' \ DOMAIN events :
           i - Len(events) \in DOMAIN e /\ events'[i] = e[i - Len(events)]
      /\ \A i \in DOMAIN e :
           /\ i + Len(events) \in DOMAIN events' \ DOMAIN events
           /\ events'[i + Len(events)] = e[i]
  BY <1>2, <1>4, <1>7, AppendPushes
<1>9. \A i \in DOMAIN events' \ DOMAIN events :
        /\ events'[i].mask = "close_write" /\ events'[i].id = f
        /\ events'[i].wd = child.wd /\ child.wd \in 1 .. lastWd /\ live # {}
  <2> TAKE i \in DOMAIN events' \ DOMAIN events
  <2>1. i - Len(events) \in DOMAIN e /\ events'[i] = e[i - Len(events)]
    BY <1>8
  <2>2. live # {}
    BY <2>1, <1>7
  <2> QED
    BY <2>1, <2>2, <1>7
\* The new file.
<1> DEFINE new == [picture |-> picture, calm |-> Watch!Settled]
<1>10. Watch!Settled \in BOOLEAN
  BY DEF Watch!Settled
<1>11. new \in FileState
  BY <1>10 DEF FileState
<1>12. new.calm = Watch!Settled
  OBVIOUS
<1> HIDE DEF new
<1>13. /\ files' \in Seq(FileState) /\ Len(files') = f /\ files'[f] = new
       /\ f \in DOMAIN files'
       /\ \A g \in DOMAIN files : g \in DOMAIN files' /\ files'[g] = files[g]
       /\ \A g \in DOMAIN files' : g # f => g \in DOMAIN files
  <2>1. files' = Append(files, new)
    BY <1>1 DEF new
  <2> QED
    BY <2>1, <1>4, <1>11 DEF f
<1>14. files'[f].calm = Watch!Settled
  BY <1>12, <1>13
<1>15. \A i \in DOMAIN events' : events'[i].wd \in 1 .. lastWd'
  BY <1>2, <1>4, <1>8, <1>9 DEF Pushed
<1>16. Watch!TypeOK'
  <2>1. /\ mode \in Modes /\ place \in Names \cup {Watch!Away, Watch!Gone}
        /\ live \subseteq 1 .. lastWd /\ lastWd \in Nat
        /\ child = Watch!NoData \/ child \in [wd : 1 .. lastWd, path : Names]
        /\ moving \subseteq 1 .. MaxMoves /\ loaded \in 0 .. MaxFiles
        /\ \A i \in DOMAIN frames : frames[i] \in [file : 1 .. MaxFiles, shows : 0 .. MaxFiles]
        /\ alive \in BOOLEAN /\ moves \in 0 .. MaxMoves /\ departures \in 0 .. MaxMoves
        /\ deletes \in 0 .. MaxDeletes
    BY <1>3 DEF WatchTypes, Watch!TypeOK
  <2>2. files' \in Seq([picture : BOOLEAN, calm : BOOLEAN]) /\ Len(files') <= MaxFiles
    BY <1>5, <1>13 DEF FileState
  <2> QED
    BY <2>1, <2>2, <1>2, <1>15 DEF Watch!TypeOK
<1>17. WatchTypes'
  <2>1. events' \in Seq(Queued)
    BY <1>8 DEF Pushed
  <2> QED
    BY <2>1, <1>2, <1>3, <1>16 DEF WatchTypes
<1>18. \A i \in DOMAIN events' \ DOMAIN events : events'[i].mask \notin Moves
  BY <1>9 DEF Moves
<1>19. MoveEvents'
  BY <1>2, <1>3, <1>4, <1>8, <1>18, PushedInOrder
<1>20. \A i \in DOMAIN events : Is(i, "close_write") =>
         events[i].id \in DOMAIN files /\ events[i].id \in DOMAIN files'
         /\ files'[events[i].id] = files[events[i].id]
  BY <1>3, <1>13 DEF CalmEvents
<1>21. \A i \in DOMAIN events : i \in DOMAIN events' /\ events'[i] = events[i]
  BY <1>8 DEF Pushed
<1>22. CalmEvents'
  <2>1. \A i \in DOMAIN events' : Is(i, "close_write")' => events'[i].id \in DOMAIN files'
    BY <1>9, <1>13, <1>20, <1>21 DEF Is
  <2>2. ASSUME NEW i \in DOMAIN events', NEW j \in DOMAIN events',
               j < i, Is(j, "moved_to")', Is(i, "close_write")', files'[events'[i].id].calm
        PROVE  \/ events'[j].of = place
               \/ \E k \in DOMAIN events' : j < k /\ k < i /\ Is(k, "moved_from")'
    <3>1. j \in DOMAIN events /\ events'[j] = events[j] /\ Is(j, "moved_to")
      BY <2>2, <1>18, <1>21 DEF Is, Moves
    <3>2. CASE i \in DOMAIN events
      <4>1. events'[i] = events[i] /\ Is(i, "close_write")
        BY <3>2, <2>2, <1>21 DEF Is
      <4>2. files[events[i].id].calm
        BY <4>1, <3>2, <2>2, <1>20
      <4>3. \/ events[j].of = place
            \/ \E k \in DOMAIN events : j < k /\ k < i /\ Is(k, "moved_from")
        BY <4>1, <4>2, <3>1, <3>2, <2>2, <1>3 DEF CalmEvents
      <4> QED
        BY <4>3, <3>1, <1>21 DEF Is
    <3>3. CASE i \notin DOMAIN events
      <4>1. \/ events[j].of = place
            \/ \E k \in DOMAIN events : j < k /\ Is(k, "moved_from")
        BY <3>1, <1>2, <1>3 DEF MoveEvents, Is
      <4>2. \A k \in DOMAIN events : k < i
        BY <3>3, <1>4, <1>8 DEF Pushed
      <4> QED
        BY <4>1, <4>2, <3>1, <1>21 DEF Is
    <3> QED
      BY <3>2, <3>3
  <2> QED
    BY <2>1, <2>2, <1>2 DEF CalmEvents
<1>23. SUFFICES ASSUME alive PROVE HalfMoved' /\ CalmWatched' /\ Chained' /\ Watch!CalmFileIsShown'
  BY <1>2, <1>17, <1>19, <1>22 DEF FolderInv
<1>24. HalfMoved /\ CalmWatched /\ Chained /\ Watch!CalmFileIsShown
  BY <1>23 DEF FolderInv
<1>25. HalfMoved'
  <2>1. \A i \in DOMAIN events' \ DOMAIN events : Is(i, "moved_to")' => events'[i].id \notin moving
    BY <1>18 DEF Is, Moves
  <2> QED
    BY <2>1, <1>2, <1>3, <1>4, <1>8, <1>24, PushedHalfMoved
<1>26. Watch!Settled => live # {} /\ child # Watch!NoData
  BY DEF Watch!Settled
<1>27. CalmWatched'
  <2> SUFFICES ASSUME NEW i \in DOMAIN events', Is(i, "close_write")', files'[events'[i].id].calm
               PROVE  IF child # Watch!NoData
                      THEN Watch!Settled /\ events'[i].wd = child.wd
                      ELSE \E k \in DOMAIN events' : k < i /\ Is(k, "moved_from")'
    BY <1>2 DEF CalmWatched, Watch!Settled
  <2>1. CASE i \in DOMAIN events
    <3>1. events'[i] = events[i] /\ Is(i, "close_write")
      BY <2>1, <1>21 DEF Is
    <3>2. files[events[i].id].calm
      BY <3>1, <2>1, <1>20
    <3>3. IF child # Watch!NoData
          THEN Watch!Settled /\ events[i].wd = child.wd
          ELSE \E k \in DOMAIN events : k < i /\ Is(k, "moved_from")
      BY <3>1, <3>2, <2>1, <1>24 DEF CalmWatched
    <3> QED
      BY <3>1, <3>3, <1>21 DEF Is
  <2>2. CASE i \notin DOMAIN events
    <3>1. events'[i].id = f /\ events'[i].wd = child.wd
      BY <2>2, <1>9
    <3>2. Watch!Settled
      BY <3>1, <1>14
    <3> QED
      BY <3>1, <3>2, <1>26
  <2> QED
    BY <2>1, <2>2
<1>28. Chained'
  BY <1>2, <1>4, <1>8, <1>18, <1>24, PushedChain
<1>29. Watch!CalmFileIsShown'
  <2> SUFFICES ASSUME NEW g \in DOMAIN files', files'[g].calm, mode = 0 => files'[g].picture,
                      g \notin Watch!PendingFiles'
               PROVE  \E n \in DOMAIN frames : frames[n] = [file |-> g, shows |-> g]
    BY <1>2 DEF Watch!CalmFileIsShown
  <2>1. CASE g # f
    <3>1. g \in DOMAIN files /\ files'[g] = files[g]
      BY <2>1, <1>13
    <3>2. g \notin Watch!PendingFiles
      BY <1>8, PushedPending
    <3> QED
      BY <3>1, <3>2, <1>23, <1>24 DEF Watch!CalmFileIsShown
  <2>2. CASE g = f
    <3>1. live # {}
      BY <2>2, <1>14, <1>26
    <3>2. 1 \in DOMAIN e
      BY <3>1, <1>7
    <3>3. 1 + Len(events) \in DOMAIN events' /\ events'[1 + Len(events)] = e[1]
      BY <3>2, <1>8
    <3>4. events'[1 + Len(events)].mask = "close_write" /\ events'[1 + Len(events)].id = f
      BY <3>2, <3>3, <1>7
    <3>5. f \in Watch!PendingFiles'
      BY <3>3, <3>4 DEF Watch!PendingFiles
    <3> QED
      BY <3>5, <2>2
  <2> QED
    BY <2>1, <2>2
<1> QED
  BY <1>25, <1>27, <1>28, <1>29

\* The folder goes, and its watch with it.
LEMMA FolderDelete == FolderInv /\ Watch!Delete => FolderInv'
<1> SUFFICES ASSUME FolderInv, Watch!Delete PROVE FolderInv'
  OBVIOUS
<1> DEFINE d == IF place = Watch!Away THEN <<>> ELSE Watch!Send(Watch!ParentWd, "delete", place, 0)
           s == Watch!ToFolder("delete_self", 0)
           g == Watch!ToFolder("ignored", 0)
           e == d \o s \o g
<1>1. /\ place # Watch!Gone /\ deletes < MaxDeletes /\ deletes' = deletes + 1
      /\ place' = Watch!Gone /\ live' = {} /\ Watch!Disturb
      /\ UNCHANGED <<mode, lastWd, child, moving, loaded, frames, alive, moves, departures>>
  BY DEF Watch!Delete
<1>2. events' = events \o d \o s \o g
  BY DEF Watch!Delete
<1>3. WatchTypes /\ MoveEvents /\ CalmEvents
  BY DEF FolderInv
<1>4. /\ events \in Seq(Queued) /\ lastWd \in Nat /\ lastWd >= 2 /\ place \in Names \cup {Watch!Away}
      /\ \A i \in DOMAIN events : events[i].wd \in 1 .. lastWd
  BY <1>1, <1>3 DEF WatchTypes, Watch!TypeOK
<1> DEFINE Quiet == {q \in Queued : q.mask \notin Told /\ q.wd \in 1 .. lastWd}
<1>5. d \in Seq(Quiet)
  <2>1. CASE place = Watch!Away
    BY <2>1
  <2>2. CASE place # Watch!Away
    <3> DEFINE q == [wd |-> 2, mask |-> "delete", of |-> place, id |-> 0]
    <3>1. q \in Quiet
      BY <2>2, <1>4 DEF Queued, Masks, Told, Moves
    <3>2. d = <<q>>
      BY <2>2 DEF Watch!Send, Watch!Event, Watch!ParentWd
    <3> HIDE DEF q, Quiet, d
    <3> QED
      BY <3>1, <3>2
  <2> QED
    BY <2>1, <2>2
<1>6. \A m \in {"delete_self", "ignored"} : Watch!ToFolder(m, 0) \in Seq(Quiet)
  <2> TAKE m \in {"delete_self", "ignored"}
  <2> DEFINE q == [wd |-> child.wd, mask |-> m, of |-> Watch!Gone, id |-> 0]
  <2>1. live # {} => child.wd \in 1 .. lastWd
    BY <1>3, ChildWd
  <2>2. live # {} => q \in Quiet
    BY <2>1, <1>4 DEF Queued, Masks, Told, Moves
  <2>3. Watch!ToFolder(m, 0) = IF live = {} THEN <<>> ELSE <<q>>
    BY <1>3, FolderTold
  <2> HIDE DEF q, Quiet
  <2>4. live # {} => <<q>> \in Seq(Quiet)
    BY <2>2
  <2>5. <<>> \in Seq(Quiet)
    OBVIOUS
  <2> QED
    BY <2>3, <2>4, <2>5, Zenon
<1> HIDE DEF d, s, g, Quiet
<1>7. s \in Seq(Quiet) /\ g \in Seq(Quiet)
  BY <1>6 DEF s, g
<1>8. e \in Seq(Quiet)
  BY <1>5, <1>7
<1>9. events' = events \o e
  <2>1. \A q \in Quiet : q \in Queued
    BY DEF Quiet
  <2>2. d \in Seq(Queued) /\ s \in Seq(Queued) /\ g \in Seq(Queued)
    BY <2>1, <1>5, <1>7
  <2> QED
    <3> DEFINE joined == d \o s
    <3>0. events \in Seq(Queued) /\ d \in Seq(Queued) /\ s \in Seq(Queued) /\ g \in Seq(Queued)
      BY <2>2, <1>4
    <3>1. joined \in Seq(Queued) /\ events \o d \o s = events \o joined
      BY <3>0
    <3> HIDE DEF joined
    <3>2. events \o joined \o g = events \o (joined \o g)
      <4>1. events \in Seq(Queued) /\ joined \in Seq(Queued) /\ g \in Seq(Queued)
        BY <3>0, <3>1, Zenon
      <4> QED
        BY <4>1, ConcatAssociative
    <3>3. events' = events \o (joined \o g)
      BY <3>1, <3>2, <1>2, Zenon
    <3> QED
      BY <3>3 DEF joined
<1>10. e \in Seq(Queued) /\ \A i \in DOMAIN e : e[i].mask \notin Told /\ e[i].wd \in 1 .. lastWd
  <2>1. \A i \in DOMAIN e : e[i] \in Quiet
    BY <1>8
  <2>2. \A q \in Quiet : q \in Queued
    BY DEF Quiet
  <2>3. e \in Seq(Queued)
    BY <2>2, <1>8
  <2> QED
    BY <2>1, <2>3 DEF Quiet
<1> HIDE DEF e
<1>11. /\ Pushed
       /\ \A i \in DOMAIN events' \ DOMAIN events :
            events'[i].mask \notin Told /\ events'[i].wd \in 1 .. lastWd
  BY <1>4, <1>9, <1>10, AppendPushes
<1>12. \A i \in DOMAIN events' \ DOMAIN events :
         events'[i].mask # "close_write" /\ events'[i].mask \notin Moves
  BY <1>11 DEF Told
<1>13. /\ files' \in Seq([picture : BOOLEAN, calm : BOOLEAN]) /\ Len(files') = Len(files)
       /\ CalmEvents' /\ CalmWatched'
       /\ Watch!CalmFileIsShown => Watch!CalmFileIsShown'
  BY <1>1, <1>3, <1>11, <1>12, Disturbed
<1>14. WatchTypes'
  <2>1. \A i \in DOMAIN events' : events'[i].wd \in 1 .. lastWd'
    BY <1>1, <1>4, <1>11 DEF Pushed
  <2>2. deletes' \in 0 .. MaxDeletes
    BY <1>1, <1>3, FolderConstants DEF WatchTypes, Watch!TypeOK
  <2>3. Watch!TypeOK'
    BY <2>1, <2>2, <1>1, <1>3, <1>13 DEF WatchTypes, Watch!TypeOK
  <2> QED
    BY <2>3, <1>1, <1>3, <1>11 DEF WatchTypes, Pushed
<1>15. MoveEvents'
  BY <1>1, <1>3, <1>4, <1>11, <1>12, PushedInOrder
<1>16. alive => HalfMoved' /\ Chained'
  <2> SUFFICES ASSUME alive PROVE HalfMoved' /\ Chained'
    OBVIOUS
  <2>1. HalfMoved /\ Chained
    BY DEF FolderInv
  <2>2. HalfMoved'
    BY <2>1, <1>1, <1>3, <1>4, <1>11, <1>12, PushedHalfMoved DEF Is, Moves
  <2>3. Chained'
    BY <2>1, <1>1, <1>4, <1>11, <1>12, PushedChain
  <2> QED
    BY <2>2, <2>3
<1> QED
  BY <1>1, <1>13, <1>14, <1>15, <1>16 DEF FolderInv

\* The two events of a move come behind all others, with a cookie of their own.
LEMMA FolderMove ==
  ASSUME FolderInv, NEW to \in Names \cup {Watch!Away}, Watch!Move(to)
  PROVE  FolderInv'
<1> DEFINE from == [wd |-> Watch!ParentWd, mask |-> "moved_from", of |-> place, id |-> moves + 1]
           into == [wd |-> Watch!ParentWd, mask |-> "moved_to", of |-> to, id |-> moves + 1]
           a == IF place = Watch!Away THEN <<>> ELSE <<from>>
           b == IF to = Watch!Away THEN <<>> ELSE <<into>>
           c == Watch!ToFolder("move_self", 0)
           e == a \o b \o c
           n == Len(events)
<1>1. /\ place # Watch!Gone /\ to # place /\ moves < MaxMoves /\ moves' = moves + 1 /\ place' = to
      /\ departures' = IF to = Watch!Away THEN departures + 1 ELSE departures
      /\ Watch!Disturb
      /\ UNCHANGED <<mode, live, lastWd, child, moving, loaded, frames, alive, deletes>>
  BY DEF Watch!Move
<1>2. events' = events \o a \o b \o c
  BY DEF Watch!Move, Watch!Send, Watch!Event
<1>3. WatchTypes /\ MoveEvents /\ CalmEvents
  BY DEF FolderInv
<1>4. /\ events \in Seq(Queued) /\ lastWd \in Nat /\ lastWd >= 2
      /\ \A i \in DOMAIN events : events[i].wd \in 1 .. lastWd
      /\ moves \in Nat /\ moving \subseteq 1 .. moves /\ departures \in Nat /\ departures <= moves
  BY <1>3 DEF WatchTypes, Watch!TypeOK
<1>5. place \in Names \cup {Watch!Away}
  BY <1>1, <1>3 DEF WatchTypes, Watch!TypeOK
<1>6. /\ place # Watch!Away => from \in Queued /\ from.wd \in 1 .. lastWd
      /\ to # Watch!Away => into \in Queued /\ into.wd \in 1 .. lastWd
  BY <1>4, <1>5 DEF Queued, Masks, Moves, Watch!ParentWd
<1>7. /\ from.mask = "moved_from" /\ from.wd = Watch!ParentWd /\ from.of = place /\ from.id = moves + 1
      /\ into.mask = "moved_to" /\ into.wd = Watch!ParentWd /\ into.of = to /\ into.id = moves + 1
  OBVIOUS
<1>8. /\ c \in Seq(Queued)
      /\ \A i \in DOMAIN c : c[i].mask = "move_self" /\ c[i].wd \in 1 .. lastWd
  <2>1. "move_self" \in Masks /\ 0 \in Nat
    BY DEF Masks
  <2> HIDE DEF c
  <2> QED
    BY <2>1, <1>3, FolderTells DEF c
<1> DEFINE la == IF place = Watch!Away THEN 0 ELSE 1
           lb == IF to = Watch!Away THEN 0 ELSE 1
<1> HIDE DEF from, into, c
<1>9. a \in Seq(Queued) /\ b \in Seq(Queued) /\ Len(a) = la /\ Len(b) = lb
      /\ (place # Watch!Away => a[1] = from) /\ (to # Watch!Away => b[1] = into)
  BY <1>6
<1>10. events' = events \o e
  <2> HIDE DEF a, b
  <2> QED
    <3> DEFINE joined == a \o b
    <3>0. events \in Seq(Queued) /\ a \in Seq(Queued) /\ b \in Seq(Queued) /\ c \in Seq(Queued)
      BY <1>4, <1>8, <1>9
    <3>1. joined \in Seq(Queued) /\ events \o a \o b = events \o joined
      BY <3>0
    <3> HIDE DEF joined
    <3>2. events \o joined \o c = events \o (joined \o c)
      <4>1. events \in Seq(Queued) /\ joined \in Seq(Queued) /\ c \in Seq(Queued)
        BY <3>0, <3>1, Zenon
      <4> QED
        BY <4>1, ConcatAssociative
    <3>3. events' = events \o (joined \o c)
      BY <3>1, <3>2, <1>2, Zenon
    <3> QED
      BY <3>3 DEF joined
<1> HIDE DEF a, b
<1>11. /\ e \in Seq(Queued) /\ Len(e) = la + lb + Len(c)
       /\ \A i \in DOMAIN e :
            \/ i = 1 /\ place # Watch!Away /\ e[i] = from
            \/ i = la + 1 /\ to # Watch!Away /\ e[i] = into
            \/ i > la + lb /\ e[i].mask = "move_self" /\ e[i].wd \in 1 .. lastWd
       /\ place # Watch!Away => 1 \in DOMAIN e /\ e[1] = from
       /\ to # Watch!Away => la + 1 \in DOMAIN e /\ e[la + 1] = into
  <2> DEFINE ab == a \o b
  <2> HIDE DEF la, lb
  <2>1. /\ ab \in Seq(Queued) /\ Len(ab) = la + lb
        /\ \A i \in DOMAIN ab : ab[i] = IF i <= la THEN a[i] ELSE b[i - la]
    BY <1>9
  <2>2. la \in {0, 1} /\ lb \in {0, 1} /\ (la = 1 <=> place # Watch!Away) /\ (lb = 1 <=> to # Watch!Away)
    BY DEF la, lb
  <2>3. Len(ab) \in Nat /\ Len(c) \in Nat /\ DOMAIN ab = 1 .. la + lb /\ DOMAIN c = 1 .. Len(c)
    BY <2>1, <1>8
  <2> HIDE DEF ab
  <2>4. /\ ab \o c \in Seq(Queued) /\ Len(ab \o c) = la + lb + Len(c)
        /\ DOMAIN (ab \o c) = 1 .. la + lb + Len(c)
        /\ \A i \in 1 .. la + lb + Len(c) :
             (ab \o c)[i] = IF i <= la + lb THEN ab[i] ELSE c[i - (la + lb)]
    BY <2>1, <2>2, <2>3, <1>8
  <2>5. e = ab \o c
    BY DEF ab
  <2> HIDE DEF e
  <2>6. ASSUME NEW i \in DOMAIN e
        PROVE  \/ i = 1 /\ place # Watch!Away /\ e[i] = from
               \/ i = la + 1 /\ to # Watch!Away /\ e[i] = into
               \/ i > la + lb /\ e[i].mask = "move_self" /\ e[i].wd \in 1 .. lastWd
    <3>1. CASE i <= la
      <4>1. i = 1 /\ la = 1 /\ i \in DOMAIN ab
        BY <3>1, <2>2, <2>3, <2>4, <2>5
      <4> QED
        BY <4>1, <2>1, <2>2, <2>4, <2>5, <1>9
    <3>2. CASE i > la /\ i <= la + lb
      <4>1. i = la + 1 /\ lb = 1 /\ i \in DOMAIN ab /\ i - la = 1
        BY <3>2, <2>2, <2>3, <2>4, <2>5
      <4>2. e[i] = ab[i] /\ ab[i] = b[1]
        BY <4>1, <3>2, <2>1, <2>2, <2>4, <2>5
      <4> QED
        BY <4>1, <4>2, <2>2, <1>9
    <3>3. CASE i > la + lb
      <4>1. i - (la + lb) \in DOMAIN c /\ e[i] = c[i - (la + lb)]
        BY <3>3, <2>2, <2>3, <2>4, <2>5
      <4> QED
        BY <4>1, <3>3, <1>8
    <3> QED
      BY <3>1, <3>2, <3>3, <2>2, <2>4, <2>5
  <2>7. place # Watch!Away => 1 \in DOMAIN e /\ e[1] = from
    BY <2>1, <2>2, <2>3, <2>4, <2>5, <1>9
  <2>8. to # Watch!Away => la + 1 \in DOMAIN e /\ e[la + 1] = into
    <3> SUFFICES ASSUME to # Watch!Away PROVE la + 1 \in DOMAIN e /\ e[la + 1] = into
      OBVIOUS
    <3>1. lb = 1 /\ la + 1 \in DOMAIN ab /\ ~(la + 1 <= la) /\ la + 1 - la = 1
      BY <2>2, <2>3
    <3>2. ab[la + 1] = into
      BY <3>1, <2>1, <1>9
    <3> QED
      BY <3>1, <3>2, <2>2, <2>3, <2>4, <2>5
  <2> QED
    BY <2>4, <2>5, <2>6, <2>7, <2>8
<1> HIDE DEF e, la, lb
<1>12. la \in {0, 1} /\ (la = 1 <=> place # Watch!Away)
  BY DEF la
<1>13. /\ Pushed /\ n \in Nat
       /\ \A i \in DOMAIN events' \ DOMAIN events : i - n \in DOMAIN e /\ events'[i] = e[i - n]
       /\ \A i \in DOMAIN e : i + n \in DOMAIN events' \ DOMAIN events /\ events'[i + n] = e[i]
  BY <1>4, <1>10, <1>11, AppendPushes
<1>14. events' \in Seq(Queued) /\ DOMAIN events = 1 .. n
       /\ (\A i \in DOMAIN events : i \in DOMAIN events' /\ events'[i] = events[i])
       /\ (\A i \in DOMAIN events' \ DOMAIN events : i \in Nat /\ i > n)
  BY <1>4, <1>13 DEF Pushed
<1> HIDE DEF n
\* The events that are new.
<1>15. \A i \in DOMAIN events' \ DOMAIN events :
         \/ i = n + 1 /\ place # Watch!Away /\ events'[i] = from
         \/ i = n + la + 1 /\ to # Watch!Away /\ events'[i] = into
         \/ events'[i].mask = "move_self" /\ events'[i].wd \in 1 .. lastWd
  <2> TAKE i \in DOMAIN events' \ DOMAIN events
  <2>1. i - n \in DOMAIN e /\ events'[i] = e[i - n] /\ i \in Nat
    BY <1>13, <1>14
  <2>2. \/ i - n = 1 /\ place # Watch!Away /\ e[i - n] = from
        \/ i - n = la + 1 /\ to # Watch!Away /\ e[i - n] = into
        \/ e[i - n].mask = "move_self" /\ e[i - n].wd \in 1 .. lastWd
    BY <2>1, <1>11
  <2> QED
    BY <2>1, <2>2, <1>12, <1>13
<1>16. place # Watch!Away => n + 1 \in DOMAIN events' \ DOMAIN events /\ events'[n + 1] = from
  BY <1>11, <1>13
<1>17. to # Watch!Away =>
         n + la + 1 \in DOMAIN events' \ DOMAIN events /\ events'[n + la + 1] = into
  <2> SUFFICES ASSUME to # Watch!Away
               PROVE  n + la + 1 \in DOMAIN events' \ DOMAIN events /\ events'[n + la + 1] = into
    OBVIOUS
  <2>1. la + 1 + n \in DOMAIN events' \ DOMAIN events /\ events'[la + 1 + n] = into
    BY <1>11, <1>13
  <2>2. la + 1 + n = n + la + 1
    BY <1>12, <1>13
  <2> QED
    BY <2>1, <2>2
<1>18. \A i \in DOMAIN events' \ DOMAIN events : events'[i].mask # "close_write"
  BY <1>7, <1>15
<1>19. /\ files' \in Seq([picture : BOOLEAN, calm : BOOLEAN]) /\ Len(files') = Len(files)
       /\ CalmEvents' /\ CalmWatched'
       /\ Watch!CalmFileIsShown => Watch!CalmFileIsShown'
  BY <1>1, <1>3, <1>13, <1>18, Disturbed
<1>20. WatchTypes'
  <2>1. \A i \in DOMAIN events' : events'[i].wd \in 1 .. lastWd'
    BY <1>1, <1>4, <1>6, <1>14, <1>15
  <2>2. moves' \in 0 .. MaxMoves /\ departures' \in 0 .. MaxMoves /\ departures' <= moves'
    BY <1>1, <1>4, FolderConstants
  <2>3. Watch!TypeOK'
    BY <2>1, <2>2, <1>1, <1>3, <1>5, <1>19 DEF WatchTypes, Watch!TypeOK
  <2>4. moving' \subseteq 1 .. moves'
    BY <1>1, <1>4
  <2> QED
    BY <2>2, <2>3, <2>4, <1>1, <1>3, <1>14 DEF WatchTypes
<1>21. MoveEvents'
  <2>1. ASSUME NEW i \in DOMAIN events', events'[i].mask \in Moves
        PROVE  events'[i].wd = Watch!ParentWd /\ events'[i].of \in Names
               /\ events'[i].id \in 1 .. moves'
               /\ (i \in DOMAIN events => events'[i].id \in 1 .. moves)
    <3>1. CASE i \in DOMAIN events
      <4>1. events[i].wd = Watch!ParentWd /\ events[i].of \in Names /\ events[i].id \in 1 .. moves
        BY <3>1, <2>1, <1>3, <1>14 DEF MoveEvents
      <4> QED
        BY <4>1, <3>1, <1>1, <1>4, <1>14
    <3>2. CASE i \notin DOMAIN events
      <4>1. \/ place # Watch!Away /\ events'[i] = from
            \/ to # Watch!Away /\ events'[i] = into
        BY <3>2, <2>1, <1>15 DEF Moves
      <4>2. moves + 1 \in 1 .. moves'
        BY <1>1, <1>4
      <4> QED
        BY <4>1, <4>2, <3>2, <1>5, <1>7
    <3> QED
      BY <3>1, <3>2
  <2>2. ASSUME NEW i \in DOMAIN events', NEW j \in DOMAIN events',
               i < j, events'[i].mask \in Moves, events'[j].mask \in Moves
        PROVE  \/ events'[i].id < events'[j].id
               \/ /\ j = i + 1 /\ events'[i].id = events'[j].id /\ events'[i].of # events'[j].of
                  /\ Is(i, "moved_from")' /\ Is(j, "moved_to")'
    <3>1. CASE i \in DOMAIN events /\ j \in DOMAIN events
      <4>1. \/ events[i].id < events[j].id
            \/ /\ j = i + 1 /\ events[i].id = events[j].id /\ events[i].of # events[j].of
               /\ Is(i, "moved_from") /\ Is(j, "moved_to")
        BY <3>1, <2>2, <1>3, <1>14 DEF MoveEvents
      <4> QED
        BY <4>1, <3>1, <1>14 DEF Is
    <3>2. CASE i \in DOMAIN events /\ j \notin DOMAIN events
      <4>1. events'[i].id \in 1 .. moves
        BY <3>2, <2>1, <2>2
      <4>2. events'[j].id = moves + 1
        BY <3>2, <2>2, <1>7, <1>15 DEF Moves
      <4> QED
        BY <4>1, <4>2, <1>4
    <3>3. CASE i \notin DOMAIN events
      <4>1. j \notin DOMAIN events /\ i \in Nat /\ j \in Nat /\ n \in Nat
        BY <3>3, <2>2, <1>13, <1>14
      <4>2. \/ i = n + 1 /\ place # Watch!Away /\ events'[i] = from
            \/ i = n + la + 1 /\ to # Watch!Away /\ events'[i] = into
        BY <3>3, <2>2, <1>15 DEF Moves
      <4>3. \/ j = n + 1 /\ place # Watch!Away /\ events'[j] = from
            \/ j = n + la + 1 /\ to # Watch!Away /\ events'[j] = into
        BY <4>1, <2>2, <1>15 DEF Moves
      <4>4. /\ i = n + 1 /\ events'[i] = from
            /\ j = n + la + 1 /\ events'[j] = into /\ la = 1
        BY <4>1, <4>2, <4>3, <2>2, <1>12
      <4>5. j = i + 1
        BY <4>1, <4>4
      <4> QED
        BY <4>4, <4>5, <1>1, <1>7 DEF Is
    <3> QED
      BY <3>1, <3>2, <3>3
  <2>3. ASSUME NEW i \in DOMAIN events', Is(i, "moved_to")'
        PROVE  \/ events'[i].of = place' \/ place' = Watch!Gone
               \/ \E k \in DOMAIN events' : i < k /\ Is(k, "moved_from")'
    <3>1. CASE i \in DOMAIN events
      <4>1. \/ events[i].of = place \/ place = Watch!Gone
            \/ \E k \in DOMAIN events : i < k /\ Is(k, "moved_from")
        BY <3>1, <2>3, <1>3, <1>14 DEF MoveEvents, Is
      <4>2. CASE \E k \in DOMAIN events : i < k /\ Is(k, "moved_from")
        BY <4>2, <1>14 DEF Is
      <4>3. CASE events[i].of = place
        <5>1. events[i].of \in Names
          BY <3>1, <2>3, <1>3, <1>14 DEF MoveEvents, Is, Moves
        <5>2. place # Watch!Away
          BY <5>1, <4>3, FolderConstants
        <5>3. n + 1 \in DOMAIN events' /\ i < n + 1 /\ events'[n + 1].mask = "moved_from"
          BY <5>2, <3>1, <1>7, <1>13, <1>14, <1>16
        <5> QED
          BY <5>3 DEF Is
      <4> QED
        BY <4>1, <4>2, <4>3, <1>1
    <3>2. CASE i \notin DOMAIN events
      <4>1. events'[i] = into
        BY <3>2, <2>3, <1>7, <1>15 DEF Is
      <4> QED
        BY <4>1, <1>1, <1>7
    <3> QED
      BY <3>1, <3>2
  <2> QED
    BY <2>1, <2>2, <2>3 DEF MoveEvents
<1>22. SUFFICES ASSUME alive PROVE HalfMoved' /\ Chained' /\ Watch!CalmFileIsShown'
  BY <1>1, <1>19, <1>20, <1>21 DEF FolderInv
<1>23. HalfMoved /\ Chained /\ Watch!CalmFileIsShown
  BY <1>22 DEF FolderInv
<1>24. HalfMoved'
  <2>1. moves + 1 \notin moving
    BY <1>4
  <2>2. \A i \in DOMAIN events' \ DOMAIN events : Is(i, "moved_to")' => events'[i].id \notin moving
    BY <2>1, <1>7, <1>15 DEF Is
  <2> QED
    BY <2>2, <1>1, <1>3, <1>4, <1>13, <1>23, PushedHalfMoved
\* The names the folder has had, with the new one.
<1>25. Chained'
  <2> SUFFICES ASSUME departures' = 0
               PROVE  /\ place' # Watch!Away
                      /\ \E h \in 0 .. moves', nm \in [0 .. moves' -> Names] : Chain(h, nm)'
    BY DEF Chained
  <2>1. to # Watch!Away /\ departures = 0
    BY <1>1, <1>4
  <2>2. PICK h \in 0 .. moves, nm \in [0 .. moves -> Names] : place # Watch!Away /\ Chain(h, nm)
    BY <2>1, <1>23 DEF Chained
  <2>3. to \in Names
    BY <2>1
  <2>4. PICK names \in [0 .. moves + 1 -> Names] :
          names[moves + 1] = to /\ \A k \in 0 .. moves : names[k] = nm[k]
    <3> DEFINE N == [k \in 0 .. moves + 1 |-> IF k = moves + 1 THEN to ELSE nm[k]]
    <3>1. N \in [0 .. moves + 1 -> Names] /\ N[moves + 1] = to
          /\ \A k \in 0 .. moves : N[k] = nm[k]
      BY <2>2, <2>3, <1>4
    <3> QED
      BY <3>1
  <2>5. h \in Nat /\ h <= moves /\ h \in 0 .. moves'
    BY <2>2, <1>1, <1>4
  <2>6. place = nm[moves] /\ moving \subseteq {h + 1} /\ (child # Watch!NoData => child.path = nm[h])
    BY <2>2, <1>1 DEF Chain
  <2>7. moves \in Nat /\ moves' = moves + 1 /\ place' = to /\ moving' = moving /\ child' = child
    BY <1>1, <1>4
  <2>8. ASSUME NEW i \in DOMAIN events'
        PROVE  /\ Is(i, "moved_to")' => events'[i].id > h /\ events'[i].of = names[events'[i].id]
               /\ Is(i, "moved_from")' =>
                    /\ events'[i].id > h /\ events'[i].of = names[events'[i].id - 1]
                    /\ events'[i].id \notin moving'
    <3>1. CASE i \in DOMAIN events
      <4>1. events'[i] = events[i]
        BY <3>1, <1>14
      <4>2. Is(i, "moved_to") \/ Is(i, "moved_from") => events[i].id \in 1 .. moves
        BY <3>1, <1>3 DEF MoveEvents, Is, Moves
      <4>3. /\ Is(i, "moved_to") => events[i].id > h /\ events[i].of = nm[events[i].id]
            /\ Is(i, "moved_from") =>
                 /\ events[i].id > h /\ events[i].of = nm[events[i].id - 1]
                 /\ events[i].id \notin moving
        BY <3>1, <2>2 DEF Chain
      <4>4. \A k \in 1 .. moves : names[k] = nm[k] /\ names[k - 1] = nm[k - 1]
        BY <2>4, <1>4
      <4> QED
        BY <4>1, <4>2, <4>3, <4>4, <1>1 DEF Is
    <3>2. CASE i \notin DOMAIN events
      <4>1. /\ Is(i, "moved_to")' => events'[i] = into
            /\ Is(i, "moved_from")' => events'[i] = from
        BY <3>2, <1>7, <1>15 DEF Is
      <4>2. moves + 1 > h /\ names[moves + 1] = to /\ moves + 1 - 1 = moves /\ names[moves] = place
        BY <2>4, <2>5, <2>6, <1>4
      <4>3. moves + 1 \notin moving'
        BY <1>1, <1>4
      <4>4. into.id > h /\ into.of = names[into.id]
        BY <4>2, <1>7
      <4>5. from.id > h /\ from.id \notin moving'
        BY <4>2, <4>3, <1>7
      <4>6. from.of = names[from.id - 1]
        <5>1. from.id - 1 = moves
          BY <2>7, <1>7
        <5> QED
          BY <5>1, <4>2, <1>7
      <4> QED
        BY <4>1, <4>4, <4>5, <4>6
    <3> QED
      BY <3>1, <3>2
  <2>9. ASSUME NEW k \in h + 1 .. moves'
        PROVE  /\ \E i \in DOMAIN events' : Is(i, "moved_to")' /\ events'[i].id = k
               /\ k \notin moving' => \E i \in DOMAIN events' : Is(i, "moved_from")' /\ events'[i].id = k
    <3>1. CASE k = moves + 1
      BY <3>1, <2>1, <2>2, <1>7, <1>16, <1>17 DEF Is
    <3>2. CASE k # moves + 1
      <4>1. k \in h + 1 .. moves
        BY <3>2, <2>5, <2>9, <2>7
      <4>2. /\ \E i \in DOMAIN events : Is(i, "moved_to") /\ events[i].id = k
            /\ k \notin moving => \E i \in DOMAIN events : Is(i, "moved_from") /\ events[i].id = k
        BY <4>1, <2>2 DEF Chain
      <4> QED
        BY <4>2, <1>1, <1>14 DEF Is
    <3> QED
      BY <3>1, <3>2
  <2>10. /\ child' # Watch!NoData => child'.path = names[h]
        /\ place' = names[moves'] /\ moving' \subseteq {h + 1}
    BY <2>4, <2>5, <2>6, <2>7
  <2>11. Chain(h, names)'
    BY <2>8, <2>9, <2>10 DEF Chain
  <2>12. names \in [0 .. moves' -> Names] /\ place' # Watch!Away
    BY <2>1, <2>4, <2>7
  <2> QED
    BY <2>5, <2>11, <2>12
<1> QED
  BY <1>19, <1>22, <1>23, <1>24, <1>25

\* The invariant of the watched folder is inductive.
LEMMA FolderStep == FolderInv /\ [Watch!Next]_Watch!vars => FolderInv'
<1> SUFFICES ASSUME FolderInv, [Watch!Next]_Watch!vars PROVE FolderInv'
  OBVIOUS
<1>1. CASE Watch!Write
  BY <1>1, FolderWrite
<1>2. CASE Watch!Delete
  BY <1>2, FolderDelete
<1>3. CASE \E to \in Names \cup {Watch!Away} : Watch!Move(to)
  BY <1>3, FolderMove
<1>4. CASE Watch!Drop \/ Watch!OnLogged
  BY <1>4, FolderDrop
<1>5. CASE Watch!OnCloseWrite
  BY <1>5, FolderCloseWrite
<1>6. CASE Watch!OnUnexpected
  BY <1>6, FolderUnexpected
<1>7. CASE Watch!OnMovedFrom
  BY <1>7, FolderMovedFrom
<1>8. CASE Watch!OnMovedTo
  BY <1>8, FolderMovedTo
<1>9. CASE UNCHANGED Watch!vars
  <2>1. WatchTypes'
    BY <1>9 DEF FolderInv, Watch!vars, WatchTypes, Watch!TypeOK
  <2>2. MoveEvents' /\ CalmEvents'
    BY <1>9 DEF FolderInv, Watch!vars, MoveEvents, CalmEvents, Is
  <2>3. HalfMoved' <=> HalfMoved
    BY <1>9 DEF Watch!vars, HalfMoved, Is
  <2>4. CalmWatched' <=> CalmWatched
    BY <1>9 DEF Watch!vars, CalmWatched, Is, Watch!Settled
  <2>5. Chained' <=> Chained
    BY <1>9 DEF Watch!vars, Chained, Chain, Is
  <2>6. Watch!CalmFileIsShown' <=> Watch!CalmFileIsShown
    BY <1>9 DEF Watch!vars, Watch!CalmFileIsShown, Watch!PendingFiles
  <2>7. alive' = alive
    BY <1>9 DEF Watch!vars
  <2> QED
    BY <2>1, <2>2, <2>3, <2>4, <2>5, <2>6, <2>7 DEF FolderInv
<1> QED
  BY <1>1, <1>2, <1>3, <1>4, <1>5, <1>6, <1>7, <1>8, <1>9 DEF Watch!Next

\* Once all events are handled all moves are.
LEMMA FolderFollowed ==
  FolderInv => Watch!TypeOK /\ Watch!WatchFollowsFolder /\ Watch!MovesAreMatched
               /\ Watch!CalmFileIsShown
<1> SUFFICES ASSUME FolderInv
             PROVE  Watch!WatchFollowsFolder /\ Watch!MovesAreMatched /\ Watch!CalmFileIsShown
  BY DEF FolderInv, WatchTypes
<1>1. Watch!CalmFileIsShown
  BY DEF FolderInv, Watch!CalmFileIsShown
<1>2. ASSUME alive, events = <<>>, departures = 0
      PROVE  moving = {} /\ (place # Watch!Gone => Watch!Settled \/ child = Watch!NoData)
  <2>1. WatchTypes /\ Chained
    BY <1>2 DEF FolderInv
  <2>2. PICK h \in 0 .. moves, nm \in [0 .. moves -> Names] : Chain(h, nm)
    BY <2>1, <1>2 DEF Chained
  <2>3. moves \in Nat /\ moving \subseteq 1 .. moves
    BY <2>1 DEF WatchTypes, Watch!TypeOK
  <2>4. h = moves
    <3> SUFFICES ASSUME h # moves PROVE FALSE
      OBVIOUS
    <3>1. h + 1 \in h + 1 .. moves
      BY <2>2, <2>3
    <3>2. \E i \in DOMAIN events : Is(i, "moved_to") /\ events[i].id = h + 1
      BY <3>1, <2>2 DEF Chain
    <3> QED
      BY <3>2, <1>2
  <2>5. moving = {}
    BY <2>2, <2>3, <2>4 DEF Chain
  <2>6. ASSUME place # Watch!Gone, child # Watch!NoData
        PROVE  Watch!Settled
    <3>1. child.path = place
      BY <2>2, <2>4, <2>6 DEF Chain
    <3>2. live = {child.wd}
      BY <2>1, <2>6 DEF WatchTypes
    <3> QED
      BY <3>1, <3>2, <2>6 DEF Watch!Settled
  <2> QED
    BY <2>5, <2>6
<1>3. Watch!WatchFollowsFolder
  BY <1>2 DEF Watch!WatchFollowsFolder
<1>4. Watch!MovesAreMatched
  BY <1>2 DEF Watch!MovesAreMatched
<1> QED
  BY <1>1, <1>3, <1>4

\* However often the folder is renamed, moved, deleted or written to, and however late
\* the events are read: its watch and the halves of its renames follow it, and a calm
\* file is shown with its own picture (input-source.c:887-964).
THEOREM FolderIsFollowed ==
  Watch!Spec => [](Watch!WatchFollowsFolder /\ Watch!MovesAreMatched /\ Watch!CalmFileIsShown)
<1> QED
  BY FolderInit, FolderStep, FolderFollowed, PTL DEF Watch!Spec
=============================================================================
