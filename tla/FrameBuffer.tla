---------------------------- MODULE FrameBuffer ----------------------------
(***************************************************************************)
(* The double buffer behind every io_input (src/io-input.c) and the frame  *)
(* copy it is built on (utils/input-frame.c).                              *)
(*                                                                         *)
(* double_buffer_set copies the new frame into frames[1] WITHOUT the mutex *)
(* and takes the mutex only to number the frame and to swap the two        *)
(* pointers.  double_buffer_get holds the mutex while it copies frames[0]. *)
(* A copy is not atomic: input_frame_copy first marks the destination      *)
(* "unknown", then replaces the pixels and the json text, then the header  *)
(* (type, timestamp).                                                      *)
(*                                                                         *)
(* The content of a frame is abstracted to where it comes from: every call *)
(* of set_frame has an identity 1, 2, 3, ... and each field of a frame     *)
(* holds the identity of the call that wrote it, 0 when it never was.      *)
(***************************************************************************)
EXTENDS Integers

CONSTANTS Writers,   \* threads that call set_frame
          Readers,   \* threads that call get_frame
          Kinds,     \* image types of the frames that are handed over
          Texts,     \* TRUE \in Texts: frames may carry a json text, FALSE: may not
          Nums,      \* explicit frame numbers of the frames, 0: not numbered
          MaxCalls,  \* bound: number of set_frame calls
          None       \* nobody holds the mutex

ASSUME ThreadsAssumption ==
  /\ Writers \cap Readers = {}
  /\ None \notin Writers \cup Readers
ASSUME KindsAssumption == Kinds \subseteq {"unknown", "bgra", "coded"}
ASSUME TextsAssumption == Texts \subseteq BOOLEAN
ASSUME NumsAssumption == Nums \subseteq Nat
ASSUME MaxCallsAssumption == MaxCalls \in Nat

VARIABLES slots,   \* the two frames the buffer owns
          front,   \* slots[front] is frames[0], the other one is frames[1]
          number,  \* dbuf->frame_number
          mutex,   \* holder of dbuf->mutex
          calls,   \* set_frame calls begun so far
          pc,      \* where each thread is
          src,     \* the frame a writer is handing over
          tgt,     \* the slot a writer took for frames[1]
          frame,   \* the caller's frame a reader is filling
          out      \* frame and number the last get_frame of a reader returned

vars == <<slots, front, number, mutex, calls, pc, src, tgt, frame, out>>

Threads == Writers \cup Readers
Slots == {0, 1}

\* Mutated forms, here and below, are what the code must not become: each is
\* substituted for the definition after it and must break a property.
BackOffByOne == front + 1
\* frames[1]
Back == 1 - front

Ids == 1 .. MaxCalls

\* An input_frame: origin of its pixels, of its json text and of its header,
\* the image type and the json flag of its type.
Frame == [pix : Nat, json : Nat, head : Nat,
          kind : {"unknown", "bgra", "coded"}, flag : BOOLEAN]

\* input_frame_new: calloc
Blank == [pix |-> 0, json |-> 0, head |-> 0, kind |-> "unknown", flag |-> FALSE]

\* A frame as a producer builds it: the json flag is set iff there is a text.
NewFrame(id, kind, text) ==
  [pix |-> id, json |-> IF text THEN id ELSE 0, head |-> id, kind |-> kind, flag |-> text]

-----------------------------------------------------------------------------
\* input_frame_copy, in the three steps another thread can see.

\* Only frames with a known image type are copied.
Copyable(s) == s.kind # "unknown"

\* input_frame_set_bgra / _jpeg / _png start with type = unknown ...
CopyBegin(dst) == [dst EXCEPT !.kind = "unknown", !.flag = FALSE]

\* ... replace the pixels, and the json text only when the source has one ...
CopyPixels(dst, s) ==
  [dst EXCEPT !.pix = s.pix,
              !.json = IF s.json # 0 THEN s.json ELSE @,
              !.kind = s.kind,
              !.flag = s.json # 0]

CopyHeadAddsFlag(dst, s) ==
  [dst EXCEPT !.head = s.head, !.kind = s.kind, !.flag = @ \/ s.flag]

\* ... and input_frame_copy ends with the header.
CopyHead(dst, s) == [dst EXCEPT !.head = s.head, !.kind = s.kind, !.flag = s.flag]

-----------------------------------------------------------------------------
Init ==
  /\ slots = [s \in Slots |-> Blank]
  /\ front = 0
  /\ number = 0
  /\ mutex = None
  /\ calls = 0
  /\ pc = [t \in Threads |-> "idle"]
  /\ src = [w \in Writers |-> [frame |-> Blank, num |-> 0]]
  /\ tgt = [w \in Writers |-> 0]
  /\ frame = [r \in Readers |-> Blank]
  /\ out = [r \in Readers |-> [frame |-> Blank, num |-> 0]]

\* A producer calls set_frame; frames[1] is read here, without the mutex.
SetCall(w) ==
  /\ pc[w] = "idle"
  /\ calls < MaxCalls
  /\ calls' = calls + 1
  /\ tgt' = [tgt EXCEPT ![w] = Back]
  /\ \E kind \in Kinds, text \in Texts, num \in Nums :
       LET new == NewFrame(calls + 1, kind, text) IN
       /\ src' = [src EXCEPT ![w] = [frame |-> new, num |-> num]]
       /\ \/ /\ Copyable(new)
             /\ slots' = [slots EXCEPT ![Back] = CopyBegin(@)]
             /\ pc' = [pc EXCEPT ![w] = "pixels"]
          \/ /\ ~Copyable(new)
             /\ UNCHANGED slots
             /\ pc' = [pc EXCEPT ![w] = "publish"]
  /\ UNCHANGED <<front, number, mutex, frame, out>>

SetPixels(w) ==
  /\ pc[w] = "pixels"
  /\ slots' = [slots EXCEPT ![tgt[w]] = CopyPixels(@, src[w].frame)]
  /\ pc' = [pc EXCEPT ![w] = "head"]
  /\ UNCHANGED <<front, number, mutex, calls, src, tgt, frame, out>>

SetHead(w) ==
  /\ pc[w] = "head"
  /\ slots' = [slots EXCEPT ![tgt[w]] = CopyHead(@, src[w].frame)]
  /\ pc' = [pc EXCEPT ![w] = "publish"]
  /\ UNCHANGED <<front, number, mutex, calls, src, tgt, frame, out>>

\* The critical section of double_buffer_set.  It publishes whatever
\* frames[1] holds, also after a copy that failed.
SetPublish(w) ==
  /\ pc[w] = "publish"
  /\ mutex = None
  /\ number' = IF src[w].num > 0 THEN src[w].num ELSE number + 1
  /\ front' = Back
  /\ pc' = [pc EXCEPT ![w] = "idle"]
  /\ UNCHANGED <<slots, mutex, calls, src, tgt, frame, out>>

\* A consumer calls get_frame with a new frame or with the one it filled before.
GetCall(r) ==
  /\ pc[r] = "idle"
  /\ \E f \in {Blank, out[r].frame} : frame' = [frame EXCEPT ![r] = f]
  /\ pc' = [pc EXCEPT ![r] = "lock"]
  /\ UNCHANGED <<slots, front, number, mutex, calls, src, tgt, out>>

AcquireNothing(t) == mutex = None /\ UNCHANGED mutex

Acquire(t) == mutex = None /\ mutex' = t

GetLock(r) ==
  /\ pc[r] = "lock"
  /\ Acquire(r)
  /\ \/ /\ Copyable(slots[front])
        /\ frame' = [frame EXCEPT ![r] = CopyBegin(@)]
        /\ pc' = [pc EXCEPT ![r] = "pixels"]
     \/ /\ ~Copyable(slots[front])
        /\ UNCHANGED frame
        /\ pc' = [pc EXCEPT ![r] = "return"]
  /\ UNCHANGED <<slots, front, number, calls, src, tgt, out>>

GetPixels(r) ==
  /\ pc[r] = "pixels"
  /\ frame' = [frame EXCEPT ![r] = CopyPixels(@, slots[front])]
  /\ pc' = [pc EXCEPT ![r] = "head"]
  /\ UNCHANGED <<slots, front, number, mutex, calls, src, tgt, out>>

GetHeadUnlocks(r) ==
  /\ pc[r] = "head"
  /\ frame' = [frame EXCEPT ![r] = CopyHead(@, slots[front])]
  /\ mutex' = None
  /\ pc' = [pc EXCEPT ![r] = "return"]
  /\ UNCHANGED <<slots, front, number, calls, src, tgt, out>>

GetHead(r) ==
  /\ pc[r] = "head"
  /\ frame' = [frame EXCEPT ![r] = CopyHead(@, slots[front])]
  /\ pc' = [pc EXCEPT ![r] = "return"]
  /\ UNCHANGED <<slots, front, number, mutex, calls, src, tgt, out>>

\* The number is read, the mutex released and the frame given to the caller.
GetReturn(r) ==
  /\ pc[r] = "return"
  /\ mutex' = None
  /\ out' = [out EXCEPT ![r] = [frame |-> frame[r],
                                num |-> IF number > 0 THEN number ELSE @.num]]
  /\ pc' = [pc EXCEPT ![r] = "idle"]
  /\ UNCHANGED <<slots, front, number, calls, src, tgt, frame>>

Set(w) == SetCall(w) \/ SetPixels(w) \/ SetHead(w) \/ SetPublish(w)
Get(r) == GetCall(r) \/ GetLock(r) \/ GetPixels(r) \/ GetHead(r) \/ GetReturn(r)

Next == (\E w \in Writers : Set(w)) \/ (\E r \in Readers : Get(r))

Spec == Init /\ [][Next]_vars

-----------------------------------------------------------------------------
TypeOK ==
  /\ slots \in [Slots -> Frame]
  /\ front \in Slots
  /\ number \in Nat
  /\ mutex \in Threads \cup {None}
  /\ calls \in 0 .. MaxCalls
  /\ pc \in [Threads -> {"idle", "pixels", "head", "publish", "lock", "return"}]
  /\ src \in [Writers -> [frame : Frame, num : Nat]]
  /\ tgt \in [Writers -> Slots]
  /\ frame \in [Readers -> Frame]
  /\ out \in [Readers -> [frame : Frame, num : Nat]]

\* What the callers of the plugins rely on and nothing in the buffer enforces.
SingleWriter == \A a, b \in Writers : a = b
AlwaysCopyable == "unknown" \notin Kinds
NeverNumbered == Nums = {0}

\* Pixels and header of a frame come from one and the same set_frame.
Whole(f) == f.pix = f.head

\* get_frame never hands out a frame put together from two set_frame calls,
\* although set_frame copies without the mutex (io-input.c:82).
NoTornFrame == \A r \in Readers : Whole(out[r].frame)

\* A frame whose type announces a json text carries the text of its own
\* picture: input_frame_copy keeps the old text of a reused slot, and the flag
\* is what tells a stale text from a fresh one (input-frame.c:219, 330).
FlagIsOwnText == \A r \in Readers :
  out[r].frame.flag => out[r].frame.json = out[r].frame.pix

\* A reader is never given an older picture than it had: the swap never brings
\* back the frame of two set_frame calls ago (io-input.c:94).
NeverOlder == [][\A r \in Readers : out'[r].frame.pix >= out[r].frame.pix]_out

\* Of an unnumbered stream, the frame a reader got as number n is the n-th one
\* that was set: number and picture are taken under one lock, so a caller that
\* compares numbers to skip frames it has seen is right to (io-input.c:107).
NumberCountsFrames == \A r \in Readers : out[r].num = out[r].frame.pix

\* The buffer implements the register of LatestFrame.
Seen(o) == [id |-> IF Whole(o.frame) THEN o.frame.pix ELSE -1, num |-> o.num]

Latest == INSTANCE LatestFrame WITH
  latest <- slots[front].pix,
  out <- [r \in Readers |-> Seen(out[r])]

ImplementsLatestFrame == Latest!Spec

-----------------------------------------------------------------------------
\* The inductive invariant behind NoTornFrame and FlagIsOwnText.

WriterPcs == {"idle", "pixels", "head", "publish"}
ReaderPcs == {"idle", "lock", "pixels", "head", "return"}
Setting(w) == pc[w] \in {"pixels", "head", "publish"}
Getting(r) == pc[r] \in {"pixels", "head", "return"}

PcsOK == /\ \A w \in Writers : pc[w] \in WriterPcs
         /\ \A r \in Readers : pc[r] \in ReaderPcs

\* A reader inside its critical section holds the mutex.
ReadersLocked == \A r \in Readers : Getting(r) => mutex = r

\* A writer fills the slot no reader looks at.
WritersOffFront == \A w \in Writers : Setting(w) => tgt[w] = Back

\* The flag of a frame announces the text of the picture of the frame.
OwnText(f) == f.flag => f.json = f.pix /\ f.json # 0

SourcesOK == \A w \in Writers :
  /\ Whole(src[w].frame)
  /\ OwnText(src[w].frame)
  /\ src[w].frame.json # 0 => src[w].frame.flag

\* Only a slot in the middle of a copy is not whole, and it becomes whole.
SlotsOK ==
  /\ Whole(slots[front])
  /\ (\A w \in Writers : pc[w] # "head") => Whole(slots[Back])
  /\ OwnText(slots[0]) /\ OwnText(slots[1])
  /\ \A w \in Writers : pc[w] = "head" =>
       /\ slots[Back].pix = src[w].frame.pix
       /\ src[w].frame.flag => slots[Back].json = src[w].frame.json

ReaderFramesOK == \A r \in Readers :
  /\ Whole(out[r].frame) /\ OwnText(out[r].frame)
  /\ pc[r] \in {"idle", "lock", "pixels", "return"} => Whole(frame[r]) /\ OwnText(frame[r])
  /\ pc[r] = "head" =>
       /\ frame[r].pix = slots[front].pix
       /\ slots[front].flag => frame[r].json = slots[front].json

\* Every thread is between the steps it may be between, readers lock out the
\* swap, and what each of them has copied so far comes from the frame it copies.
CopiesOK == PcsOK /\ ReadersLocked /\ WritersOffFront /\ SourcesOK /\ SlotsOK /\ ReaderFramesOK

-----------------------------------------------------------------------------
\* The inductive invariant behind NeverOlder and ImplementsLatestFrame: what is
\* published is the frame of the last finished set_frame, and what a reader is
\* about to return is what is published.
PublishedOK ==
  /\ number > 0 <=> Copyable(slots[front])
  /\ slots[front].pix <= calls
  /\ number = 0 =>
       /\ slots[front].pix = 0
       /\ \A r \in Readers : frame[r].pix = 0 /\ out[r].frame.pix = 0 /\ out[r].num = 0
  /\ \A w \in Writers :
       /\ Setting(w) => /\ Copyable(src[w].frame)
                        /\ src[w].frame.pix = calls
                        /\ src[w].num \in Nums
                        /\ slots[front].pix < calls
       /\ pc[w] = "publish" => /\ slots[Back].pix = src[w].frame.pix
                               /\ slots[Back].kind = src[w].frame.kind
  /\ \A r \in Readers :
       /\ pc[r] = "return" => frame[r].pix = slots[front].pix
       /\ out[r].frame.pix <= slots[front].pix

\* The one behind NumberCountsFrames: calls are numbered in the order they are made.
NumberingOK ==
  /\ number = slots[front].pix
  /\ \A w \in Writers : calls = IF Setting(w) THEN number + 1 ELSE number
  /\ \A w \in Writers : src[w].num = 0
  /\ NumberCountsFrames
=============================================================================
