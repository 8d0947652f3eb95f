------------------------- MODULE FrameBufferProofs -------------------------
(***************************************************************************)
(* What holds of the double buffer for every number of readers, every kind *)
(* of frame and every number of calls: its copies are whole, and it is the *)
(* register of LatestFrame.  Nothing but the type invariant holds when two *)
(* set_frame calls overlap: the buffer does not lock its own writers.  The *)
(* lemmas ask for no more than that; the theorems, about the buffer alone, *)
(* for a single writer.                                                    *)
(***************************************************************************)
EXTENDS FrameBuffer, TLAPS

USE DEF Threads, Slots, Back, Ids

-----------------------------------------------------------------------------
\* What a copy yields.

\* A copy of a frame is a frame, after each of its steps
\* (input-frame.c:288-336).
LEMMA CopyTypes ==
  ASSUME NEW d \in Frame, NEW s \in Frame
  PROVE  /\ CopyPixels(d, s) \in Frame
         /\ CopyHead(d, s) \in Frame
BY DEF Frame, CopyPixels, CopyHead

\* What the first step of a copy leaves: the old pixels and header under the
\* type "unknown", so no flag (input-frame.c:227).
LEMMA CopyBeginFacts ==
  ASSUME NEW d \in Frame
  PROVE  /\ CopyBegin(d) \in Frame
         /\ CopyBegin(d).pix = d.pix
         /\ CopyBegin(d).head = d.head
         /\ CopyBegin(d).flag = FALSE
         /\ ~Copyable(CopyBegin(d))
BY DEF Frame, CopyBegin, Copyable

\* What the second step leaves: the pixels and, when there is one, the text of
\* the source (input-frame.c:238-252).
LEMMA CopyPixelsFacts ==
  ASSUME NEW d \in Frame, NEW s \in Frame
  PROVE  /\ CopyPixels(d, s).pix = s.pix
         /\ CopyPixels(d, s).flag = (s.json # 0)
         /\ s.json # 0 => CopyPixels(d, s).json = s.json
BY DEF Frame, CopyPixels

\* What the last step leaves: header and flag of the source
\* (input-frame.c:330-332).
LEMMA CopyHeadFacts ==
  ASSUME NEW d \in Frame, NEW s \in Frame
  PROVE  /\ CopyHead(d, s).pix = d.pix
         /\ CopyHead(d, s).json = d.json
         /\ CopyHead(d, s).head = s.head
         /\ CopyHead(d, s).flag = s.flag
         /\ CopyHead(d, s).kind = s.kind
BY DEF Frame, CopyHead

\* A frame is blank, or as a producer built it: whole, and flagged iff it has a
\* text, which is then its own.
LEMMA BlankFacts ==
  /\ Blank \in Frame
  /\ Whole(Blank) /\ OwnText(Blank) /\ ~Blank.flag /\ Blank.json = 0
BY DEF Blank, Frame, Whole, OwnText

\* A frame as a producer builds it is whole and of its own text.
LEMMA NewFrameFacts ==
  ASSUME NEW id \in Nat, id # 0, NEW kind \in Kinds, NEW text \in Texts
  PROVE  /\ NewFrame(id, kind, text) \in Frame
         /\ Whole(NewFrame(id, kind, text))
         /\ OwnText(NewFrame(id, kind, text))
         /\ NewFrame(id, kind, text).json # 0 => NewFrame(id, kind, text).flag
         /\ NewFrame(id, kind, text).pix = id
BY KindsAssumption, TextsAssumption DEF NewFrame, Frame, Whole, OwnText

-----------------------------------------------------------------------------
\* The buffer before the first frame.
LEMMA InitTypeOK == Init => TypeOK
<1> SUFFICES ASSUME Init PROVE TypeOK
  OBVIOUS
<1> QED
  BY BlankFacts, MaxCallsAssumption DEF Init, TypeOK

\* Each step of each thread keeps the types.
LEMMA NextTypeOK == TypeOK /\ [Next]_vars => TypeOK'
<1> SUFFICES ASSUME TypeOK, [Next]_vars
             PROVE  TypeOK'
  OBVIOUS
<1> USE ThreadsAssumption, MaxCallsAssumption
<1>1. ASSUME NEW w \in Writers, SetCall(w)
      PROVE  TypeOK'
  <2>1. PICK kind \in Kinds, text \in Texts, num \in Nums :
          /\ src' = [src EXCEPT ![w] = [frame |-> NewFrame(calls + 1, kind, text), num |-> num]]
          /\ \/ /\ slots' = [slots EXCEPT ![Back] = CopyBegin(@)]
                /\ pc' = [pc EXCEPT ![w] = "pixels"]
             \/ /\ UNCHANGED slots
                /\ pc' = [pc EXCEPT ![w] = "publish"]
    BY <1>1, Zenon DEF SetCall
  <2>2. NewFrame(calls + 1, kind, text) \in Frame
    BY NewFrameFacts DEF TypeOK
  <2>3. num \in Nat
    BY NumsAssumption
  <2>4. slots' \in [Slots -> Frame]
    <3>1. slots[Back] \in Frame
      BY DEF TypeOK
    <3>2. CopyBegin(slots[Back]) \in Frame
      BY <3>1, CopyBeginFacts
    <3> QED
      BY <2>1, <3>2 DEF TypeOK
  <2>5. calls' \in 0 .. MaxCalls
    BY <1>1 DEF SetCall, TypeOK
  <2>6. src' \in [Writers -> [frame : Frame, num : Nat]]
    BY <2>1, <2>2, <2>3 DEF TypeOK
  <2> QED
    BY <1>1, <2>1, <2>4, <2>5, <2>6 DEF SetCall, TypeOK
<1>2. ASSUME NEW w \in Writers, SetPixels(w)
      PROVE  TypeOK'
  BY <1>2, CopyTypes DEF SetPixels, TypeOK
<1>3. ASSUME NEW w \in Writers, SetHead(w)
      PROVE  TypeOK'
  BY <1>3, CopyTypes DEF SetHead, TypeOK
<1>4. ASSUME NEW w \in Writers, SetPublish(w)
      PROVE  TypeOK'
  BY <1>4 DEF SetPublish, TypeOK
<1>5. ASSUME NEW r \in Readers, GetCall(r)
      PROVE  TypeOK'
  BY <1>5, BlankFacts DEF GetCall, TypeOK
<1>6. ASSUME NEW r \in Readers, GetLock(r)
      PROVE  TypeOK'
  <2>1. CopyBegin(frame[r]) \in Frame
    BY CopyBeginFacts DEF TypeOK
  <2>2. frame' \in [Readers -> Frame]
    BY <1>6, <2>1 DEF GetLock, TypeOK
  <2> QED
    BY <1>6, <2>2 DEF GetLock, Acquire, TypeOK
<1>7. ASSUME NEW r \in Readers, GetPixels(r)
      PROVE  TypeOK'
  BY <1>7, CopyTypes DEF GetPixels, TypeOK
<1>8. ASSUME NEW r \in Readers, GetHead(r)
      PROVE  TypeOK'
  BY <1>8, CopyTypes DEF GetHead, TypeOK
<1>9. ASSUME NEW r \in Readers, GetReturn(r)
      PROVE  TypeOK'
  BY <1>9 DEF GetReturn, TypeOK
<1>10. ASSUME UNCHANGED vars
       PROVE  TypeOK'
  BY <1>10 DEF vars, TypeOK
<1> QED
  BY <1>1, <1>2, <1>3, <1>4, <1>5, <1>6, <1>7, <1>8, <1>9, <1>10 DEF Next, Set, Get

\* The buffer stays well-typed whoever calls it: the number of its frames never
\* leaves Nat and every frame handed out is a frame (io-input.c:78-115).
THEOREM TypeCorrect == Spec => []TypeOK
  BY InitTypeOK, NextTypeOK, PTL DEF Spec

-----------------------------------------------------------------------------
\* With one writer, every copy is of one frame: CopiesOK is inductive.  The steps
\* of a writer only need that no other writer is between two of its own.
Alone(w) == \A v \in Writers : v # w => ~Setting(v)

\* The only writer is alone.
LEMMA SingleIsAlone == SingleWriter => \A w \in Writers : Alone(w)
  BY DEF SingleWriter, Alone

\* Blank frames are whole.
LEMMA InitCopiesOK == Init => CopiesOK
<1> SUFFICES ASSUME Init PROVE CopiesOK
  OBVIOUS
<1> USE BlankFacts, ThreadsAssumption DEF Init
<1>1. PcsOK /\ ReadersLocked /\ WritersOffFront
  BY DEF PcsOK, WriterPcs, ReaderPcs, ReadersLocked, Getting, WritersOffFront, Setting
<1>2. SourcesOK
  BY DEF SourcesOK
<1>3. SlotsOK
  BY DEF SlotsOK
<1>4. ReaderFramesOK
  BY DEF ReaderFramesOK
<1> QED
  BY <1>1, <1>2, <1>3, <1>4 DEF CopiesOK

\* A writer that takes frames[1] turns it to "unknown"; nobody reads it.
LEMMA SetCallCopiesOK ==
  ASSUME TypeOK, CopiesOK, NEW w \in Writers, Alone(w), SetCall(w)
  PROVE  CopiesOK'
<1> USE ThreadsAssumption DEF CopiesOK
<1>1. PICK kind \in Kinds, text \in Texts, num \in Nums :
        /\ src' = [src EXCEPT ![w] = [frame |-> NewFrame(calls + 1, kind, text), num |-> num]]
        /\ \/ /\ slots' = [slots EXCEPT ![Back] = CopyBegin(@)]
              /\ pc' = [pc EXCEPT ![w] = "pixels"]
           \/ /\ UNCHANGED slots
              /\ pc' = [pc EXCEPT ![w] = "publish"]
  BY Zenon DEF SetCall
<1>2. /\ pc[w] = "idle"
      /\ \A v \in Writers \ {w} : pc[v] \notin {"pixels", "head", "publish"}
      /\ tgt' = [tgt EXCEPT ![w] = Back]
      /\ UNCHANGED <<front, number, mutex, frame, out>>
  BY DEF SetCall, Alone, Setting
<1>3. /\ pc'[w] \in {"pixels", "publish"}
      /\ \A t \in Threads \ {w} : pc'[t] = pc[t]
  BY <1>1 DEF TypeOK
<1>4. PcsOK' /\ ReadersLocked'
  BY <1>2, <1>3 DEF PcsOK, ReadersLocked, Getting, WriterPcs
<1>5. WritersOffFront'
  BY <1>2, <1>3 DEF WritersOffFront, Setting, TypeOK
<1>6. SourcesOK'
  <2> DEFINE new == NewFrame(calls + 1, kind, text)
  <2>1. Whole(new) /\ OwnText(new) /\ (new.json # 0 => new.flag)
    BY NewFrameFacts DEF TypeOK
  <2>2. src'[w].frame = new /\ \A v \in Writers \ {w} : src'[v] = src[v]
    BY <1>1 DEF TypeOK
  <2> HIDE DEF new
  <2> QED
    BY <2>1, <2>2 DEF SourcesOK
<1>7. /\ slots'[front] = slots[front]
      /\ \/ slots'[Back] = slots[Back]
         \/ slots'[Back] = CopyBegin(slots[Back])
  BY <1>1 DEF TypeOK
<1>8. SlotsOK'
  <2>1. Whole(slots[front]) /\ Whole(slots[Back])
    BY <1>2 DEF SlotsOK
  <2>2. OwnText(slots[front]) /\ OwnText(slots[Back])
    BY DEF SlotsOK, TypeOK
  <2>3. Whole(CopyBegin(slots[Back])) /\ OwnText(CopyBegin(slots[Back]))
    <3>1. slots[Back] \in Frame
      BY DEF TypeOK
    <3> QED
      BY <2>1, <3>1, CopyBeginFacts DEF Whole, OwnText
  <2>4. Whole(slots'[front]) /\ Whole(slots'[Back])
    BY <1>7, <2>1, <2>3
  <2>5. OwnText(slots'[0]) /\ OwnText(slots'[1])
    BY <1>7, <2>2, <2>3 DEF TypeOK
  <2> QED
    BY <1>2, <1>3, <2>4, <2>5 DEF SlotsOK
<1>9. ReaderFramesOK'
  BY <1>2, <1>3, <1>7 DEF ReaderFramesOK
<1> QED
  BY <1>4, <1>5, <1>6, <1>8, <1>9

\* The pixels are copied into the slot nobody reads (io-input.c:78-99).
LEMMA SetPixelsCopiesOK ==
  ASSUME TypeOK, CopiesOK, NEW w \in Writers, Alone(w), SetPixels(w)
  PROVE  CopiesOK'
<1> USE ThreadsAssumption DEF CopiesOK
<1>1. /\ pc[w] = "pixels"
      /\ \A v \in Writers \ {w} : pc[v] \notin {"pixels", "head", "publish"}
      /\ tgt[w] = Back
      /\ UNCHANGED <<front, number, mutex, src, tgt, frame, out>>
  BY DEF SetPixels, Alone, WritersOffFront, Setting
<1>2. /\ slots' = [slots EXCEPT ![Back] = CopyPixels(@, src[w].frame)]
      /\ pc' = [pc EXCEPT ![w] = "head"]
  BY <1>1 DEF SetPixels
<1>3. pc'[w] = "head" /\ \A t \in Threads \ {w} : pc'[t] = pc[t]
  BY <1>2 DEF TypeOK
<1>4. PcsOK' /\ ReadersLocked' /\ WritersOffFront' /\ SourcesOK'
  BY <1>1, <1>3 DEF PcsOK, ReadersLocked, Getting, WriterPcs, WritersOffFront, Setting, SourcesOK
<1>5. /\ slots'[front] = slots[front]
      /\ slots'[Back] = CopyPixels(slots[Back], src[w].frame)
  BY <1>2 DEF TypeOK
<1>6. SlotsOK'
  <2> DEFINE s == src[w].frame
             new == CopyPixels(slots[Back], s)
  <2>1. /\ new.pix = s.pix
        /\ new.flag = (s.json # 0)
        /\ s.json # 0 => new.json = s.json
    BY CopyPixelsFacts DEF TypeOK
  <2>2. OwnText(s) /\ (s.json # 0 => s.flag)
    BY DEF SourcesOK
  <2>3. OwnText(new) /\ (s.flag => new.json = s.json)
    BY <2>1, <2>2 DEF OwnText
  <2>4. OwnText(slots'[0]) /\ OwnText(slots'[1])
    <3>1. OwnText(slots[front])
      BY DEF SlotsOK, TypeOK
    <3> HIDE DEF new
    <3> QED
      BY <1>5, <2>3, <3>1 DEF TypeOK, new
  <2>5. Whole(slots'[front])
    BY <1>5 DEF SlotsOK
  <2> HIDE DEF new
  <2> QED
    BY <1>1, <1>3, <1>5, <2>1, <2>3, <2>4, <2>5 DEF SlotsOK, new
<1>7. ReaderFramesOK'
  BY <1>1, <1>3, <1>5 DEF ReaderFramesOK
<1> QED
  BY <1>4, <1>6, <1>7

\* The rest of the frame follows into the same slot.
LEMMA SetHeadCopiesOK ==
  ASSUME TypeOK, CopiesOK, NEW w \in Writers, Alone(w), SetHead(w)
  PROVE  CopiesOK'
<1> USE ThreadsAssumption DEF CopiesOK
<1>1. /\ pc[w] = "head"
      /\ \A v \in Writers \ {w} : pc[v] \notin {"pixels", "head", "publish"}
      /\ tgt[w] = Back
      /\ UNCHANGED <<front, number, mutex, src, tgt, frame, out>>
  BY DEF SetHead, Alone, WritersOffFront, Setting
<1>2. /\ slots' = [slots EXCEPT ![Back] = CopyHead(@, src[w].frame)]
      /\ pc' = [pc EXCEPT ![w] = "publish"]
  BY <1>1 DEF SetHead
<1>3. pc'[w] = "publish" /\ \A t \in Threads \ {w} : pc'[t] = pc[t]
  BY <1>2 DEF TypeOK
<1>4. PcsOK' /\ ReadersLocked' /\ WritersOffFront' /\ SourcesOK'
  BY <1>1, <1>3 DEF PcsOK, ReadersLocked, Getting, WriterPcs, WritersOffFront, Setting, SourcesOK
<1>5. /\ slots'[front] = slots[front]
      /\ slots'[Back] = CopyHead(slots[Back], src[w].frame)
  BY <1>2 DEF TypeOK
<1>6. SlotsOK'
  <2> DEFINE s == src[w].frame
             new == CopyHead(slots[Back], s)
  <2>1. /\ new.pix = slots[Back].pix
        /\ new.json = slots[Back].json
        /\ new.head = s.head
        /\ new.flag = s.flag
    BY CopyHeadFacts DEF TypeOK
  <2>2. Whole(s) /\ OwnText(s)
    BY DEF SourcesOK
  <2>3. slots[Back].pix = s.pix /\ (s.flag => slots[Back].json = s.json)
    BY <1>1 DEF SlotsOK
  <2>4. Whole(new) /\ OwnText(new)
    BY <2>1, <2>2, <2>3 DEF Whole, OwnText
  <2>5. Whole(slots'[front]) /\ OwnText(slots[front])
    BY <1>5 DEF SlotsOK, TypeOK
  <2>6. slots'[Back] = new
    BY <1>5
  <2> HIDE DEF new
  <2>7. OwnText(slots'[0]) /\ OwnText(slots'[1])
    BY <1>5, <2>4, <2>5, <2>6 DEF TypeOK
  <2> QED
    BY <1>1, <1>3, <2>4, <2>5, <2>6, <2>7 DEF SlotsOK
<1>7. ReaderFramesOK'
  BY <1>1, <1>3, <1>5 DEF ReaderFramesOK
<1> QED
  BY <1>4, <1>6, <1>7

\* The swap needs the mutex, so no reader is in the slot that becomes the back.
LEMMA SetPublishCopiesOK ==
  ASSUME TypeOK, CopiesOK, NEW w \in Writers, Alone(w), SetPublish(w)
  PROVE  CopiesOK'
<1> USE ThreadsAssumption DEF CopiesOK
<1>1. /\ pc[w] = "publish"
      /\ mutex = None
      /\ front' = Back
      /\ pc' = [pc EXCEPT ![w] = "idle"]
      /\ \A v \in Writers \ {w} : pc[v] \notin {"pixels", "head", "publish"}
      /\ UNCHANGED <<slots, mutex, src, tgt, frame, out>>
  BY DEF SetPublish, Alone, Setting
<1>2. pc'[w] = "idle" /\ \A t \in Threads \ {w} : pc'[t] = pc[t]
  BY <1>1 DEF TypeOK
<1>3. PcsOK' /\ ReadersLocked' /\ WritersOffFront' /\ SourcesOK'
  BY <1>1, <1>2 DEF PcsOK, ReadersLocked, Getting, WriterPcs, WritersOffFront, Setting, SourcesOK
<1>4. SlotsOK'
  <2>1. Whole(slots[front]) /\ Whole(slots[Back])
    BY <1>1 DEF SlotsOK
  <2>2. {front', 1 - front'} = {front, Back}
    BY <1>1 DEF TypeOK
  <2>3. OwnText(slots[0]) /\ OwnText(slots[1])
    BY DEF SlotsOK
  <2>4. Whole(slots[front']) /\ Whole(slots[1 - front'])
    BY <1>1, <2>1 DEF TypeOK
  <2> QED
    BY <1>1, <1>2, <2>3, <2>4 DEF SlotsOK
<1>5. \A r \in Readers : pc[r] \notin {"pixels", "head", "return"}
  BY <1>1 DEF ReadersLocked, Getting
<1>6. ReaderFramesOK'
  BY <1>1, <1>2, <1>5 DEF ReaderFramesOK
<1> QED
  BY <1>3, <1>4, <1>6

\* The steps of get_frame leave the slots and the writers alone.
LEMMA ReaderStep ==
  ASSUME TypeOK, CopiesOK, NEW r \in Readers,
         UNCHANGED <<slots, front, src, tgt>>,
         \A t \in Threads : t # r => pc'[t] = pc[t],
         pc'[r] \in ReaderPcs
  PROVE  PcsOK' /\ WritersOffFront' /\ SourcesOK' /\ SlotsOK'
<1> USE ThreadsAssumption DEF CopiesOK
<1>1. \A w \in Writers : w # r /\ pc'[w] = pc[w]
  OBVIOUS
<1>2. PcsOK'
  BY <1>1 DEF PcsOK
<1>3. WritersOffFront' /\ SourcesOK'
  BY <1>1 DEF WritersOffFront, Setting, SourcesOK
<1>4. SlotsOK'
  BY <1>1 DEF SlotsOK
<1> QED
  BY <1>2, <1>3, <1>4

\* A reader copies the published slot under the lock (io-input.c:101-115).
LEMMA GetCopiesOK ==
  ASSUME TypeOK, CopiesOK, NEW r \in Readers, Get(r)
  PROVE  CopiesOK'
<1> USE ThreadsAssumption DEF CopiesOK
<1>1. UNCHANGED <<slots, front, src, tgt>>
  BY DEF Get, GetCall, GetLock, GetPixels, GetHead, GetReturn
<1>2. \A t \in Threads : t # r => pc'[t] = pc[t]
  BY DEF Get, GetCall, GetLock, GetPixels, GetHead, GetReturn, TypeOK
<1>3. \A q \in Readers : q # r => pc'[q] = pc[q] /\ frame'[q] = frame[q] /\ out'[q] = out[q]
  BY DEF Get, GetCall, GetLock, GetPixels, GetHead, GetReturn, TypeOK
<1>4. pc'[r] \in ReaderPcs
  BY DEF Get, GetCall, GetLock, GetPixels, GetHead, GetReturn, ReaderPcs, TypeOK
<1>5. PcsOK' /\ WritersOffFront' /\ SourcesOK' /\ SlotsOK'
  BY <1>1, <1>2, <1>4, ReaderStep
<1>6. ReadersLocked'
  <2>1. CASE GetCall(r)
    BY <1>3, <2>1 DEF GetCall, ReadersLocked, Getting, TypeOK
  <2>2. CASE GetLock(r)
    BY <1>3, <2>2 DEF GetLock, Acquire, ReadersLocked, Getting
  <2>3. CASE GetPixels(r) \/ GetHead(r)
    BY <1>3, <2>3 DEF GetPixels, GetHead, ReadersLocked, Getting
  <2>4. CASE GetReturn(r)
    BY <1>3, <2>4 DEF GetReturn, ReadersLocked, Getting, TypeOK
  <2> QED
    BY <2>1, <2>2, <2>3, <2>4 DEF Get
<1>7. ReaderFramesOK'
  <2> DEFINE Held(q) ==
        /\ Whole(out[q].frame) /\ OwnText(out[q].frame)
        /\ pc[q] \in {"idle", "lock", "pixels", "return"} => Whole(frame[q]) /\ OwnText(frame[q])
        /\ pc[q] = "head" =>
             /\ frame[q].pix = slots[front].pix
             /\ slots[front].flag => frame[q].json = slots[front].json
  <2>1. Held(r) /\ Whole(slots[front]) /\ OwnText(slots[front])
    BY DEF ReaderFramesOK, SlotsOK, TypeOK
  <2>2. frame[r] \in Frame /\ slots[front] \in Frame
    BY DEF TypeOK
  <2>3. CASE GetCall(r)
    <3>1. frame'[r] \in {Blank, out[r].frame} /\ pc'[r] = "lock" /\ out'[r] = out[r]
      BY <2>3 DEF GetCall, TypeOK
    <3>2. Whole(frame'[r]) /\ OwnText(frame'[r])
      BY <2>1, <3>1, BlankFacts
    <3>3. Held(r)'
      BY <2>1, <3>1, <3>2
    <3> QED
      BY <1>1, <1>3, <3>3 DEF ReaderFramesOK
  <2>4. CASE GetLock(r)
    <3>1. /\ pc[r] = "lock"
          /\ out'[r] = out[r]
          /\ \/ frame'[r] = frame[r] /\ pc'[r] = "return"
             \/ frame'[r] = CopyBegin(frame[r]) /\ pc'[r] = "pixels"
      BY <2>4 DEF GetLock, TypeOK
    <3>2. Whole(CopyBegin(frame[r])) /\ OwnText(CopyBegin(frame[r]))
      BY <2>1, <2>2, <3>1, CopyBeginFacts DEF Whole, OwnText
    <3>3. Whole(frame'[r]) /\ OwnText(frame'[r])
      BY <2>1, <3>1, <3>2
    <3>4. Held(r)'
      BY <2>1, <3>1, <3>3
    <3> QED
      BY <1>1, <1>3, <3>4 DEF ReaderFramesOK
  <2>5. CASE GetPixels(r)
    <3>1. /\ out'[r] = out[r]
          /\ frame'[r] = CopyPixels(frame[r], slots[front])
          /\ pc'[r] = "head"
      BY <2>5 DEF GetPixels, TypeOK
    <3>2. /\ frame'[r].pix = slots[front].pix
          /\ slots[front].flag => frame'[r].json = slots[front].json
      BY <2>1, <2>2, <3>1, CopyPixelsFacts DEF OwnText
    <3>3. Held(r)'
      BY <1>1, <2>1, <3>1, <3>2
    <3> QED
      BY <1>1, <1>3, <3>3 DEF ReaderFramesOK
  <2>6. CASE GetHead(r)
    <3>1. /\ pc[r] = "head"
          /\ out'[r] = out[r]
          /\ frame'[r] = CopyHead(frame[r], slots[front])
          /\ pc'[r] = "return"
      BY <2>6 DEF GetHead, TypeOK
    <3>2. Whole(frame'[r]) /\ OwnText(frame'[r])
      BY <2>1, <2>2, <3>1, CopyHeadFacts DEF Whole, OwnText
    <3>3. Held(r)'
      BY <2>1, <3>1, <3>2
    <3> QED
      BY <1>1, <1>3, <3>3 DEF ReaderFramesOK
  <2>7. CASE GetReturn(r)
    <3>1. /\ pc[r] = "return"
          /\ frame'[r] = frame[r]
          /\ out'[r].frame = frame[r]
          /\ pc'[r] = "idle"
      BY <2>7 DEF GetReturn, TypeOK
    <3>2. Held(r)'
      BY <2>1, <3>1
    <3> QED
      BY <1>1, <1>3, <3>2 DEF ReaderFramesOK
  <2> QED
    BY <2>3, <2>4, <2>5, <2>6, <2>7 DEF Get
<1> QED
  BY <1>5, <1>6, <1>7

\* A writer that is alone keeps the copies intact at each of its steps.
LEMMA SetCopiesOK ==
  ASSUME TypeOK, CopiesOK, NEW w \in Writers, Alone(w), Set(w)
  PROVE  CopiesOK'
  BY SetCallCopiesOK, SetPixelsCopiesOK, SetHeadCopiesOK, SetPublishCopiesOK DEF Set

\* So does every step when there is one writer.
LEMMA NextCopiesOK ==
  ASSUME SingleWriter
  PROVE  TypeOK /\ CopiesOK /\ [Next]_vars => CopiesOK'
<1> SUFFICES ASSUME TypeOK, CopiesOK, [Next]_vars PROVE CopiesOK'
  OBVIOUS
<1>1. CASE UNCHANGED vars
  BY <1>1 DEF vars, CopiesOK, PcsOK, ReadersLocked, Getting, WritersOffFront, Setting,
              SourcesOK, SlotsOK, ReaderFramesOK
<1>2. ASSUME NEW w \in Writers, Set(w) PROVE CopiesOK'
  BY <1>2, SetCopiesOK, SingleIsAlone
<1>3. ASSUME NEW r \in Readers, Get(r) PROVE CopiesOK'
  BY <1>3, GetCopiesOK
<1> QED
  BY <1>1, <1>2, <1>3 DEF Next

\* The copies of a buffer with one writer are what they seem, at every step of
\* set_frame and get_frame (io-input.c:78-115).
THEOREM CopiesCorrect == ASSUME SingleWriter PROVE Spec => []CopiesOK
<1>1. TypeOK /\ CopiesOK /\ [Next]_vars => CopiesOK'
  BY NextCopiesOK
<1> QED
  BY <1>1, InitCopiesOK, TypeCorrect, PTL DEF Spec

\* With one writer get_frame never returns a torn frame, however many readers
\* there are: copying outside of the mutex is safe (io-input.c:82).
THEOREM NeverTorn == ASSUME SingleWriter PROVE Spec => []NoTornFrame
<1>1. CopiesOK => NoTornFrame
  BY DEF CopiesOK, ReaderFramesOK, NoTornFrame
<1> QED
  BY <1>1, CopiesCorrect, PTL

\* With one writer the json flag of a frame never announces the text that a
\* slot kept from an older frame (input-frame.c:219, 330).
THEOREM FlagTellsOwnText == ASSUME SingleWriter PROVE Spec => []FlagIsOwnText
<1>1. CopiesOK => FlagIsOwnText
  BY DEF CopiesOK, ReaderFramesOK, FlagIsOwnText, OwnText
<1> QED
  BY <1>1, CopiesCorrect, PTL

-----------------------------------------------------------------------------
\* With one writer whose frames all have an image type the double buffer is a
\* register.  Before the first call nothing is published.
LEMMA InitPublishedOK == Init => PublishedOK
  BY BlankFacts, ThreadsAssumption
  DEF Init, PublishedOK, Setting, Blank, Copyable

\* Again, a step of a writer only needs that no other writer is between two of its own.
LEMMA SetPublishedOK ==
  ASSUME AlwaysCopyable, TypeOK, CopiesOK, PublishedOK,
         NEW w \in Writers, Alone(w), Set(w)
  PROVE  PublishedOK'
<1> USE ThreadsAssumption
<1>1. /\ \A v \in Writers \ {w} : ~Setting(v)'
      /\ Setting(w) => tgt[w] = Back
  <2>1. \A v \in Writers \ {w} : pc'[v] = pc[v]
    BY DEF Set, SetCall, SetPixels, SetHead, SetPublish, TypeOK
  <2>2. \A v \in Writers \ {w} : ~Setting(v)'
    BY <2>1 DEF Alone, Setting
  <2> QED
    BY <2>2 DEF CopiesOK, WritersOffFront
<1>2. /\ front \in Slots /\ Back \in Slots /\ front # Back
      /\ slots[front] \in Frame /\ slots[Back] \in Frame
      /\ src[w].frame \in Frame /\ src[w].num \in Nat
      /\ number \in Nat /\ calls \in Nat
  BY MaxCallsAssumption DEF TypeOK
<1>3. CASE SetCall(w)
  <2>1. PICK kind \in Kinds, text \in Texts, num \in Nums :
          /\ src' = [src EXCEPT ![w] = [frame |-> NewFrame(calls + 1, kind, text), num |-> num]]
          /\ \/ /\ Copyable(NewFrame(calls + 1, kind, text))
                /\ slots' = [slots EXCEPT ![Back] = CopyBegin(@)]
                /\ pc' = [pc EXCEPT ![w] = "pixels"]
             \/ /\ ~Copyable(NewFrame(calls + 1, kind, text))
                /\ UNCHANGED slots
                /\ pc' = [pc EXCEPT ![w] = "publish"]
    BY <1>3, Zenon DEF SetCall
  <2>2. /\ NewFrame(calls + 1, kind, text).pix = calls + 1
        /\ Copyable(NewFrame(calls + 1, kind, text))
    BY NewFrameFacts, <1>2 DEF AlwaysCopyable, Copyable, NewFrame
  <2>3. /\ calls' = calls + 1
        /\ UNCHANGED <<front, number, frame, out>>
        /\ slots'[front] = slots[front]
        /\ pc'[w] = "pixels"
        /\ src'[w].frame = NewFrame(calls + 1, kind, text)
        /\ src'[w].num \in Nums
        /\ \A r \in Readers : pc'[r] = pc[r]
    BY <1>2, <1>3, <2>1, <2>2 DEF SetCall, TypeOK
  <2>4. slots[front].pix <= calls /\ slots[front].pix \in Nat
    BY <1>2 DEF PublishedOK, Frame
  <2>5. \A v \in Writers :
          /\ Setting(v)' => /\ Copyable(src'[v].frame)
                            /\ src'[v].frame.pix = calls'
                            /\ src'[v].num \in Nums
                            /\ slots'[front].pix < calls'
          /\ pc'[v] # "publish"
    <3>1. src'[w].frame.pix = calls' /\ Copyable(src'[w].frame)
      BY <2>2, <2>3
    <3>2. slots'[front].pix < calls'
      BY <1>2, <2>3, <2>4
    <3>3. \A v \in Writers \ {w} : pc'[v] # "publish"
      BY <1>1 DEF Setting
    <3> QED
      BY <1>1, <2>3, <3>1, <3>2, <3>3
  <2> QED
    BY <1>2, <2>3, <2>4, <2>5 DEF PublishedOK
<1>4. CASE SetPixels(w)
  <2>1. /\ UNCHANGED <<front, number, calls, src, frame, out>>
        /\ slots'[front] = slots[front]
        /\ pc[w] = "pixels"
        /\ pc'[w] = "head"
        /\ \A r \in Readers : pc'[r] = pc[r]
    BY <1>1, <1>2, <1>4 DEF SetPixels, Setting, TypeOK
  <2>2. \A v \in Writers \ {w} : pc'[v] # "publish"
    BY <1>1 DEF Setting
  <2>3. Setting(w)
    BY <2>1 DEF Setting
  <2>4. \A v \in Writers :
          /\ Setting(v)' => /\ Copyable(src'[v].frame)
                            /\ src'[v].frame.pix = calls'
                            /\ src'[v].num \in Nums
                            /\ slots'[front'].pix < calls'
          /\ pc'[v] # "publish"
    BY <1>1, <2>1, <2>2, <2>3 DEF PublishedOK
  <2> QED
    BY <2>1, <2>4 DEF PublishedOK
<1>5. CASE SetHead(w)
  <2>1. /\ UNCHANGED <<front, number, calls, src, frame, out>>
        /\ slots'[front] = slots[front]
        /\ slots'[Back] = CopyHead(slots[Back], src[w].frame)
        /\ pc[w] = "head"
        /\ pc'[w] = "publish"
        /\ \A r \in Readers : pc'[r] = pc[r]
    BY <1>1, <1>2, <1>5 DEF SetHead, Setting, TypeOK
  <2>2. /\ slots'[Back].pix = src[w].frame.pix
        /\ slots'[Back].kind = src[w].frame.kind
    BY <1>2, <2>1, CopyHeadFacts DEF CopiesOK, SlotsOK
  <2>3. \A v \in Writers \ {w} : pc'[v] # "publish"
    BY <1>1 DEF Setting
  <2>4. Setting(w)
    BY <2>1 DEF Setting
  <2>5. \A v \in Writers :
          /\ Setting(v)' => /\ Copyable(src'[v].frame)
                            /\ src'[v].frame.pix = calls'
                            /\ src'[v].num \in Nums
                            /\ slots'[front'].pix < calls'
          /\ pc'[v] = "publish" => /\ slots'[Back].pix = src'[v].frame.pix
                                   /\ slots'[Back].kind = src'[v].frame.kind
    BY <1>1, <2>1, <2>2, <2>3, <2>4 DEF PublishedOK
  <2> QED
    BY <2>1, <2>5 DEF PublishedOK
<1>6. CASE SetPublish(w)
  <2>1. /\ UNCHANGED <<slots, calls, src, frame, out>>
        /\ pc[w] = "publish"
        /\ pc'[w] = "idle"
        /\ front' = Back
        /\ number' = IF src[w].num > 0 THEN src[w].num ELSE number + 1
        /\ \A r \in Readers : pc'[r] = pc[r] /\ pc[r] # "return"
    BY <1>6 DEF SetPublish, TypeOK, CopiesOK, ReadersLocked, Getting
  <2>2. /\ slots[Back].pix = calls
        /\ Copyable(slots[Back])
        /\ slots[front].pix < calls
    BY <2>1 DEF PublishedOK, Setting, Copyable
  <2>3. number' > 0
    BY <1>2, <2>1
  <2>4. \A r \in Readers : out[r].frame.pix <= slots[Back].pix
    BY <1>2, <2>2 DEF PublishedOK, Frame, TypeOK
  <2>5. /\ number' > 0 <=> Copyable(slots'[front'])
        /\ slots'[front'].pix <= calls'
        /\ number' # 0
    BY <1>2, <2>1, <2>2, <2>3
  <2>6. \A v \in Writers : ~Setting(v)' /\ pc'[v] # "publish"
    BY <1>1, <2>1 DEF Setting
  <2>7. \A r \in Readers : /\ pc'[r] # "return"
                           /\ out'[r].frame.pix <= slots'[front'].pix
    BY <2>1, <2>4
  <2> QED
    BY <2>5, <2>6, <2>7 DEF PublishedOK, Setting
<1> QED
  BY <1>3, <1>4, <1>5, <1>6 DEF Set

\* A reader takes what is published and changes nothing.
LEMMA GetPublishedOK ==
  ASSUME TypeOK, CopiesOK, PublishedOK, NEW r \in Readers, Get(r)
  PROVE  PublishedOK'
<1> USE ThreadsAssumption
<1>1. /\ UNCHANGED <<slots, front, number, calls, src>>
      /\ \A w \in Writers : pc'[w] = pc[w]
      /\ \A q \in Readers : q # r => pc'[q] = pc[q] /\ frame'[q] = frame[q] /\ out'[q] = out[q]
  BY DEF Get, GetCall, GetLock, GetPixels, GetHead, GetReturn, TypeOK
<1>2. frame[r] \in Frame /\ slots[front] \in Frame /\ number \in Nat
  BY DEF TypeOK
<1>3. /\ number = 0 => frame'[r].pix = 0 /\ out'[r].frame.pix = 0 /\ out'[r].num = 0
      /\ pc'[r] = "return" => frame'[r].pix = slots[front].pix
      /\ out'[r].frame.pix <= slots[front].pix
  <2>1. CASE GetCall(r)
    BY <2>1 DEF GetCall, PublishedOK, Blank, TypeOK
  <2>2. CASE GetLock(r)
    <3>1. /\ out'[r] = out[r]
          /\ \/ frame'[r] = CopyBegin(frame[r]) /\ pc'[r] = "pixels"
             \/ ~Copyable(slots[front]) /\ frame'[r] = frame[r]
      BY <2>2 DEF GetLock, TypeOK
    <3>2. frame'[r].pix = frame[r].pix
      <4>1. CopyBegin(frame[r]).pix = frame[r].pix
        BY <1>2, CopyBeginFacts
      <4> QED
        BY <3>1, <4>1
    <3>3. ~Copyable(slots[front]) => number = 0
      BY <1>2 DEF PublishedOK
    <3> QED
      BY <3>1, <3>2, <3>3 DEF PublishedOK
  <2>3. CASE GetPixels(r)
    BY <1>2, <2>3, CopyPixelsFacts DEF GetPixels, PublishedOK, TypeOK
  <2>4. CASE GetHead(r)
    BY <1>2, <2>4, CopyHeadFacts DEF GetHead, PublishedOK, CopiesOK, ReaderFramesOK, TypeOK
  <2>5. CASE GetReturn(r)
    <3>1. /\ frame'[r] = frame[r]
          /\ out'[r].frame = frame[r]
          /\ out'[r].num = IF number > 0 THEN number ELSE out[r].num
          /\ pc[r] = "return" /\ pc'[r] = "idle"
      BY <2>5 DEF GetReturn, TypeOK
    <3> QED
      BY <1>2, <3>1 DEF PublishedOK, Frame
  <2> QED
    BY <2>1, <2>2, <2>3, <2>4, <2>5 DEF Get
<1> QED
  BY <1>1, <1>3 DEF PublishedOK, Setting

\* Every step of a buffer with one writer publishes the newest frame or nothing.
LEMMA NextPublishedOK ==
  ASSUME SingleWriter, AlwaysCopyable
  PROVE  TypeOK /\ CopiesOK /\ PublishedOK /\ [Next]_vars => PublishedOK'
<1> SUFFICES ASSUME TypeOK, CopiesOK, PublishedOK, [Next]_vars PROVE PublishedOK'
  OBVIOUS
<1>1. CASE UNCHANGED vars
  BY <1>1 DEF vars, PublishedOK, Setting
<1> QED
  BY <1>1, SetPublishedOK, SingleIsAlone, GetPublishedOK DEF Next

\* What is published is the last frame set, and what a reader is about to
\* return is what is published (io-input.c:92-113).
THEOREM PublishedCorrect ==
  ASSUME SingleWriter, AlwaysCopyable
  PROVE  Spec => []PublishedOK
<1>1. TypeOK /\ CopiesOK /\ PublishedOK /\ [Next]_vars => PublishedOK'
  BY NextPublishedOK
<1> QED
  BY <1>1, InitPublishedOK, TypeCorrect, CopiesCorrect, PTL DEF Spec

\* What get_frame returns is published now, whole, and with its number.
LEMMA ReturnIsLatest ==
  ASSUME TypeOK, CopiesOK, PublishedOK, NEW r \in Readers, GetReturn(r)
  PROVE  /\ Seen(out'[r]) = [id |-> slots[front].pix, num |-> number]
         /\ out'[r].frame.pix = slots[front].pix
         /\ \A q \in Readers : q # r => out'[q] = out[q]
<1>1. /\ out'[r].frame = frame[r]
      /\ out'[r].num = IF number > 0 THEN number ELSE out[r].num
      /\ \A q \in Readers : q # r => out'[q] = out[q]
      /\ pc[r] = "return"
  BY DEF GetReturn, TypeOK
<1>2. frame[r].pix = slots[front].pix /\ Whole(frame[r])
  BY <1>1 DEF PublishedOK, CopiesOK, ReaderFramesOK
<1>3. out'[r].num = number
  BY <1>1 DEF PublishedOK, TypeOK
<1> QED
  BY <1>1, <1>2, <1>3 DEF Seen

\* A reader is never given an older picture than the one it had: of the two
\* slots the swap always publishes the newer (io-input.c:94-96).
THEOREM NeverGoesBack ==
  ASSUME SingleWriter, AlwaysCopyable
  PROVE  Spec => NeverOlder
<1>1. TypeOK /\ CopiesOK /\ PublishedOK /\ [Next]_vars
        => [\A r \in Readers : out'[r].frame.pix >= out[r].frame.pix]_out
  <2> SUFFICES ASSUME TypeOK, CopiesOK, PublishedOK, [Next]_vars, out' # out
               PROVE  \A r \in Readers : out'[r].frame.pix >= out[r].frame.pix
    OBVIOUS
  <2>1. PICK r \in Readers : GetReturn(r)
    BY DEF Next, vars, Set, Get, SetCall, SetPixels, SetHead, SetPublish,
           GetCall, GetLock, GetPixels, GetHead
  <2>2. /\ out'[r].frame.pix = slots[front].pix
        /\ \A q \in Readers : q # r => out'[q] = out[q]
    BY <2>1, ReturnIsLatest
  <2>3. \A q \in Readers : /\ out[q].frame.pix <= slots[front].pix
                           /\ out[q].frame.pix \in Nat
    BY DEF PublishedOK, TypeOK, Frame
  <2>4. slots[front].pix \in Nat
    BY DEF TypeOK, Frame
  <2> QED
    BY <2>2, <2>3, <2>4
<1> QED
  BY <1>1, TypeCorrect, CopiesCorrect, PublishedCorrect, PTL DEF NeverOlder, Spec

\* An empty buffer is an empty register.
LEMMA InitIsLatest == Init => Latest!Init
<1> SUFFICES ASSUME Init PROVE Latest!Init
  OBVIOUS
<1> QED
  BY BlankFacts DEF Init, Latest!Init, Latest!NoFrame, Seen, Whole, Blank

\* The swap of set_frame is the register's write, the end of get_frame its read,
\* and every other step is invisible (io-input.c:78-115).
LEMMA NextIsLatest ==
  TypeOK /\ CopiesOK /\ PublishedOK /\ [Next]_vars => [Latest!Next]_Latest!vars
<1> SUFFICES ASSUME TypeOK, CopiesOK, PublishedOK, [Next]_vars
             PROVE  [Latest!Next]_Latest!vars
  OBVIOUS
<1>1. front \in Slots /\ Back \in Slots /\ front # Back /\ number \in Nat
  BY DEF TypeOK
<1>2. ASSUME slots'[front'].pix = slots[front].pix, UNCHANGED <<number, out>>
      PROVE  UNCHANGED Latest!vars
  BY <1>2 DEF Latest!vars, Seen, Whole
<1>3. ASSUME NEW w \in Writers, SetCall(w) \/ SetPixels(w) \/ SetHead(w)
      PROVE  UNCHANGED Latest!vars
  <2>1. UNCHANGED <<front, number, out>>
    BY <1>3 DEF SetCall, SetPixels, SetHead
  <2>2. slots'[front] = slots[front]
    BY <1>1, <1>3 DEF SetCall, SetPixels, SetHead, CopiesOK, WritersOffFront, Setting, TypeOK
  <2> QED
    BY <1>2, <2>1, <2>2
<1>4. ASSUME NEW w \in Writers, SetPublish(w)
      PROVE  Latest!Write
  <2>1. /\ front' = Back
        /\ number' = IF src[w].num > 0 THEN src[w].num ELSE number + 1
        /\ UNCHANGED <<slots, calls, out>>
        /\ pc[w] = "publish"
    BY <1>4 DEF SetPublish
  <2>2. slots[Back].pix = calls /\ calls \in Ids
    BY <2>1, MaxCallsAssumption DEF PublishedOK, Setting, TypeOK, Frame
  <2>3. \E num \in Nums : number' = IF num > 0 THEN num ELSE number + 1
    BY <2>1 DEF PublishedOK, Setting
  <2>4. [r \in Readers |-> Seen(out[r])]' = [r \in Readers |-> Seen(out[r])]
    BY <2>1 DEF Seen, Whole
  <2> QED
    BY <2>1, <2>2, <2>3, <2>4 DEF Latest!Write
<1>5. ASSUME NEW r \in Readers, GetCall(r) \/ GetLock(r) \/ GetPixels(r) \/ GetHead(r)
      PROVE  UNCHANGED Latest!vars
  BY <1>2, <1>5 DEF GetCall, GetLock, GetPixels, GetHead
<1>6. ASSUME NEW r \in Readers, GetReturn(r)
      PROVE  Latest!Read(r)
  <2>1. UNCHANGED <<slots, front, number>>
    BY <1>6 DEF GetReturn
  <2>2. /\ Seen(out'[r]) = [id |-> slots[front].pix, num |-> number]
        /\ \A q \in Readers : q # r => out'[q] = out[q]
    BY <1>6, ReturnIsLatest
  <2>3. [q \in Readers |-> Seen(out[q])]' =
          [[q \in Readers |-> Seen(out[q])] EXCEPT ![r] = [id |-> slots[front].pix, num |-> number]]
    BY <2>2 DEF Seen, Whole
  <2> QED
    BY <2>1, <2>3 DEF Latest!Read
<1>7. CASE UNCHANGED vars
  BY <1>2, <1>7 DEF vars
<1> QED
  BY <1>3, <1>4, <1>5, <1>6, <1>7 DEF Next, Set, Get, Latest!Next

\* The buffer implements the register: the swap of set_frame is the register's
\* write, the end of get_frame its read, and every other step is invisible
\* (io-input.c:78-115 against what README.md says of get_frame).
THEOREM Refinement ==
  ASSUME SingleWriter, AlwaysCopyable
  PROVE  Spec => ImplementsLatestFrame
BY InitIsLatest, NextIsLatest, TypeCorrect, CopiesCorrect, PublishedCorrect, PTL
  DEF Spec, ImplementsLatestFrame, Latest!Spec

-----------------------------------------------------------------------------
\* Calls are counted in the order they are made.
LEMMA NextNumberingOK ==
  ASSUME SingleWriter, NeverNumbered
  PROVE  TypeOK /\ CopiesOK /\ PublishedOK /\ NumberingOK /\ [Next]_vars => NumberingOK'
<1> USE ThreadsAssumption
<1> SUFFICES ASSUME TypeOK, CopiesOK, PublishedOK, NumberingOK, [Next]_vars
             PROVE  NumberingOK'
  OBVIOUS
<1>1. front \in Slots /\ Back \in Slots /\ front # Back /\ number \in Nat /\ calls \in Nat
  BY MaxCallsAssumption DEF TypeOK
<1>2. ASSUME NEW w \in Writers, SetCall(w)
      PROVE  NumberingOK'
  <2>1. \A v \in Writers : v = w
    BY DEF SingleWriter
  <2>2. /\ UNCHANGED <<front, number, out>>
        /\ slots'[front] = slots[front]
        /\ calls' = calls + 1
        /\ pc[w] = "idle" /\ pc'[w] \in {"pixels", "publish"}
        /\ src'[w].num = 0
    BY <1>1, <1>2 DEF SetCall, NeverNumbered, TypeOK
  <2> QED
    BY <1>1, <2>1, <2>2 DEF NumberingOK, NumberCountsFrames, Setting
<1>3. ASSUME NEW w \in Writers, SetPixels(w) \/ SetHead(w)
      PROVE  NumberingOK'
  <2>1. \A v \in Writers : v = w
    BY DEF SingleWriter
  <2>2. /\ UNCHANGED <<front, number, out, calls, src>>
        /\ slots'[front] = slots[front]
        /\ Setting(w) /\ Setting(w)'
    BY <1>1, <1>3 DEF SetPixels, SetHead, CopiesOK, WritersOffFront, Setting, TypeOK
  <2> QED
    BY <2>1, <2>2 DEF NumberingOK, NumberCountsFrames
<1>4. ASSUME NEW w \in Writers, SetPublish(w)
      PROVE  NumberingOK'
  <2>1. \A v \in Writers : v = w
    BY DEF SingleWriter
  <2>2. /\ UNCHANGED <<slots, out, calls, src>>
        /\ pc[w] = "publish" /\ pc'[w] = "idle"
        /\ front' = Back
        /\ number' = number + 1
    BY <1>1, <1>4 DEF SetPublish, NumberingOK, TypeOK
  <2>3. calls = number + 1 /\ slots[Back].pix = calls
    BY <2>2 DEF NumberingOK, PublishedOK, Setting
  <2> QED
    BY <2>1, <2>2, <2>3 DEF NumberingOK, NumberCountsFrames, Setting
<1>5. ASSUME NEW r \in Readers, Get(r)
      PROVE  NumberingOK'
  <2>1. /\ UNCHANGED <<slots, front, number, calls, src>>
        /\ \A w \in Writers : pc'[w] = pc[w]
    BY <1>5 DEF Get, GetCall, GetLock, GetPixels, GetHead, GetReturn, TypeOK
  <2>2. CASE GetReturn(r)
    <3>1. /\ Seen(out'[r]) = [id |-> slots[front].pix, num |-> number]
          /\ out'[r].frame.pix = slots[front].pix
          /\ \A q \in Readers : q # r => out'[q] = out[q]
      BY <2>2, ReturnIsLatest
    <3>2. out'[r].num = number
      BY <3>1 DEF Seen
    <3> QED
      BY <2>1, <3>1, <3>2 DEF NumberingOK, NumberCountsFrames, Setting
  <2>3. CASE UNCHANGED out
    BY <2>1, <2>3 DEF NumberingOK, NumberCountsFrames, Setting
  <2> QED
    BY <1>5, <2>2, <2>3 DEF Get, GetCall, GetLock, GetPixels, GetHead
<1>6. CASE UNCHANGED vars
  BY <1>6 DEF vars, NumberingOK, NumberCountsFrames, Setting
<1> QED
  BY <1>2, <1>3, <1>4, <1>5, <1>6 DEF Next, Set

\* A reader that holds number n of an unnumbered stream holds its n-th frame:
\* comparing numbers is enough to skip a frame one has seen (io-input.c:107-114).
THEOREM NumbersCount ==
  ASSUME SingleWriter, AlwaysCopyable, NeverNumbered
  PROVE  Spec => []NumberCountsFrames
<1> USE ThreadsAssumption
<1>1. Init => NumberingOK
  BY DEF Init, NumberingOK, NumberCountsFrames, Blank, Setting
<1>2. TypeOK /\ CopiesOK /\ PublishedOK /\ NumberingOK /\ [Next]_vars => NumberingOK'
  BY NextNumberingOK
<1>3. NumberingOK => NumberCountsFrames
  BY DEF NumberingOK
<1> QED
  BY <1>1, <1>2, <1>3, TypeCorrect, CopiesCorrect, PublishedCorrect, PTL DEF Spec
=============================================================================
