---------------------------- MODULE LatestFrame ----------------------------
(***************************************************************************)
(* What an io_input promises to the program around it, with none of the    *)
(* buffers: set_frame replaces the latest frame in one step and get_frame  *)
(* returns the whole latest frame together with its number.                *)
(* README.md of the repository: "input->get_frame() to retrieve the        *)
(* lastest frame".                                                         *)
(***************************************************************************)
EXTENDS Integers

CONSTANTS Readers,   \* threads that call get_frame
          Ids,       \* identities of the frames that are handed over
          Nums       \* explicit frame numbers; 0 stands for "not numbered"

VARIABLES latest,    \* identity of the latest frame, 0 before the first one
          number,    \* its frame number
          out        \* what the last get_frame of each reader returned

vars == <<latest, number, out>>

NoFrame == [id |-> 0, num |-> 0]

Init ==
  /\ latest = 0
  /\ number = 0
  /\ out = [r \in Readers |-> NoFrame]

\* input->set_frame(input, frame): an explicit number wins, otherwise the
\* buffer counts.
Write ==
  /\ latest' \in Ids
  /\ \E num \in Nums : number' = IF num > 0 THEN num ELSE number + 1
  /\ UNCHANGED out

\* input->get_frame(input, -1, frame)
Read(r) ==
  /\ out' = [out EXCEPT ![r] = [id |-> latest, num |-> number]]
  /\ UNCHANGED <<latest, number>>

Next == Write \/ \E r \in Readers : Read(r)

Spec == Init /\ [][Next]_vars
=============================================================================
