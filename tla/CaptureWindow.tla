--------------------------- MODULE CaptureWindow ---------------------------
(***************************************************************************)
(* What an IEC capture promises its client: the records completed since it *)
(* was started, each once and in the order of the recorder.                *)
(***************************************************************************)
EXTENDS Sequences, Naturals

CONSTANT Record

VARIABLES
  available,  \* the records of the window, in order
  given       \* those handed to the client

Init == available = <<>> /\ given = <<>>

\* A new window.
Open == available' = <<>> /\ given' = <<>>

\* The recorder completes a record.
Complete ==
  /\ \E r \in Record : available' = Append(available, r)
  /\ UNCHANGED given

\* The client gets the next records.
Give ==
  /\ \E n \in Len(given) .. Len(available) : given' = SubSeq(available, 1, n)
  /\ UNCHANGED available

Next == Open \/ Complete \/ Give

Spec == Init /\ [][Next]_<<available, given>>
=============================================================================
