------------------------------ MODULE FileCopy ------------------------------
(***************************************************************************)
(* What the file transfer of deliver.c, server.c and packet.h promises,    *)
(* without packets, acknowledgements or timers: the server's copy grows    *)
(* by one fragment at a time, in order, and the client reports "done" only *)
(* when every fragment is there.  Giving up is always allowed.             *)
(***************************************************************************)
EXTENDS Naturals, Sequences

CONSTANT NumFrag        \* number of fragments of the file

VARIABLES
  file,                 \* fragment numbers the server has written, in order
  verdict               \* what the client has reported: "none", "done", "failed"

vars == <<file, verdict>>

Init ==
  /\ file = <<>>
  /\ verdict = "none"

\* The next fragment, and no other, reaches the server's copy.
Extend ==
  /\ Len(file) < NumFrag
  /\ file' = Append(file, Len(file) + 1)
  /\ UNCHANGED verdict

\* The client prints "transmission done!".
ReportDone ==
  /\ verdict = "none"
  /\ Len(file) = NumFrag
  /\ verdict' = "done"
  /\ UNCHANGED file

\* The client exits with an error.
ReportFailed ==
  /\ verdict = "none"
  /\ verdict' = "failed"
  /\ UNCHANGED file

Next == Extend \/ ReportDone \/ ReportFailed

Spec == Init /\ [][Next]_vars
=============================================================================
