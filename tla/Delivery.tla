------------------------------ MODULE Delivery ------------------------------
(***************************************************************************)
(* The whole of deliver.c and server.c: FileTransfer, Fragmentation,       *)
(* PacketCodec and RttEstimator composed.  After the answer to "ftp" the   *)
(* client fragments the file; then it sends the fragments, and adjusts its *)
(* timer at the end of every turn of its loop.  A timer of 0 never fires.  *)
(* Only a file of NumFrag fragments is sent; others stop after their       *)
(* fragmentation.                                                          *)
(***************************************************************************)
EXTENDS FileTransfer, Fragmentation, RttEstimator, PacketCodec

CONSTANTS
  FileNames,      \* names a user may give, as texts
  FileBytes       \* what a fragment may hold, as texts

\* A name has a character that is not a colon, and no text has what ends it.  The
\* numbers of a fragment can be written.
ASSUME TextsAssumption ==
  /\ \A filename \in FileNames :
       /\ filename \in Seq(STRING) /\ Nul \notin ToSet(filename)
       /\ ~(ToSet(filename) \subseteq {Colon})
  /\ \A filedata \in FileBytes : filedata \in Seq(STRING) /\ Len(filedata) \in Numbers
  /\ \A bytes \in FileSizes : 1 .. bytes \div BYTE_LIMIT + 1 \subseteq Numbers

deliveryVars == <<vars, fragVars, timerVars>>

DeliveryInit == Init /\ InitFragments /\ InitTimer

\* fragment_this(), between the handshake and the first fragment.
Cut ==
  /\ cpc = "send"
  /\ MakeFragment
  /\ UNCHANGED <<vars, timerVars>>

\* The fragments are there, as many as are to be sent.
ReadyToSend == Finished /\ made = NumFrag

\* A turn of the loop ends with an acknowledgement or with a timeout; giving up
\* leaves the program before the timer is adjusted.
TurnEnds == (sendCount' > sendCount \/ packNo' # packNo) /\ cpc' # "failed"

\* A step of the transfer, with the fragments made and the timer kept.
WithTimer(step) ==
  /\ step
  /\ cpc = "send" /\ cpc' # "send" => ReadyToSend
  /\ sendCount' > sendCount => tv_usec > 0
  /\ IF TurnEnds THEN AdjustTimer ELSE UNCHANGED timerVars
  /\ UNCHANGED fragVars

Transmit == WithTimer(ClientStep)
Serve    == WithTimer(ServerStep)
Disturb  == WithTimer(Lose \/ Duplicate)

DeliveryNext == Cut \/ Transmit \/ Serve \/ Disturb

\* Both programs keep running.
DeliverySpec ==
  /\ DeliveryInit /\ [][DeliveryNext]_deliveryVars
  /\ WF_deliveryVars(Cut \/ Transmit)
  /\ WF_deliveryVars(Serve)

-----------------------------------------------------------------------------

\* A fragment of any name and contents is parsed by the server as the client has
\* formatted it, but that a name is cut at its colon and the data then begins too
\* early (packet.h:59-115).
FragmentIsKept ==
  cpc = "send" /\ made \in 1 .. NumFrags =>
    \A filename \in FileNames, filedata \in FileBytes :
      LET p == [total_frag |-> NumFrags, frag_no |-> made, size |-> Len(filedata),
                filename |-> filename, filedata |-> filedata]
          parsed == formatString(formatPacket(p))
      IN  /\ parsed.total_frag = NumFrags /\ parsed.frag_no = made
          /\ parsed.size = Len(filedata)
          /\ Colon \notin ToSet(filename) =>
               parsed.filename = filename /\ parsed.filedata = filedata

\* What the server writes for fragment k, and for the first n of those in its file.
SizeOf(k) == IF k # NumFrags THEN BYTE_LIMIT ELSE LastSize

BytesOf[n \in 0 .. Len(written)] ==
  IF n = 0 THEN 0 ELSE BytesOf[n - 1] + SizeOf(written[n])

\* "transmission done!" means that the server's file has the bytes of all the
\* fragments made, and so every byte of the client's file (deliver.c:228,
\* server.c:119, packet.h:146-157), unless an answer was duplicated.
DoneMeansCopied ==
  cpc = "done" /\ dup["toClient"] = 0 =>
    BytesOf[Len(written)] = copied /\ copied >= fileSize

\* Once asked for, and with an answer on its way that nobody loses, the transfer
\* starts: the client waits for it without a timer (deliver.c:101, server.c:68-95).
HandshakeEnds ==
  cpc = "handshake" ~> (cpc # "handshake" \/ lost # [d \in Direction |-> 0])

\* A file of the right length is delivered in the end if nothing is lost on the
\* way back: what is lost on the way there the timer repairs, and it is never
\* switched off (deliver.c:174-217).  This is so for a timer that runs out only when
\* nothing is on its way any more (Prompt): one in CPU time, as that of deliver.c:212,
\* does not guarantee it, and for any other the retries may run out before an answer
\* arrives.
DataLossRepaired ==
  (cpc = "send" /\ NumFrags = NumFrag) ~> (cpc = "done" \/ lost["toClient"] > 0)

=============================================================================
