------------------------- MODULE FileTransferProofs -------------------------
(***************************************************************************)
(* Proofs about FileTransfer, for every number of fragments, attempt limit *)
(* and bound on losses and duplications.  SafeTransfer is the inductive    *)
(* invariant: AcksAccounted alone is not inductive, because an ACK that is *)
(* read must find packNo below NumFrag (ClientProgress), and the client's  *)
(* report only means a complete file together with where the server stands *)
(* in its own file (ServerProgress, InOrder).                              *)
(***************************************************************************)
EXTENDS FileTransfer, SequenceTheorems, TLAPS

\* Taking and putting copies of a datagram for the server keeps the counts.
LEMMA RequestCounts ==
  ASSUME TypeOK, NEW k \in {Request} \cup Fragment
  PROVE  /\ Put(toServer, k) \in [{Request} \cup Fragment -> Nat]
         /\ toServer[k] > 0 => Take(toServer, k) \in [{Request} \cup Fragment -> Nat]
  BY DEF Put, Take, TypeOK

\* The same of the answers, with the number of ACKs in flight.
LEMMA AnswerCounts ==
  ASSUME TypeOK, NEW a \in Answer
  PROVE  /\ toClient["ACK"] \in Nat
         /\ Put(toClient, a) \in [Answer -> Nat]
         /\ Put(toClient, a)["ACK"] = IF a = "ACK" THEN toClient["ACK"] + 1
                                      ELSE toClient["ACK"]
         /\ toClient[a] > 0 => Take(toClient, a) \in [Answer -> Nat]
         /\ Take(toClient, a)["ACK"] = IF a = "ACK" THEN toClient["ACK"] - 1
                                       ELSE toClient["ACK"]
<1>1. toClient \in [Answer -> Nat] /\ "ACK" \in Answer
  BY DEF TypeOK, Answer
<1>. QED  BY <1>1 DEF Put, Take

\* Appending the next number to the numbers from 1 gives the numbers from 1.
LEMMA AppendInOrder ==
  ASSUME NEW n \in Nat \ {0}, NEW s \in Seq(1 .. n), NEW k \in 1 .. n,
         Len(s) = k - 1, s = [i \in 1 .. Len(s) |-> i]
  PROVE  /\ Append(s, k) \in Seq(1 .. n)
         /\ Len(Append(s, k)) = k
         /\ Append(s, k) = [i \in 1 .. k |-> i]
<1>1. Append(s, k) \in Seq(1 .. n) /\ Len(Append(s, k)) = k
  OBVIOUS
<1>2. Append(s, k) \in [1 .. k -> 1 .. n]
  BY <1>1, LenProperties
<1>3. \A i \in 1 .. k : Append(s, k)[i] = i
  OBVIOUS
<1>. QED  BY <1>1, <1>2, <1>3

\* What the server writes when it accepts the fragment it waits for
\* (server.c:115-122): its file grows by that fragment, and is emptied first
\* only when it was empty.
LEMMA WriteInOrder ==
  ASSUME TypeOK, InOrder, ServerProgress, spc = "recv",
         NEW k \in Fragment, k = currPacket
  PROVE  /\ Write(k) = Append(written, k)
         /\ Write(k) \in Seq(Fragment)
         /\ Len(Write(k)) = k
         /\ Write(k) = [i \in 1 .. k |-> i]
<1>1. /\ NumFrag \in Nat \ {0} /\ k \in 1 .. NumFrag /\ written \in Seq(1 .. NumFrag)
      /\ Len(written) = k - 1
  BY ConstantsAssumption DEF TypeOK, ServerProgress, Listening, Fragment
<1>2. written = [i \in 1 .. Len(written) |-> i]
  BY DEF InOrder
<1>3. k = 1 => written = << >>
  BY <1>1
<1>4. Write(k) = Append(written, k)
  BY <1>3 DEF Write
<1>. QED  BY <1>1, <1>2, <1>4, AppendInOrder DEF Fragment

\* At the start nothing is under way and nothing is written.
LEMMA InitSafe == Init => SafeTransfer
<1>. SUFFICES ASSUME Init PROVE SafeTransfer
  OBVIOUS
<1>. USE ConstantsAssumption
<1>1. TypeOK
  <2>1. written \in Seq(Fragment)
    BY EmptySeq DEF Init
  <2>2. toServer \in [{Request} \cup Fragment -> Nat] /\ toClient \in [Answer -> Nat]
    BY DEF Init
  <2>3. lost \in [Direction -> 0 .. MaxLoss] /\ dup \in [Direction -> 0 .. MaxDup]
    BY DEF Init
  <2>4. /\ packNo \in 0 .. NumFrag /\ sendCount \in 0 .. AttemptLimit + 1
        /\ currPacket \in Fragment
    BY DEF Init, Fragment
  <2>. QED  BY <2>1, <2>2, <2>3, <2>4 DEF Init, TypeOK
<1>2. AcksAccounted
  BY DEF Init, AcksAccounted, Acked, Answer, Direction
<1>3. InOrder
  BY DEF Init, InOrder
<1>4. ServerProgress /\ ClientProgress
  BY DEF Init, ServerProgress, ClientProgress, Listening
<1>. QED  BY <1>1, <1>2, <1>3, <1>4 DEF SafeTransfer

\* The client moves on by one fragment for each ACK it takes (deliver.c:159-228).
LEMMA ClientStepSafe ==
  ASSUME SafeTransfer, ClientStep PROVE SafeTransfer'
<1>. USE ConstantsAssumption DEF SafeTransfer
<1>1. CASE RequestTransfer
  <2>. USE <1>1 DEF RequestTransfer, ClientGoesTo
  <2>1. toServer' \in [{Request} \cup Fragment -> Nat]
    BY RequestCounts DEF TypeOK
  <2>2. TypeOK'
    BY <2>1 DEF TypeOK, server
  <2>3. AcksAccounted'
    BY DEF AcksAccounted, Acked, server
  <2>4. InOrder' /\ ServerProgress' /\ ClientProgress'
    BY DEF InOrder, ServerProgress, ClientProgress, Listening, server
  <2>. QED  BY <2>2, <2>3, <2>4
<1>2. CASE SendFragment
  <2>. USE <1>2 DEF SendFragment, ClientGoesTo
  <2>1. packNo + 1 \in Fragment
    BY DEF TypeOK, ClientProgress, Fragment
  <2>2. toServer' \in [{Request} \cup Fragment -> Nat]
    BY <2>1, RequestCounts DEF TypeOK
  <2>3. TypeOK'
    BY <2>2 DEF TypeOK, server
  <2>4. AcksAccounted'
    BY DEF AcksAccounted, Acked, server
  <2>5. InOrder' /\ ServerProgress' /\ ClientProgress'
    BY DEF InOrder, ServerProgress, ClientProgress, Listening, server
  <2>. QED  BY <2>3, <2>4, <2>5
<1>3. CASE RecvTimeout
  <2>. USE <1>3 DEF RecvTimeout, ClientGoesTo
  <2>1. sendCount \in Nat /\ sendCount <= AttemptLimit
    BY DEF TypeOK, ClientProgress
  <2>2. TypeOK'
    BY <2>1 DEF TypeOK, server, network
  <2>3. AcksAccounted'
    BY DEF AcksAccounted, Acked, server, network
  <2>4. InOrder' /\ ServerProgress' /\ ClientProgress'
    BY DEF InOrder, ServerProgress, ClientProgress, Listening, server
  <2>. QED  BY <2>2, <2>3, <2>4
<1>4. ASSUME NEW a \in Answer, RecvReply(a) PROVE SafeTransfer'
  <2>. USE <1>4 DEF RecvReply, ClientGoesTo
  <2>1. toClient' \in [Answer -> Nat] /\ toClient'["ACK"] <= toClient["ACK"]
    BY AnswerCounts
  <2>2. TypeOK'
    BY <2>1 DEF TypeOK, server
  <2>3. AcksAccounted'
    <3>1. /\ toClient["ACK"] \in Nat /\ toClient'["ACK"] \in Nat /\ packNo \in Nat
          /\ Acked \in Nat /\ dup["toClient"] \in Nat
      BY <2>1 DEF TypeOK, Acked, Answer, Fragment, Direction
    <3>2. Acked' = Acked
      BY DEF Acked, server
    <3>. QED  BY <2>1, <3>1, <3>2 DEF AcksAccounted
  <2>4. InOrder' /\ ServerProgress' /\ ClientProgress'
    BY DEF InOrder, ServerProgress, ClientProgress, Listening, server
  <2>. QED  BY <2>2, <2>3, <2>4
<1>5. ASSUME NEW a \in Answer, RecvAck(a) PROVE SafeTransfer'
  <2>. USE <1>5 DEF RecvAck, ClientGoesTo, ReadsAsAck
  <2>1. /\ toClient' \in [Answer -> Nat] /\ toClient'["ACK"] = toClient["ACK"] - 1
        /\ a = "ACK"
    BY AnswerCounts
  <2>2. packNo \in Nat /\ packNo < NumFrag
    BY DEF TypeOK, ClientProgress
  <2>3. TypeOK'
    BY <2>1, <2>2 DEF TypeOK, server
  <2>4. AcksAccounted'
    <3>1. /\ toClient["ACK"] \in Nat
          /\ Acked \in Nat /\ dup["toClient"] \in Nat
      BY DEF TypeOK, Acked, Answer, Fragment, Direction
    <3>2. Acked' = Acked
      BY DEF Acked, server
    <3>. QED  BY <2>1, <2>2, <3>1, <3>2 DEF AcksAccounted
  <2>5. InOrder' /\ ServerProgress'
    BY DEF InOrder, ServerProgress, Listening, server
  <2>6. ClientProgress'
    <3>1. packNo' = packNo + 1 /\ sendCount' = 0
      OBVIOUS
    <3>2. packNo + 1 < NumFrag \/ packNo + 1 = NumFrag
      BY <2>2
    <3>3. cpc' \in {"send", "done", "failed"} /\ (cpc' = "send" => packNo + 1 # NumFrag)
          /\ (cpc' = "done" => packNo + 1 = NumFrag)
      OBVIOUS
    <3>. QED  BY <3>1, <3>2, <3>3 DEF ClientProgress
  <2>. QED  BY <2>3, <2>4, <2>5, <2>6
<1>6. ASSUME NEW a \in Answer, RecvIgnored(a) PROVE SafeTransfer'
  <2>. USE <1>6 DEF RecvIgnored
  <2>1. toClient' \in [Answer -> Nat] /\ toClient'["ACK"] <= toClient["ACK"]
    BY AnswerCounts
  <2>2. TypeOK'
    BY <2>1 DEF TypeOK, server
  <2>3. AcksAccounted'
    <3>1. /\ toClient["ACK"] \in Nat /\ toClient'["ACK"] \in Nat /\ packNo \in Nat
          /\ Acked \in Nat /\ dup["toClient"] \in Nat
      BY <2>1 DEF TypeOK, Acked, Answer, Fragment, Direction
    <3>2. Acked' = Acked
      BY DEF Acked, server
    <3>. QED  BY <2>1, <3>1, <3>2 DEF AcksAccounted
  <2>4. InOrder' /\ ServerProgress' /\ ClientProgress'
    BY DEF InOrder, ServerProgress, ClientProgress, Listening, server
  <2>. QED  BY <2>2, <2>3, <2>4
<1>. QED
  BY <1>1, <1>2, <1>3, <1>4, <1>5, <1>6 DEF ClientStep

\* The server's counters never move except by one accepted fragment.
LEMMA ServerStepSafe ==
  ASSUME SafeTransfer, ServerStep PROVE SafeTransfer'
<1>. USE ConstantsAssumption DEF SafeTransfer
<1>0. /\ toClient["ACK"] \in Nat /\ packNo \in Nat /\ currPacket \in Nat
      /\ dup["toClient"] \in Nat
  BY DEF TypeOK, Answer, Fragment, Direction
<1>1. CASE ParseStrayRequest
  <2>. USE <1>1 DEF ParseStrayRequest
  <2>1. toServer' \in [{Request} \cup Fragment -> Nat]
    BY RequestCounts
  <2>2. TypeOK'
    BY <2>1 DEF TypeOK, client
  <2>3. AcksAccounted'
    BY <1>0 DEF AcksAccounted, Acked, client
  <2>4. InOrder' /\ ServerProgress' /\ ClientProgress'
    BY DEF InOrder, ServerProgress, ClientProgress, Listening, client
  <2>. QED  BY <2>2, <2>3, <2>4
<1>2. ASSUME NEW k \in {Request} \cup Fragment, AnswerRequest(k) PROVE SafeTransfer'
  <2>. USE <1>2 DEF AnswerRequest, ServerAnswers
  <2>1. toServer' \in [{Request} \cup Fragment -> Nat]
    BY RequestCounts
  <2>2. toClient' \in [Answer -> Nat] /\ toClient'["ACK"] = toClient["ACK"]
    <3>1. toClient' = toClient \/ \E b \in {"yes", "no"} : toClient' = Put(toClient, b)
      BY DEF Answer
    <3>2. \A b \in {"yes", "no"} : /\ Put(toClient, b) \in [Answer -> Nat]
                        /\ Put(toClient, b)["ACK"] = toClient["ACK"]
      BY AnswerCounts DEF Answer
    <3>. QED  BY <3>1, <3>2 DEF TypeOK
  <2>3. TypeOK'
    BY <2>1, <2>2 DEF TypeOK, client
  <2>4. AcksAccounted'
    BY <2>2 DEF AcksAccounted, Acked, client
  <2>5. InOrder' /\ ServerProgress' /\ ClientProgress'
    BY DEF InOrder, ServerProgress, ClientProgress, Listening, client
  <2>. QED  BY <2>3, <2>4, <2>5
<1>3. ASSUME NEW k \in {Request} \cup Fragment, RefuseFragment(k) PROVE SafeTransfer'
  <2>. USE <1>3 DEF RefuseFragment, ServerAnswers
  <2>1. toServer' \in [{Request} \cup Fragment -> Nat]
    BY RequestCounts
  <2>2. toClient' \in [Answer -> Nat] /\ toClient'["ACK"] = toClient["ACK"]
    <3>1. toClient' = toClient \/ \E b \in {"NACK"} : toClient' = Put(toClient, b)
      BY DEF Answer
    <3>2. \A b \in {"NACK"} : /\ Put(toClient, b) \in [Answer -> Nat]
                        /\ Put(toClient, b)["ACK"] = toClient["ACK"]
      BY AnswerCounts DEF Answer
    <3>. QED  BY <3>1, <3>2 DEF TypeOK
  <2>3. TypeOK'
    BY <2>1, <2>2 DEF TypeOK, client
  <2>4. AcksAccounted'
    BY <2>2 DEF AcksAccounted, Acked, client
  <2>5. InOrder' /\ ServerProgress' /\ ClientProgress'
    BY DEF InOrder, ServerProgress, ClientProgress, Listening, client
  <2>. QED  BY <2>3, <2>4, <2>5
<1>4. ASSUME NEW k \in {Request} \cup Fragment, AcceptFragment(k) PROVE SafeTransfer'
  <2>. USE <1>4 DEF AcceptFragment
  <2>1. toServer' \in [{Request} \cup Fragment -> Nat]
    BY RequestCounts
  <2>2. k \in Fragment /\ k \in Nat /\ k <= NumFrag
    BY DEF TypeOK, Fragment
  <2>3. /\ Write(k) \in Seq(Fragment)
        /\ Len(Write(k)) = k
        /\ Write(k) = [i \in 1 .. k |-> i]
    BY <2>2, WriteInOrder
  <2>4. CASE spc' = "failed"
    <3>1. \/ /\ written' = Write(k)
             /\ UNCHANGED toClient
          \/ UNCHANGED <<written, toClient>>
      BY <2>4 DEF ServerAnswers
    <3>2. TypeOK'
      BY <2>1, <2>3, <2>4, <3>1 DEF TypeOK, client
    <3>3. AcksAccounted'
      BY <2>4, <3>1 DEF AcksAccounted, Acked, client
    <3>4. InOrder' /\ ServerProgress'
      BY <2>2, <2>3, <2>4, <3>1 DEF InOrder, ServerProgress, Listening, TypeOK
    <3>5. ClientProgress'
      BY DEF ClientProgress, client
    <3>. QED  BY <3>2, <3>3, <3>4, <3>5
  <2>5. CASE spc' # "failed"
    <3>1. /\ written' = Write(k)
          /\ toClient' = Put(toClient, "ACK")
          /\ spc' = IF k = NumFrag THEN "done" ELSE "recv"
      BY <2>5 DEF ServerAnswers
    <3>2. toClient' \in [Answer -> Nat] /\ toClient'["ACK"] = toClient["ACK"] + 1
      BY <3>1, AnswerCounts DEF Answer
    <3>3. currPacket' = IF k = NumFrag THEN k ELSE k + 1
      BY <3>1
    <3>4. TypeOK'
      <4>1. currPacket' \in Fragment
        BY <2>2, <3>3 DEF Fragment
      <4>. QED  BY <2>1, <2>3, <3>1, <3>2, <4>1 DEF TypeOK, client
    <3>5. AcksAccounted'
      <4>1. Acked = k - 1 /\ Acked' = k
        BY <2>2, <3>1, <3>3 DEF Acked
      <4>. QED  BY <1>0, <2>2, <3>2, <4>1 DEF AcksAccounted, client
    <3>6. InOrder' /\ ServerProgress'
      BY <2>2, <2>3, <3>1, <3>3 DEF InOrder, ServerProgress, Listening
    <3>7. ClientProgress'
      BY DEF ClientProgress, client
    <3>. QED  BY <3>4, <3>5, <3>6, <3>7
  <2>. QED  BY <2>4, <2>5
<1>. QED
  BY <1>1, <1>2, <1>3, <1>4 DEF ServerStep

\* Losing a datagram loosens the count; duplicating one is what dup counts.
LEMMA NetworkStepSafe ==
  ASSUME SafeTransfer, Lose \/ Duplicate PROVE SafeTransfer'
<1>. USE ConstantsAssumption DEF SafeTransfer
<1>0. /\ toClient["ACK"] \in Nat /\ packNo \in Nat /\ Acked \in Nat
      /\ dup["toClient"] \in Nat
  BY DEF TypeOK, Acked, Answer, Fragment, Direction
<1>1. UNCHANGED <<client, server>>
  BY DEF Lose, Duplicate
<1>2. Acked' = Acked
  BY <1>1 DEF Acked, server
<1>3. InOrder' /\ ServerProgress' /\ ClientProgress'
  BY <1>1 DEF InOrder, ServerProgress, ClientProgress, Listening, client, server
<1>4. TypeOK' /\ AcksAccounted'
  <2>1. ASSUME NEW k \in DOMAIN toServer, toServer[k] > 0,
               lost["toServer"] < MaxLoss, toServer' = Take(toServer, k),
               lost' = Put(lost, "toServer"), UNCHANGED <<toClient, dup>>
        PROVE  TypeOK' /\ AcksAccounted'
    <3>1. toServer' \in [{Request} \cup Fragment -> Nat]
      BY <2>1, RequestCounts DEF TypeOK
    <3>2. lost' \in [Direction -> 0 .. MaxLoss]
      BY <2>1 DEF TypeOK, Put, Direction
    <3>. QED  BY <1>1, <1>2, <2>1, <3>1, <3>2 DEF TypeOK, AcksAccounted, client, server
  <2>2. ASSUME NEW a \in Answer, toClient[a] > 0,
               lost["toClient"] < MaxLoss, toClient' = Take(toClient, a),
               lost' = Put(lost, "toClient"), UNCHANGED <<toServer, dup>>
        PROVE  TypeOK' /\ AcksAccounted'
    <3>1. toClient' \in [Answer -> Nat] /\ toClient'["ACK"] <= toClient["ACK"]
      BY <2>2, AnswerCounts
    <3>2. lost' \in [Direction -> 0 .. MaxLoss]
      BY <2>2 DEF TypeOK, Put, Direction
    <3>3. toClient'["ACK"] \in Nat
      BY <3>1 DEF Answer
    <3>4. TypeOK'
      BY <1>1, <2>2, <3>1, <3>2 DEF TypeOK, client, server
    <3>5. AcksAccounted'
      BY <1>0, <1>1, <1>2, <2>2, <3>1, <3>3 DEF AcksAccounted, client
    <3>. QED  BY <3>4, <3>5
  <2>3. ASSUME NEW k \in DOMAIN toServer, toServer[k] > 0,
               dup["toServer"] < MaxDup, toServer' = Put(toServer, k),
               dup' = Put(dup, "toServer"), UNCHANGED <<toClient, lost>>
        PROVE  TypeOK' /\ AcksAccounted'
    <3>1. toServer' \in [{Request} \cup Fragment -> Nat]
      BY <2>3, RequestCounts DEF TypeOK
    <3>2. dup' \in [Direction -> 0 .. MaxDup] /\ dup'["toClient"] = dup["toClient"]
      BY <2>3 DEF TypeOK, Put, Direction
    <3>. QED  BY <1>1, <1>2, <2>3, <3>1, <3>2 DEF TypeOK, AcksAccounted, client, server
  <2>4. ASSUME NEW a \in Answer, toClient[a] > 0,
               dup["toClient"] < MaxDup, toClient' = Put(toClient, a),
               dup' = Put(dup, "toClient"), UNCHANGED <<toServer, lost>>
        PROVE  TypeOK' /\ AcksAccounted'
    <3>1. toClient' \in [Answer -> Nat] /\ toClient'["ACK"] <= toClient["ACK"] + 1
      BY <2>4, AnswerCounts
    <3>2. /\ dup' \in [Direction -> 0 .. MaxDup]
          /\ dup'["toClient"] = dup["toClient"] + 1
      BY <2>4 DEF TypeOK, Put, Direction
    <3>3. toClient'["ACK"] \in Nat
      BY <3>1 DEF Answer
    <3>4. TypeOK'
      BY <1>1, <2>4, <3>1, <3>2 DEF TypeOK, client, server
    <3>5. AcksAccounted'
      BY <1>0, <1>1, <1>2, <3>1, <3>2, <3>3 DEF AcksAccounted, client
    <3>. QED  BY <3>4, <3>5
  <2>. QED  BY <2>1, <2>2, <2>3, <2>4 DEF Lose, Duplicate
<1>. QED  BY <1>3, <1>4

\* Every step of either program or of the network.
LEMMA NextSafe == SafeTransfer /\ [Next]_vars => SafeTransfer'
<1>1. ASSUME SafeTransfer, UNCHANGED vars PROVE SafeTransfer'
  BY <1>1 DEF SafeTransfer, TypeOK, AcksAccounted, Acked, InOrder, ServerProgress,
              ClientProgress, Listening, vars, client, server, network
<1>. QED  BY <1>1, ClientStepSafe, ServerStepSafe, NetworkStepSafe DEF Next

\* In every reachable state of every transfer the counters of the two programs
\* and the server's file fit together.
THEOREM TransferIsSafe == Spec => []SafeTransfer
  BY InitSafe, NextSafe, PTL DEF Spec

\* The variables keep their types: no index runs past the last fragment.
THEOREM TransferTypes == Spec => []TypeOK
<1>1. SafeTransfer => TypeOK
  BY DEF SafeTransfer
<1>. QED  BY <1>1, TransferIsSafe, PTL

\* The client never counts more fragments than were accepted or than answers
\* were duplicated.
THEOREM ClientNeverAhead == Spec => []AcksAccounted
<1>1. SafeTransfer => AcksAccounted
  BY DEF SafeTransfer
<1>. QED  BY <1>1, TransferIsSafe, PTL

\* With no duplicated answer, a client that has finished had every fragment
\* accepted, and the server has them all.
LEMMA DoneMeansComplete ==
  SafeTransfer /\ cpc = "done" /\ dup["toClient"] = 0
    => spc = "done" /\ Len(written) = NumFrag
<1>. SUFFICES ASSUME SafeTransfer, cpc = "done", dup["toClient"] = 0
     PROVE  spc = "done" /\ Len(written) = NumFrag
  OBVIOUS
<1>1. packNo = NumFrag /\ NumFrag \in Nat \ {0} /\ toClient["ACK"] \in Nat
  BY ConstantsAssumption DEF SafeTransfer, ClientProgress, TypeOK, Answer
<1>2. NumFrag <= Acked
  <2>1. NumFrag + toClient["ACK"] <= Acked + 0
    BY <1>1 DEF SafeTransfer, AcksAccounted
  <2>2. Acked \in Nat
    BY <1>1 DEF SafeTransfer, TypeOK, Acked, Fragment
  <2>. QED  BY <1>1, <2>1, <2>2
<1>3. spc = "done"
  BY <1>1, <1>2 DEF SafeTransfer, TypeOK, Acked, Fragment
<1>. QED  BY <1>3 DEF SafeTransfer, ServerProgress

\* A complete file in order is what "done" promises.
LEMMA SafeMeansDelivered == SafeTransfer => DoneMeansDelivered
  BY DoneMeansComplete DEF SafeTransfer, InOrder, Fragment, DoneMeansDelivered

\* "transmission done!" is the truth unless an answer was duplicated.
THEOREM TransferIsHonest == Spec => []DoneMeansDelivered
  BY TransferIsSafe, SafeMeansDelivered, PTL

-----------------------------------------------------------------------------
(* The transfer implements FileCopy when no answer is duplicated.          *)

\* Without duplication no answer has been duplicated.
LEMMA NoDuplicates ==
  ASSUME MaxDup = 0, SafeTransfer PROVE dup["toClient"] = 0
  BY DEF SafeTransfer, TypeOK, Direction

\* The empty file is the start of the copy.
LEMMA InitCopies == Init => FC!Init
  BY DEF Init, FC!Init

\* The client changes its verdict once, and to "done" only with the file there.
LEMMA ClientStepCopies ==
  ASSUME MaxDup = 0, SafeTransfer, SafeTransfer', ClientStep
  PROVE  [FC!Next]_FC!vars
<1>1. UNCHANGED written
  BY DEF ClientStep, RequestTransfer, SendFragment, RecvTimeout, RecvReply,
         RecvAck, RecvIgnored, server
<1>2. cpc \in {"start", "handshake", "send", "wait"}
  BY DEF ClientStep, RequestTransfer, SendFragment, RecvTimeout, RecvReply,
         RecvAck, RecvIgnored
<1>3. CASE cpc' = "done"
  <2>1. dup'["toClient"] = 0
    BY NoDuplicates DEF SafeTransfer, TypeOK, Direction
  <2>2. (SafeTransfer /\ cpc = "done" /\ dup["toClient"] = 0
          => spc = "done" /\ Len(written) = NumFrag)'
    BY DoneMeansComplete, PTL
  <2>3. Len(written') = NumFrag
    BY <1>3, <2>1, <2>2
  <2>. QED  BY <1>1, <1>2, <1>3, <2>3 DEF FC!Next, FC!ReportDone
<1>4. CASE cpc' = "failed"
  BY <1>1, <1>2, <1>4 DEF FC!Next, FC!ReportFailed
<1>5. CASE cpc' \notin {"done", "failed"}
  BY <1>1, <1>2, <1>5 DEF FC!vars
<1>. QED  BY <1>3, <1>4, <1>5

\* An accepted fragment is the next one of the copy; no other server step writes.
LEMMA ServerStepCopies ==
  ASSUME SafeTransfer, ServerStep
  PROVE  [FC!Next]_FC!vars
<1>1. UNCHANGED cpc
  BY DEF ServerStep, ParseStrayRequest, AnswerRequest, AcceptFragment,
         RefuseFragment, client
<1>2. ASSUME NEW k \in {Request} \cup Fragment, AcceptFragment(k)
      PROVE  [FC!Next]_FC!vars
  <2>1. k = currPacket /\ k \in Fragment /\ spc = "recv"
    BY <1>2 DEF AcceptFragment, SafeTransfer, TypeOK
  <2>2. Write(k) = Append(written, k)
    BY <2>1, WriteInOrder DEF SafeTransfer
  <2>3. k = Len(written) + 1 /\ Len(written) < NumFrag
    BY <2>1, ConstantsAssumption
    DEF SafeTransfer, ServerProgress, Listening, TypeOK, Fragment
  <2>4. written' = Append(written, Len(written) + 1) \/ UNCHANGED written
    BY <1>2, <2>2, <2>3 DEF AcceptFragment
  <2>. QED  BY <1>1, <2>3, <2>4 DEF FC!Next, FC!Extend, FC!vars
<1>3. CASE UNCHANGED written
  BY <1>1, <1>3 DEF FC!vars
<1>. QED
  BY <1>2, <1>3 DEF ServerStep, ParseStrayRequest, AnswerRequest, RefuseFragment

\* The transfer implements the abstract copy, for every file, attempt limit,
\* loss and failure, as long as the network duplicates nothing.
THEOREM TransferImplementsCopy ==
  ASSUME MaxDup = 0 PROVE Spec => ImplementsFileCopy
<1>1. SafeTransfer /\ SafeTransfer' /\ [Next]_vars => [FC!Next]_FC!vars
  <2>1. CASE Lose \/ Duplicate \/ UNCHANGED vars
    BY <2>1 DEF Lose, Duplicate, vars, client, server, FC!vars
  <2>. QED  BY <2>1, ClientStepCopies, ServerStepCopies DEF Next
<1>. QED
  BY <1>1, InitCopies, TransferIsSafe, PTL DEF Spec, ImplementsFileCopy, FC!Spec

=============================================================================
