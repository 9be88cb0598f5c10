--------------------------- MODULE DeliveryProofs ---------------------------
(***************************************************************************)
(* Proofs about Delivery: a file of any size is cut without losing a byte; *)
(* the timer of deliver.c stays within its bounds, for any round trips;    *)
(* the composition does nothing that its components would not do, so that  *)
(* what is proved of each of them holds of the whole program; and what no  *)
(* component promises alone, that the server's file is as long as the      *)
(* fragments made from the client's, and that a fragment is read as it was *)
(* written, whatever its name and data.                                    *)
(***************************************************************************)
EXTENDS Delivery, FileTransferProofs, StrtokProofs

-----------------------------------------------------------------------------
(* The fragments of a file *)

\* The inductive invariant: until the last fragment is made every fragment is
\* full, so the file and the copy both stand at made * 1000.
Halfway ==
  /\ made < NumFrags => offset = made * BYTE_LIMIT /\ copied = offset
  /\ data <= size

Inv == FragmentsTyped /\ Halfway /\ NoByteLost /\ CopySize

\* The size field of the last fragment, and what is left to read for it.
LEMMA LastFragment ==
  ASSUME NEW n \in Nat, NEW q \in Nat, q = n \div 1000
  PROVE  /\ 1000 * q <= n /\ n < 1000 * q + 1000
         /\ n > 0 /\ n % 1000 = 0 => n - 1000 * q = 0 /\ ((n - 1) % 1000) + 1 = 1000
         /\ n % 1000 # 0 => n - 1000 * q > 0 /\ ((n - 1) % 1000) + 1 = n - 1000 * q
  OBVIOUS

\* Before the loop no byte is read and no fragment made (packet.h:126-135).
LEMMA InitInv == InitFragments => Inv
  BY FileSizesAssumption
  DEF InitFragments, Inv, FragmentsTyped, Halfway, NoByteLost, CopySize, Finished, NumFrags, BYTE_LIMIT

\* One turn of the loop (packet.h:136-169).
LEMMA NextInv == Inv /\ [NextFragment]_fragVars => Inv'
<1>. SUFFICES ASSUME Inv, [NextFragment]_fragVars PROVE Inv'
  OBVIOUS
<1>. DEFINE q == fileSize \div 1000
<1>0. /\ fileSize \in Nat /\ q \in Nat /\ NumFrags = q + 1 /\ BYTE_LIMIT = 1000
      /\ made \in Nat /\ offset \in Nat /\ copied \in Nat
  BY FileSizesAssumption DEF Inv, FragmentsTyped, NumFrags, BYTE_LIMIT
<1>1. CASE MakeFragment
  <2>1. fileSize' = fileSize /\ made' = made + 1 /\ NumFrags' = NumFrags
    BY <1>1 DEF MakeFragment, NumFrags
  <2>2. made <= q /\ offset = 1000 * made /\ copied = offset
    BY <1>0, <1>1 DEF MakeFragment, Inv, Halfway
  <2>3. CASE made + 1 # NumFrags
    <3>1. made < q /\ 1000 * made + 1000 <= fileSize
      BY <1>0, <2>2, <2>3, LastFragment
    <3>2. size' = 1000 /\ data' = 1000 /\ offset' = 1000 * made + 1000
          /\ copied' = 1000 * made + 1000
      BY <1>0, <1>1, <2>2, <2>3, <3>1 DEF MakeFragment, ReadSize
    <3>3. FragmentsTyped'
      <4>1. made' \in 0 .. NumFrags' /\ fileSize' \in FileSizes
        BY <1>0, <2>1, <3>1 DEF Inv, FragmentsTyped
      <4>2. offset' \in 0 .. fileSize' /\ copied' \in Nat
        BY <1>0, <2>1, <3>1, <3>2
      <4>3. size' \in 0 .. BYTE_LIMIT /\ data' \in 0 .. BYTE_LIMIT
        BY <1>0, <3>2
      <4>. QED  BY <4>1, <4>2, <4>3 DEF FragmentsTyped, BYTE_LIMIT
    <3>4. made' # NumFrags'
      BY <2>1, <2>3
    <3>5. Halfway'
      BY <1>0, <2>1, <3>2 DEF Halfway
    <3>6. NoByteLost' /\ CopySize'
      BY <3>2, <3>4 DEF NoByteLost, CopySize, Finished
    <3>. QED  BY <3>3, <3>5, <3>6 DEF Inv
  <2>4. CASE made + 1 = NumFrags
    <3>1. made = q /\ offset = 1000 * q /\ made' = q + 1
      BY <1>0, <2>1, <2>2, <2>4
    <3>2. size' = LastSize /\ offset' = fileSize /\ copied' = 1000 * q + LastSize
      <4>1. size' = LastSize /\ offset' = fileSize /\ copied' = copied + size'
        BY <1>1, <2>4 DEF MakeFragment
      <4>2. copied = 1000 * q
        BY <2>2, <3>1
      <4>. QED  BY <4>1, <4>2
    <3>3. data' = fileSize - 1000 * q
      BY <1>0, <1>1, <3>1, LastFragment DEF MakeFragment, ReadSize
    <3>4. CASE fileSize > 0 /\ fileSize % 1000 = 0
      <4>1. LastSize = 1000 /\ fileSize = 1000 * q
        BY <1>0, <3>4, LastFragment DEF LastSize
      <4>2. FragmentsTyped'
        BY <1>0, <2>1, <3>1, <3>2, <3>3, <4>1 DEF Inv, FragmentsTyped
      <4>3. Halfway' /\ NoByteLost'
        BY <1>0, <2>1, <3>1, <3>2, <3>3, <4>1 DEF Halfway, NoByteLost, Finished
      <4>4. CopySize'
        BY <1>0, <2>1, <3>1, <3>2, <3>4, <4>1 DEF CopySize, Finished
      <4>. QED  BY <4>2, <4>3, <4>4 DEF Inv
    <3>5. CASE ~(fileSize > 0 /\ fileSize % 1000 = 0)
      <4>1. LastSize = fileSize - 1000 * q
        BY <1>0, <3>5, LastFragment DEF LastSize
      <4>2. LastSize \in 0 .. 1000
        BY <1>0, <4>1, LastFragment
      <4>3. FragmentsTyped'
        <5>1. size' = LastSize /\ data' = LastSize
          BY <3>2, <3>3, <4>1
        <5>2. size' \in 0 .. 1000 /\ data' \in 0 .. 1000
          BY <4>2, <5>1
        <5>3. copied' \in Nat
          BY <1>0, <3>2, <4>2
        <5>4. made' \in 0 .. NumFrags' /\ offset' \in 0 .. fileSize' /\ fileSize' \in FileSizes
          BY <1>0, <2>1, <3>1, <3>2 DEF Inv, FragmentsTyped
        <5>. QED  BY <1>0, <5>2, <5>3, <5>4 DEF FragmentsTyped
      <4>4. Halfway' /\ NoByteLost'
        BY <1>0, <2>1, <3>1, <3>2, <3>3, <4>1 DEF Halfway, NoByteLost, Finished
      <4>5. CopySize'
        <5>1. copied' = fileSize
          BY <1>0, <3>2, <4>1
        <5>. QED  BY <1>0, <2>1, <3>5, <5>1 DEF CopySize
      <4>. QED  BY <4>3, <4>4, <4>5 DEF Inv
    <3>. QED  BY <3>4, <3>5
  <2>. QED  BY <2>3, <2>4
<1>2. CASE UNCHANGED fragVars
  BY <1>2
  DEF Inv, FragmentsTyped, Halfway, NoByteLost, CopySize, Finished, NumFrags, fragVars
<1>. QED  BY <1>1, <1>2 DEF NextFragment

\* The types, and where the client stands in its file (packet.h:119-174).
THEOREM FragmentTypes == FragmentSpec => []FragmentsTyped
<1>1. Inv => FragmentsTyped
  BY DEF Inv
<1>. QED  BY <1>1, InitInv, NextInv, PTL DEF FragmentSpec

\* No byte of any file is left out of the fragments or out of its place.
THEOREM NothingLost == FragmentSpec => []NoByteLost
<1>1. Inv => NoByteLost
  BY DEF Inv
<1>. QED  BY <1>1, InitInv, NextInv, PTL DEF FragmentSpec

\* The size of the copy, for every size of the file.
THEOREM CopiedSize == FragmentSpec => []CopySize
<1>1. Inv => CopySize
  BY DEF Inv
<1>. QED  BY <1>1, InitInv, NextInv, PTL DEF FragmentSpec

-----------------------------------------------------------------------------
(* The timer *)

\* The estimate starts at twice the first round trip, and nothing is ever more
\* than twice the longest one.
TimerInv ==
  /\ TimerTyped
  /\ MinSample <= estimatedRTT /\ estimatedRTT <= 2 * MaxSample
  /\ devRTT <= 2 * MaxSample
  /\ TimerInBounds

\* What a weighted mean can be.
LEMMA MeanInBounds ==
  ASSUME NEW lo \in Nat, NEW hi \in Nat, NEW e \in Nat, NEW s \in Nat,
         lo <= e, e <= 2 * hi, lo <= s, s <= hi
  PROVE  LET m == (7 * e + s) \div 8
         IN  m \in Nat /\ lo <= m /\ m <= 2 * hi
  OBVIOUS

\* The same of the deviation, which may be as long as the longest mean.
LEMMA DeviationInBounds ==
  ASSUME NEW hi \in Nat, NEW d \in Nat, NEW x \in Nat,
         d <= 2 * hi, x <= 2 * hi
  PROVE  LET m == (3 * d + x) \div 4
         IN  m \in Nat /\ m <= 2 * hi
  OBVIOUS

\* Two times are no farther apart than the longer one.
LEMMA DistanceInBounds ==
  ASSUME NEW hi \in Nat, NEW a \in Nat, NEW b \in Nat, a <= hi, b <= hi
  PROVE  Distance(a, b) \in Nat /\ Distance(a, b) <= hi
  BY DEF Distance

\* The first timer is twice the first round trip (deliver.c:144-156).
LEMMA InitTimerInv == InitTimer => TimerInv
  BY SamplesAssumption
  DEF InitTimer, TimerInv, TimerTyped, TimerInBounds, Sample, FirstTimer

\* One adjustment (deliver.c:208-217).
LEMMA AdjustTimerInv == TimerInv /\ [AdjustTimer]_timerVars => TimerInv'
<1>. SUFFICES ASSUME TimerInv, [AdjustTimer]_timerVars PROVE TimerInv'
  OBVIOUS
<1>1. ASSUME NEW s \in Sample,
             estimatedRTT' = Estimate(s),
             devRTT' = Deviation(s, estimatedRTT'),
             tv_usec' = estimatedRTT' + 4 * devRTT'
      PROVE  TimerInv'
  <2>1. /\ s \in Nat /\ MinSample <= s /\ s <= MaxSample
        /\ estimatedRTT \in Nat /\ devRTT \in Nat
        /\ MinSample \in Nat /\ MaxSample \in Nat
        /\ MinSample <= estimatedRTT /\ estimatedRTT <= 2 * MaxSample
        /\ devRTT <= 2 * MaxSample
    BY SamplesAssumption DEF Sample, TimerInv, TimerTyped
  <2>2. /\ estimatedRTT' \in Nat
        /\ MinSample <= estimatedRTT' /\ estimatedRTT' <= 2 * MaxSample
    BY <1>1, <2>1, MeanInBounds DEF Estimate
  <2>3. Distance(s, estimatedRTT') \in Nat /\ Distance(s, estimatedRTT') <= 2 * MaxSample
    <3>1. 2 * MaxSample \in Nat /\ s <= 2 * MaxSample
      BY <2>1
    <3>. QED  BY <2>1, <2>2, <3>1, DistanceInBounds
  <2>4. devRTT' \in Nat /\ devRTT' <= 2 * MaxSample
    BY <1>1, <2>1, <2>3, DeviationInBounds DEF Deviation
  <2>5. /\ tv_usec' \in Nat
        /\ MinSample <= tv_usec' /\ tv_usec' <= 10 * MaxSample
    BY <1>1, <2>1, <2>2, <2>4
  <2>. QED  BY <2>2, <2>4, <2>5 DEF TimerInv, TimerTyped, TimerInBounds
<1>2. CASE UNCHANGED timerVars
  BY <1>2 DEF TimerInv, TimerTyped, TimerInBounds, timerVars
<1>. QED  BY <1>1, <1>2 DEF AdjustTimer

\* Whatever the round trips are, from the shortest to the longest, the timer stays
\* between the shortest one and ten times the longest one (deliver.c:208-212).
THEOREM TimerStaysInBounds == TimerSpec => []TimerInBounds
<1>1. TimerInv => TimerInBounds
  BY DEF TimerInv
<1>. QED  BY <1>1, InitTimerInv, AdjustTimerInv, PTL DEF TimerSpec

-----------------------------------------------------------------------------
(* The whole program *)

\* A step of the composition is a step, or none, of each component (deliver.c:141,
\* 159-225, server.c:68-145).
LEMMA StepsAreTheirs ==
  ASSUME DeliveryNext
  PROVE  [Next]_vars /\ [NextFragment]_fragVars /\ [AdjustTimer]_timerVars
<1>1. CASE Cut
  <2>1. UNCHANGED vars /\ UNCHANGED timerVars
    BY <1>1 DEF Cut
  <2>2. NextFragment
    BY <1>1 DEF Cut, NextFragment
  <2> QED BY <2>1, <2>2
<1>2. ASSUME NEW ACTION A, WithTimer(A)
      PROVE  A /\ UNCHANGED fragVars /\ [AdjustTimer]_timerVars
  BY <1>2 DEF WithTimer
<1>3. CASE Transmit
  <2>1. ClientStep /\ UNCHANGED fragVars /\ [AdjustTimer]_timerVars
    BY <1>2, <1>3 DEF Transmit
  <2> QED BY <2>1 DEF Next
<1>4. CASE Serve
  <2>1. ServerStep /\ UNCHANGED fragVars /\ [AdjustTimer]_timerVars
    BY <1>2, <1>4 DEF Serve
  <2> QED BY <2>1 DEF Next
<1>5. CASE Disturb
  <2>1. (Lose \/ Duplicate) /\ UNCHANGED fragVars /\ [AdjustTimer]_timerVars
    BY <1>2, <1>5 DEF Disturb
  <2> QED BY <2>1 DEF Next
<1> QED BY <1>1, <1>3, <1>4, <1>5 DEF DeliveryNext

\* Each component runs in the composition as it does alone.
LEMMA ComponentsRun == DeliverySpec => Spec /\ FragmentSpec /\ TimerSpec
<1>1. DeliveryInit => Init /\ InitFragments /\ InitTimer
  BY DEF DeliveryInit
<1>2. [DeliveryNext]_deliveryVars
        => [Next]_vars /\ [NextFragment]_fragVars /\ [AdjustTimer]_timerVars
  <2>1. CASE DeliveryNext
    BY <2>1, StepsAreTheirs
  <2>2. CASE UNCHANGED deliveryVars
    BY <2>2 DEF deliveryVars
  <2> QED BY <2>1, <2>2
<1> QED BY <1>1, <1>2, PTL DEF DeliverySpec, Spec, FragmentSpec, TimerSpec

\* The whole program loses no byte of the file, sizes the copy as it should and
\* keeps its timer armed, while it counts no acknowledgement too many.
THEOREM DeliveryIsSafe ==
  DeliverySpec => [](SafeTransfer /\ NoByteLost /\ CopySize /\ TimerInBounds)
BY ComponentsRun, TransferIsSafe, NothingLost, CopiedSize, TimerStaysInBounds, PTL

\* The whole program, with its timer and its file to be cut, copies fragments in
\* order and reports only a complete copy, if nothing is duplicated.
THEOREM DeliveryImplementsCopy ==
  ASSUME MaxDup = 0 PROVE DeliverySpec => ImplementsFileCopy
BY ComponentsRun, TransferImplementsCopy, PTL

-----------------------------------------------------------------------------
(* The file and its copy *)

\* A fragment is sent only when all are made (deliver.c:141-159).
OnlyMadeAreSent == cpc \in {"wait", "done"} => ReadyToSend

LEMMA OnlyMadeAreSentAlways == DeliverySpec => []OnlyMadeAreSent
<1>1. DeliveryInit => OnlyMadeAreSent
  BY DEF DeliveryInit, Init, OnlyMadeAreSent
<1>2. OnlyMadeAreSent /\ [DeliveryNext]_deliveryVars => OnlyMadeAreSent'
  <2> SUFFICES ASSUME OnlyMadeAreSent, [DeliveryNext]_deliveryVars PROVE OnlyMadeAreSent'
    OBVIOUS
  <2>1. ASSUME NEW ACTION A, WithTimer(A)
        PROVE  /\ A /\ UNCHANGED fragVars
               /\ cpc = "send" /\ cpc' # "send" => ReadyToSend
    BY <2>1 DEF WithTimer
  <2>2. UNCHANGED fragVars => (ReadyToSend => ReadyToSend')
    BY DEF ReadyToSend, Finished, NumFrags, fragVars
  <2>3. CASE Cut
    BY <2>3 DEF Cut, vars, client, OnlyMadeAreSent
  <2>4. CASE Transmit
    <3>1. /\ ClientStep /\ UNCHANGED fragVars
          /\ cpc = "send" /\ cpc' # "send" => ReadyToSend
      BY <2>1, <2>4 DEF Transmit
    <3>2. cpc' \in {"wait", "done"} => cpc \in {"send", "wait"}
      BY <3>1
      DEF ClientStep, RequestTransfer, SendFragment, RecvTimeout, RecvReply, RecvAck, RecvIgnored,
          ClientGoesTo
    <3> QED BY <2>2, <3>1, <3>2 DEF OnlyMadeAreSent
  <2>5. CASE Serve \/ Disturb
    <3>1. (ServerStep \/ Lose \/ Duplicate) /\ UNCHANGED fragVars
      <4>1. CASE Serve
        BY <2>1, <4>1 DEF Serve
      <4>2. CASE Disturb
        <5>1. (Lose \/ Duplicate) /\ UNCHANGED fragVars
          BY <2>1, <4>2 DEF Disturb
        <5> QED BY <5>1
      <4> QED BY <2>5, <4>1, <4>2
    <3>2. cpc' = cpc
      BY <3>1
      DEF ServerStep, ParseStrayRequest, AnswerRequest, AcceptFragment, RefuseFragment,
          Lose, Duplicate, client
    <3> QED BY <2>2, <3>1, <3>2 DEF OnlyMadeAreSent
  <2>6. CASE UNCHANGED deliveryVars
    BY <2>2, <2>6 DEF deliveryVars, vars, client, OnlyMadeAreSent
  <2> QED BY <2>3, <2>4, <2>5, <2>6 DEF DeliveryNext
<1> QED BY <1>1, <1>2, PTL DEF DeliverySpec

\* A function that is computed from its value before is known from its steps: no
\* argument is the first at which it differs.
LEMMA ComputedFromBefore ==
  ASSUME NEW n \in Nat, NEW f, NEW g, f[0] = g[0],
         \A k \in 1 .. n : f[k - 1] = g[k - 1] => f[k] = g[k]
  PROVE  f[n] = g[n]
<1> DEFINE Wrong == {k \in 0 .. n : f[k] # g[k]}
<1>1. SUFFICES ASSUME Wrong # {} PROVE FALSE
  OBVIOUS
<1>2. Wrong \in SUBSET Nat
  OBVIOUS
<1>3. PICK k \in Wrong : \A y \in Wrong : k <= y
  BY <1>1, <1>2, LeastOf
<1>4. k \in 1 .. n /\ k - 1 \in 0 .. n /\ ~(k <= k - 1)
  BY <1>3
<1>5. f[k - 1] = g[k - 1]
  BY <1>3, <1>4
<1> QED BY <1>3, <1>4, <1>5

\* The bytes in the server's file once it has every fragment: all are full but the
\* last (packet.h:145-157, server.c:119).
LEMMA BytesOfAll ==
  ASSUME NumFrags = NumFrag, written = [i \in Fragment |-> i], FragmentsTyped
  PROVE  BytesOf[Len(written)] = 1000 * (NumFrag - 1) + LastSize
<1>1. PICK n \in Nat \ {0} : n = NumFrag
  BY ConstantsAssumption
<1>2. Len(written) = n
  BY <1>1 DEF Fragment
<1>3. PICK last \in Nat : last = LastSize
  BY FileSizesAssumption DEF FragmentsTyped, LastSize, BYTE_LIMIT
<1>4. \A k \in 1 .. n : SizeOf(written[k]) = IF k # n THEN 1000 ELSE last
  BY <1>1, <1>3 DEF SizeOf, Fragment, BYTE_LIMIT
<1> DEFINE Sum(f, k) == IF k = 0 THEN 0 ELSE f[k - 1] + SizeOf(written[k])
<1>5. PICK g : /\ g = [k \in 0 .. n |-> g[k]]
               /\ g[n] = 1000 * (n - 1) + last
               /\ \A k \in 0 .. n : k # n => g[k] = 1000 * k
  <2> DEFINE h == [k \in 0 .. n |-> IF k # n THEN 1000 * k ELSE 1000 * (n - 1) + last]
  <2>1. h = [k \in 0 .. n |-> h[k]] /\ h[n] = 1000 * (n - 1) + last
    OBVIOUS
  <2>2. \A k \in 0 .. n : k # n => h[k] = 1000 * k
    OBVIOUS
  <2> HIDE DEF h
  <2> QED BY <2>1, <2>2
<1>6. \A k \in 0 .. n : g[k] = Sum(g, k)
  <2> TAKE k \in 0 .. n
  <2>1. CASE k = 0
    BY <1>5, <2>1
  <2>2. CASE k # 0
    <3>1. k \in 1 .. n /\ k - 1 \in 0 .. n /\ k - 1 # n
      BY <2>2
    <3>2. g[k - 1] = 1000 * (k - 1)
      BY <1>5, <3>1
    <3>3. Sum(g, k) = 1000 * (k - 1) + (IF k # n THEN 1000 ELSE last)
      BY <1>4, <3>1, <3>2
    <3> QED BY <1>5, <3>1, <3>3
  <2> QED BY <2>1, <2>2
<1>7. PICK b : b = BytesOf /\ b = [k \in 0 .. n |-> Sum(b, k)]
  <2>1. BytesOf = CHOOSE f : f = [k \in 0 .. n |-> Sum(f, k)]
    BY <1>2 DEF BytesOf
  <2> HIDE DEF Sum
  <2>2. g = [k \in 0 .. n |-> Sum(g, k)]
    BY <1>5, <1>6
  <2> DEFINE Computed(f) == f = [k \in 0 .. n |-> Sum(f, k)]
  <2>3. Computed(g) /\ BytesOf = CHOOSE f : Computed(f)
    BY <2>1, <2>2
  <2> HIDE DEF Computed
  <2>4. Computed(BytesOf)
    BY <2>3
  <2> USE DEF Computed
  <2> QED BY <2>4
<1>8. \A k \in 0 .. n : b[k] = Sum(b, k)
  <2> HIDE DEF Sum
  <2> QED BY <1>7
<1>9. b[n] = g[n]
  <2>1. b[0] = 0 /\ g[0] = 0
    BY <1>6, <1>8
  <2>2. \A k \in 1 .. n : b[k] = b[k - 1] + SizeOf(written[k])
    BY <1>8
  <2>3. \A k \in 1 .. n : g[k] = g[k - 1] + SizeOf(written[k])
    BY <1>6
  <2>4. \A k \in 1 .. n : b[k - 1] = g[k - 1] => b[k] = g[k]
    BY <2>2, <2>3
  <2>5. n \in Nat /\ b[0] = g[0]
    BY <2>1
  <2> QED BY <2>4, <2>5, ComputedFromBefore, Zenon
<1>10. BytesOf = b
  BY <1>7, Zenon
<1>11. PICK total, bytes : total = g[n] /\ bytes = BytesOf[Len(written)]
  OBVIOUS
<1>12. total = 1000 * (n - 1) + last
  BY <1>5, <1>11
<1>13. total = 1000 * (NumFrag - 1) + LastSize
  BY <1>1, <1>3, <1>12
<1>14. bytes = total
  <2>1. bytes = b[n]
    BY <1>2, <1>10, <1>11
  <2> QED BY <2>1, <1>9, <1>11
<1> QED BY <1>11, <1>13, <1>14

\* "transmission done!" means that every byte of the file is in the server's copy,
\* whatever its size, unless an answer was duplicated (deliver.c:228, packet.h:145-157,
\* server.c:119).
THEOREM DoneIsCopied == DeliverySpec => []DoneMeansCopied
<1>1. /\ DoneMeansDelivered /\ FragmentsTyped /\ NoByteLost /\ CopySize /\ OnlyMadeAreSent
      => DoneMeansCopied
  <2> SUFFICES ASSUME DoneMeansDelivered, FragmentsTyped, NoByteLost, CopySize, OnlyMadeAreSent,
                      cpc = "done", dup["toClient"] = 0
               PROVE  BytesOf[Len(written)] = copied /\ copied >= fileSize
    BY DEF DoneMeansCopied
  <2>1. written = [i \in Fragment |-> i] /\ Finished /\ NumFrags = NumFrag
    BY DEF DoneMeansDelivered, OnlyMadeAreSent, ReadyToSend, Finished
  <2>2. BytesOf[Len(written)] = 1000 * (NumFrag - 1) + LastSize
    BY <2>1, BytesOfAll
  <2>3. PICK n \in Nat, q \in Nat : n = fileSize /\ q = n \div 1000
    BY FileSizesAssumption DEF FragmentsTyped
  <2>4. NumFrag - 1 = q
    BY <2>1, <2>3 DEF NumFrags, BYTE_LIMIT
  <2>5. CASE n > 0 /\ n % 1000 = 0
    <3>1. LastSize = 1000 /\ n = 1000 * q
      BY <2>3, <2>5, LastFragment DEF LastSize, BYTE_LIMIT
    <3> QED BY <2>1, <2>2, <2>3, <2>4, <2>5, <3>1 DEF CopySize, NoByteLost, BYTE_LIMIT
  <2>6. CASE ~(n > 0 /\ n % 1000 = 0)
    <3>1. LastSize = n - 1000 * q
      BY <2>3, <2>6, LastFragment DEF LastSize, BYTE_LIMIT
    <3> QED BY <2>1, <2>2, <2>3, <2>4, <2>6, <3>1 DEF CopySize, NoByteLost, BYTE_LIMIT
  <2> QED BY <2>5, <2>6
<1> QED
  BY <1>1, ComponentsRun, TransferIsHonest, FragmentTypes, NothingLost, CopiedSize,
     OnlyMadeAreSentAlways, PTL

-----------------------------------------------------------------------------
(* A fragment as text *)

\* A text and one character more.
IsOneMore(g, h, x, n) ==
  /\ g \in Seq(Char) /\ Len(g) = n + 1 /\ g[n + 1] = x
  /\ \A i \in 1 .. n : g[i] = h[i]

LEMMA OneMore == \A h \in Seq(Char), x \in Char : IsOneMore(h \o <<x>>, h, x, Len(h))
<1> SUFFICES ASSUME NEW h \in Seq(Char), NEW x \in Char
             PROVE  IsOneMore(h \o <<x>>, h, x, Len(h))
  OBVIOUS
<1>0. PICK n \in Nat : n = Len(h)
  OBVIOUS
<1>1. PICK w, g : w = <<x>> /\ g = h \o w
  OBVIOUS
<1>2. w \in Seq(Char) /\ Len(w) = 1 /\ w[1] = x
  BY <1>1
<1>3. IsJoin(g, h, w, n, 1)
  BY <1>0, <1>1, <1>2, Joined
<1>4. IsOneMore(g, h, x, n)
  BY <1>2, <1>3 DEF IsJoin, IsOneMore
<1> QED BY <1>0, <1>1, <1>4

\* A datagram of the characters a, b and c for its numbers, and a name and data of
\* n and l characters.
IsFragment(f, a, b, c, name, bytes, n, l) ==
  /\ f \in Seq(Char) /\ Len(f) = 7 + n + l
  /\ f[1] = a /\ f[2] = Colon /\ f[3] = b /\ f[4] = Colon /\ f[5] = c /\ f[6] = Colon
  /\ \A i \in 1 .. n : f[6 + i] = name[i]
  /\ f[7 + n] = Colon
  /\ \A i \in 1 .. l : f[7 + n + i] = bytes[i]

LEMMA FragmentsAreTexts ==
  ASSUME NEW a \in Char, NEW b \in Char, NEW c \in Char,
         NEW name \in Seq(Char), NEW bytes \in Seq(Char),
         NEW f, f = <<a>> \o <<Colon>> \o <<b>> \o <<Colon>> \o <<c>> \o <<Colon>>
                      \o name \o <<Colon>> \o bytes
  PROVE  IsFragment(f, a, b, c, name, bytes, Len(name), Len(bytes))
<1>1. PICK n \in Nat, l \in Nat : n = Len(name) /\ l = Len(bytes)
  OBVIOUS
<1>2. PICK x \in Char : x = Colon
  BY DEF Char, Colon
<1>3. PICK h1, h2, h3, h4, h5, h6 :
        /\ h1 = <<a>> /\ h2 = h1 \o <<x>> /\ h3 = h2 \o <<b>>
        /\ h4 = h3 \o <<x>> /\ h5 = h4 \o <<c>> /\ h6 = h5 \o <<x>>
  OBVIOUS
<1>4. h1 \in Seq(Char) /\ Len(h1) = 1 /\ h1[1] = a
  BY <1>3
<1>5. IsOneMore(h2, h1, x, 1)
  BY <1>3, <1>4, OneMore
<1>6. IsOneMore(h3, h2, b, 2)
  <2>1. h2 \in Seq(Char) /\ Len(h2) = 2
    BY <1>5 DEF IsOneMore
  <2> QED BY <1>3, <2>1, OneMore
<1>7. IsOneMore(h4, h3, x, 3)
  <2>1. h3 \in Seq(Char) /\ Len(h3) = 3
    BY <1>6 DEF IsOneMore
  <2> QED BY <1>3, <2>1, OneMore
<1>8. IsOneMore(h5, h4, c, 4)
  <2>1. h4 \in Seq(Char) /\ Len(h4) = 4
    BY <1>7 DEF IsOneMore
  <2> QED BY <1>3, <2>1, OneMore
<1>9. IsOneMore(h6, h5, x, 5)
  <2>1. h5 \in Seq(Char) /\ Len(h5) = 5
    BY <1>8 DEF IsOneMore
  <2> QED BY <1>3, <2>1, OneMore
<1>10. /\ h6[1] = a /\ h6[2] = x /\ h6[3] = b /\ h6[4] = x /\ h6[5] = c /\ h6[6] = x
       /\ h6 \in Seq(Char) /\ Len(h6) = 6
  BY <1>4, <1>5, <1>6, <1>7, <1>8, <1>9 DEF IsOneMore
<1>11. PICK h7, h8 : h7 = h6 \o name /\ h8 = h7 \o <<x>>
  OBVIOUS
<1>12. IsJoin(h7, h6, name, 6, n)
  BY <1>1, <1>10, <1>11, Joined
<1>13. /\ h8 \in Seq(Char) /\ Len(h8) = 7 + n /\ h8[7 + n] = x
       /\ \A i \in 1 .. 6 + n : h8[i] = h7[i]
  <2>1. PICK k \in Nat : k = 6 + n
    OBVIOUS
  <2>2. h7 \in Seq(Char) /\ Len(h7) = k
    BY <1>12, <2>1 DEF IsJoin
  <2>3. IsOneMore(h8, h7, x, k)
    BY <1>11, <2>2, OneMore
  <2>4. k + 1 = 7 + n
    BY <2>1
  <2> QED BY <2>1, <2>3, <2>4 DEF IsOneMore
<1>14. f = h8 \o bytes
  BY <1>2, <1>3, <1>11
<1>15. IsJoin(f, h8, bytes, 7 + n, l)
  BY <1>1, <1>13, <1>14, Joined
<1>16. \A i \in 1 .. 7 + n : f[i] = h8[i]
  BY <1>15 DEF IsJoin
<1>17. \A i \in 1 .. 6 : f[i] = h6[i]
  <2> TAKE i \in 1 .. 6
  <2>1. i \in 1 .. 6 + n /\ i \in 1 .. 7 + n
    OBVIOUS
  <2>2. h7[i] = h6[i]
    BY <1>12 DEF IsJoin
  <2> QED BY <1>13, <1>16, <2>1, <2>2
<1>18. \A i \in 1 .. n : f[6 + i] = name[i]
  <2> TAKE i \in 1 .. n
  <2>1. 6 + i \in 1 .. 6 + n /\ 6 + i \in 1 .. 7 + n
    OBVIOUS
  <2>2. h7[6 + i] = name[i]
    BY <1>12 DEF IsJoin
  <2> QED BY <1>13, <1>16, <2>1, <2>2
<1>19. f[7 + n] = Colon
  <2>1. PICK e \in Nat : e = 7 + n /\ e \in 1 .. 7 + n
    OBVIOUS
  <2>2. f[e] = h8[e]
    BY <1>16, <2>1
  <2> QED BY <1>2, <1>13, <2>1, <2>2
<1>20. /\ f[1] = a /\ f[2] = Colon /\ f[3] = b /\ f[4] = Colon /\ f[5] = c /\ f[6] = Colon
  <2>1. /\ f[1] = h6[1] /\ f[2] = h6[2] /\ f[3] = h6[3]
        /\ f[4] = h6[4] /\ f[5] = h6[5] /\ f[6] = h6[6]
    <3>1. 1 \in 1 .. 6 /\ 2 \in 1 .. 6 /\ 3 \in 1 .. 6 /\ 4 \in 1 .. 6 /\ 5 \in 1 .. 6 /\ 6 \in 1 .. 6
      OBVIOUS
    <3> QED BY <1>17, <3>1, Zenon
  <2> QED BY <1>2, <1>10, <2>1
<1> QED BY <1>1, <1>15, <1>18, <1>19, <1>20 DEF IsFragment, IsJoin

\* A number is taken with the colon behind it.
NumberAt(text, at) ==
  at < Len(text) /\ text[at] # Colon /\ text[at] # Nul /\ text[at + 1] = Colon

TakesOne(call, text, at, e) ==
  /\ call.token = at /\ call.at = e + 1
  /\ call.text \in Seq(Char) /\ Len(call.text) = Len(text)
  /\ \A i \in 1 .. Len(text) : call.text[i] = IF i = e THEN Nul ELSE text[i]

LEMMA NumberIsTaken ==
  ASSUME NEW text \in Seq(Char), NEW at \in Nat \ {0}, NumberAt(text, at),
         NEW e \in Nat, e = at + 1,
         NEW call, call = Strtok(text, at, {Colon})
  PROVE  TakesOne(call, text, at, e)
<1>0. at < Len(text) /\ text[at] # Colon /\ text[at] # Nul /\ text[at + 1] = Colon
  BY DEF NumberAt
<1>1. PICK len \in Nat : len = Len(text)
  OBVIOUS
<1>2. PICK delims : delims = {Colon}
  OBVIOUS
<1>3. Colon # Nul
  BY DEF Colon, Nul
<1>4. IsToken(text, at, e, delims) /\ ~Ends(text, e)
  <2>1. at \in 1 .. len /\ e \in at + 1 .. len + 1 /\ e <= len
    BY <1>0, <1>1
  <2>2. \A i \in at .. e - 1 : text[i] \notin delims \cup {Nul}
    BY <1>0, <1>1, <1>2
  <2>3. text[e] = Colon
    BY <1>0, <1>1
  <2> QED BY <1>1, <1>2, <1>3, <2>1, <2>2, <2>3 DEF IsToken, Ends
<1>5. call.token = at /\ call.text = CutAt(text, e) /\ call.at = e + 1
  BY <1>2, <1>4, StrtokTakes
<1>6. e \in 1 .. Len(text)
  BY <1>0, <1>1
<1>7. PICK g : g = CutAt(text, e)
  OBVIOUS
<1>8. /\ g \in Seq(Char) /\ Len(g) = Len(text)
      /\ \A i \in 1 .. Len(text) : g[i] = IF i = e THEN Nul ELSE text[i]
  BY <1>6, <1>7, CutText
<1> QED BY <1>5, <1>7, <1>8 DEF TakesOne

\* The four calls of formatString().
FirstCall(f)  == Strtok(f, 1, {Colon})
SecondCall(f) == NextCall(FirstCall(f))
ThirdCall(f)  == NextCall(SecondCall(f))
FourthCall(f) == NextCall(ThirdCall(f))

\* The numbers of a fragment are taken off its text; the rest is left as it was.
IsCut(g, f, a, b, c) ==
  /\ g \in Seq(Char) /\ Len(g) = Len(f)
  /\ g[1] = a /\ g[2] = Nul /\ g[3] = b /\ g[4] = Nul /\ g[5] = c /\ g[6] = Nul
  /\ \A i \in 7 .. Len(f) : g[i] = f[i]

LEMMA NumbersAreTaken ==
  ASSUME NEW a \in Char \ {Colon, Nul}, NEW b \in Char \ {Colon, Nul}, NEW c \in Char \ {Colon, Nul},
         NEW name, NEW bytes, NEW n \in Nat, NEW l \in Nat,
         NEW f, IsFragment(f, a, b, c, name, bytes, n, l)
  PROVE  /\ FirstCall(f).token = 1 /\ SecondCall(f).token = 3
         /\ ThirdCall(f).token = 5 /\ ThirdCall(f).at = 7
         /\ IsCut(ThirdCall(f).text, f, a, b, c)
<1>0. PICK first, second, third :
        first = FirstCall(f) /\ second = SecondCall(f) /\ third = ThirdCall(f)
  OBVIOUS
<1>1. PICK len \in Nat : len = 7 + n + l /\ len >= 7
  OBVIOUS
<1>2. /\ f \in Seq(Char) /\ Len(f) = len
      /\ f[1] = a /\ f[2] = Colon /\ f[3] = b /\ f[4] = Colon /\ f[5] = c /\ f[6] = Colon
  BY <1>1 DEF IsFragment
<1>3. PICK g, h, k : g = first.text /\ h = second.text /\ k = third.text
  OBVIOUS
<1>4. /\ first.token = 1 /\ first.at = 3 /\ g \in Seq(Char) /\ Len(g) = len
      /\ \A i \in 1 .. len : g[i] = IF i = 2 THEN Nul ELSE f[i]
  <2>1. PICK at \in Nat \ {0}, e \in Nat : at = 1 /\ e = 2 /\ e = at + 1
    OBVIOUS
  <2>2. NumberAt(f, at)
    BY <1>1, <1>2, <2>1 DEF NumberAt
  <2>3. first = Strtok(f, at, {Colon})
    BY <1>0, <2>1 DEF FirstCall
  <2>4. TakesOne(first, f, at, e)
    BY <1>2, <2>1, <2>2, <2>3, NumberIsTaken
  <2>5. TakesOne(first, f, 1, 2)
    BY <2>1, <2>4, Zenon
  <2>6. g \in Seq(Char) /\ Len(g) = Len(f) /\ first.token = 1 /\ first.at = 3
    BY <1>3, <2>5 DEF TakesOne
  <2>7. \A i \in 1 .. Len(f) : g[i] = IF i = 2 THEN Nul ELSE f[i]
    BY <1>3, <2>5 DEF TakesOne
  <2> QED BY <1>2, <2>6, <2>7
<1>5. g[1] = a /\ g[2] = Nul /\ g[3] = b /\ g[4] = Colon /\ g[5] = c /\ g[6] = Colon
  BY <1>1, <1>2, <1>4
<1>6. /\ second.token = 3 /\ second.at = 5 /\ h \in Seq(Char) /\ Len(h) = len
      /\ \A i \in 1 .. len : h[i] = IF i = 4 THEN Nul ELSE g[i]
  <2>1. PICK at \in Nat \ {0}, e \in Nat : at = 3 /\ e = 4 /\ e = at + 1
    OBVIOUS
  <2>2. NumberAt(g, at)
    BY <1>1, <1>4, <1>5, <2>1 DEF NumberAt
  <2>3. second = Strtok(g, at, {Colon})
    BY <1>0, <1>3, <1>4, <2>1 DEF SecondCall, NextCall
  <2>4. TakesOne(second, g, at, e)
    BY <1>4, <2>1, <2>2, <2>3, NumberIsTaken
  <2>5. TakesOne(second, g, 3, 4)
    BY <2>1, <2>4, Zenon
  <2>6. h \in Seq(Char) /\ Len(h) = Len(g) /\ second.token = 3 /\ second.at = 5
    BY <1>3, <2>5 DEF TakesOne
  <2>7. \A i \in 1 .. Len(g) : h[i] = IF i = 4 THEN Nul ELSE g[i]
    BY <1>3, <2>5 DEF TakesOne
  <2> QED BY <1>4, <2>6, <2>7
<1>7. h[1] = a /\ h[2] = Nul /\ h[3] = b /\ h[4] = Nul /\ h[5] = c /\ h[6] = Colon
  BY <1>1, <1>5, <1>6
<1>8. /\ third.token = 5 /\ third.at = 7 /\ k \in Seq(Char) /\ Len(k) = len
      /\ \A i \in 1 .. len : k[i] = IF i = 6 THEN Nul ELSE h[i]
  <2>1. PICK at \in Nat \ {0}, e \in Nat : at = 5 /\ e = 6 /\ e = at + 1
    OBVIOUS
  <2>2. NumberAt(h, at)
    BY <1>1, <1>6, <1>7, <2>1 DEF NumberAt
  <2>3. third = Strtok(h, at, {Colon})
    BY <1>0, <1>3, <1>6, <2>1 DEF ThirdCall, NextCall
  <2>4. TakesOne(third, h, at, e)
    BY <1>6, <2>1, <2>2, <2>3, NumberIsTaken
  <2>5. TakesOne(third, h, 5, 6)
    BY <2>1, <2>4, Zenon
  <2>6. k \in Seq(Char) /\ Len(k) = Len(h) /\ third.token = 5 /\ third.at = 7
    BY <1>3, <2>5 DEF TakesOne
  <2>7. \A i \in 1 .. Len(h) : k[i] = IF i = 6 THEN Nul ELSE h[i]
    BY <1>3, <2>5 DEF TakesOne
  <2> QED BY <1>6, <2>6, <2>7
<1>9. k[1] = a /\ k[2] = Nul /\ k[3] = b /\ k[4] = Nul /\ k[5] = c /\ k[6] = Nul
  BY <1>1, <1>7, <1>8
<1>10. \A i \in 7 .. len : k[i] = f[i]
  <2> TAKE i \in 7 .. len
  <2>1. i \in 1 .. len /\ i # 2 /\ i # 4 /\ i # 6
    BY <1>1
  <2> QED BY <1>4, <1>6, <1>8, <2>1
<1>11. IsCut(k, f, a, b, c)
  BY <1>2, <1>8, <1>9, <1>10 DEF IsCut
<1> QED BY <1>0, <1>3, <1>4, <1>6, <1>8, <1>11

\* A number that has been taken is read as it was sent, whatever is cut behind it.
LEMMA NumberIsRead ==
  ASSUME NEW h \in Seq(Char), NEW at \in Nat \ {0}, at < Len(h),
         NEW d \in Char \ {Colon, Nul}, h[at] = d, h[at + 1] = Nul
  PROVE  CString(h, at) = <<d>> /\ Len(CString(h, at)) = 1
<1>1. PICK word : word = <<d>>
  OBVIOUS
<1>2. word \in Seq(Char) /\ Len(word) = 1 /\ word[1] = d
  BY <1>1
<1>3. \A i \in 1 .. 1 : h[at - 1 + i] = word[i] /\ word[i] # Nul
  BY <1>2
<1>4. IsWord(h, at, word)
  BY <1>2, <1>3 DEF IsWord, Ends
<1>5. CString(h, at) = word
  BY <1>4, WordIsRead
<1> QED BY <1>1, <1>2, <1>5

\* Whatever the fourth call finds, it cuts behind the numbers.
LEMMA NumbersAreRead ==
  ASSUME NEW a \in Char \ {Colon, Nul}, NEW b \in Char \ {Colon, Nul}, NEW c \in Char \ {Colon, Nul},
         NEW name, NEW bytes, NEW n \in Nat, NEW l \in Nat,
         NEW f, IsFragment(f, a, b, c, name, bytes, n, l)
  PROVE  LET text == FourthCall(f).text
         IN  /\ CString(text, 1) = <<a>> /\ Len(CString(text, 1)) = 1
             /\ CString(text, 3) = <<b>> /\ Len(CString(text, 3)) = 1
             /\ CString(text, 5) = <<c>> /\ Len(CString(text, 5)) = 1
<1>1. PICK g, fourth : g = ThirdCall(f).text /\ fourth = FourthCall(f)
  OBVIOUS
<1>2. IsCut(g, f, a, b, c) /\ fourth = Strtok(g, 7, {Colon})
  BY <1>1, NumbersAreTaken DEF FourthCall, NextCall
<1>3. PICK len \in Nat : len = Len(g) /\ len >= 7
  BY <1>2 DEF IsCut, IsFragment
<1>4. g \in Seq(Char)
  BY <1>2 DEF IsCut
<1>5. g[1] = a /\ g[2] = Nul /\ g[3] = b /\ g[4] = Nul /\ g[5] = c /\ g[6] = Nul
  BY <1>2 DEF IsCut
<1>6. PICK at \in Nat \ {0} : at = 7
  OBVIOUS
<1>7. PICK delims : delims = {Colon}
  OBVIOUS
<1>8. PICK h : h = fourth.text
  OBVIOUS
<1>9. /\ h \in Seq(Char) /\ Len(h) = Len(g)
      /\ \/ h = g
         \/ \E stop \in at .. Len(g) : h = CutAt(g, stop)
  <2>1. fourth = Strtok(g, at, delims)
    BY <1>2, <1>6, <1>7
  <2>2. /\ fourth.text \in Seq(Char) /\ Len(fourth.text) = Len(g)
        /\ \/ fourth.text = g
           \/ \E stop \in at .. Len(g) : fourth.text = CutAt(g, stop)
    BY <1>4, <2>1, StrtokCuts
  <2> QED BY <1>8, <2>2
<1>10. \A i \in 1 .. 6 : h[i] = g[i]
  <2> TAKE i \in 1 .. 6
  <2>1. ASSUME NEW stop \in at .. Len(g), h = CutAt(g, stop) PROVE h[i] = g[i]
    <3>1. stop \in 1 .. Len(g) /\ i \in 1 .. Len(g) /\ i # stop
      BY <1>3, <1>6
    <3> QED BY <1>4, <2>1, <3>1, CutText
  <2> QED BY <1>9, <2>1
<1>11. h[1] = a /\ h[2] = Nul /\ h[3] = b /\ h[4] = Nul /\ h[5] = c /\ h[6] = Nul
  BY <1>5, <1>10
<1>12. PICK one \in Nat \ {0}, three \in Nat \ {0}, five \in Nat \ {0} :
         one = 1 /\ three = 3 /\ five = 5
  OBVIOUS
<1>13. CString(h, one) = <<a>> /\ Len(CString(h, one)) = 1
  <2>1. one < Len(h) /\ h[one] = a /\ h[one + 1] = Nul
    BY <1>3, <1>9, <1>11, <1>12
  <2> QED BY <1>9, <2>1, NumberIsRead
<1>14. CString(h, three) = <<b>> /\ Len(CString(h, three)) = 1
  <2>1. three < Len(h) /\ h[three] = b /\ h[three + 1] = Nul
    BY <1>3, <1>9, <1>11, <1>12
  <2> QED BY <1>9, <2>1, NumberIsRead
<1>15. CString(h, five) = <<c>> /\ Len(CString(h, five)) = 1
  <2>1. five < Len(h) /\ h[five] = c /\ h[five + 1] = Nul
    BY <1>3, <1>9, <1>11, <1>12
  <2> QED BY <1>9, <2>1, NumberIsRead
<1> QED BY <1>1, <1>8, <1>12, <1>13, <1>14, <1>15

IsWhole(word, n) ==
  word \in Seq(Char) /\ Len(word) = n /\ \A i \in 1 .. n : word[i] # Colon /\ word[i] # Nul

\* A name without a colon is taken whole, and the data is where the four fields and
\* their colons end.
LEMMA NameIsRead ==
  ASSUME NEW a \in Char \ {Colon, Nul}, NEW b \in Char \ {Colon, Nul}, NEW c \in Char \ {Colon, Nul},
         NEW name, NEW n \in Nat \ {0}, IsWhole(name, n),
         NEW l \in Nat, NEW bytes \in Seq(Char), Len(bytes) = l,
         NEW f, IsFragment(f, a, b, c, name, bytes, n, l)
  PROVE  /\ CString(FourthCall(f).text, FourthCall(f).token) = name
         /\ SubSeq(FourthCall(f).text, 8 + n, 7 + n + l) = bytes
<1>1. PICK g, fourth : g = ThirdCall(f).text /\ fourth = FourthCall(f)
  OBVIOUS
<1>2. IsCut(g, f, a, b, c) /\ fourth = Strtok(g, 7, {Colon})
  BY <1>1, NumbersAreTaken DEF FourthCall, NextCall
<1>3. name \in Seq(Char) /\ Len(name) = n /\ \A i \in 1 .. n : name[i] # Colon /\ name[i] # Nul
  BY DEF IsWhole
<1>4. PICK len \in Nat : len = 7 + n + l
  OBVIOUS
<1>5. /\ f \in Seq(Char) /\ Len(f) = len /\ f[7 + n] = Colon
      /\ \A i \in 1 .. n : f[6 + i] = name[i]
      /\ \A i \in 1 .. l : f[7 + n + i] = bytes[i]
  BY <1>4 DEF IsFragment
<1>6. g \in Seq(Char) /\ Len(g) = len /\ \A i \in 7 .. len : g[i] = f[i]
  BY <1>5, <1>2 DEF IsCut
<1>7. PICK at \in Nat \ {0} : at = 7
  OBVIOUS
<1>8. PICK delims : delims = {Colon}
  OBVIOUS
<1>9. PICK e \in Nat : e = 7 + n
  OBVIOUS
<1>10. g[e] = Colon /\ \A i \in 7 .. 6 + n : g[i] = name[i - 6]
  <2>1. e \in 7 .. len
    BY <1>4, <1>9
  <2>2. g[e] = Colon
    BY <1>5, <1>6, <1>9, <2>1
  <2>3. ASSUME NEW i \in 7 .. 6 + n PROVE g[i] = name[i - 6]
    <3>1. i \in 7 .. len /\ i - 6 \in 1 .. n /\ 6 + (i - 6) = i
      BY <1>4
    <3>2. f[i] = name[i - 6]
      BY <1>5, <3>1
    <3> QED BY <1>6, <3>1, <3>2
  <2> QED BY <2>2, <2>3
<1>11. \A i \in 1 .. l : g[e + i] = bytes[i]
  <2> TAKE i \in 1 .. l
  <2>1. e + i \in 7 .. len
    BY <1>4, <1>9
  <2>2. f[e + i] = bytes[i]
    BY <1>5, <1>9
  <2> QED BY <1>6, <2>1, <2>2
<1>12. IsToken(g, at, e, delims) /\ ~Ends(g, e)
  <2>1. at \in 1 .. len /\ e \in at + 1 .. len + 1 /\ e <= len
    BY <1>4, <1>7, <1>9
  <2>2. \A i \in at .. e - 1 : g[i] \notin delims \cup {Nul}
    <3> TAKE i \in at .. e - 1
    <3>1. i \in 7 .. 6 + n /\ i - 6 \in 1 .. n
      BY <1>7, <1>9
    <3>2. g[i] # Colon /\ g[i] # Nul
      BY <1>10, <1>3, <3>1
    <3> QED BY <1>8, <1>7, <3>2
  <2>3. Colon # Nul
    BY DEF Colon, Nul
  <2> QED BY <1>8, <1>6, <1>7, <1>10, <2>1, <2>2, <2>3 DEF IsToken, Ends
<1>13. PICK h : h = CutAt(g, e)
  OBVIOUS
<1>14. fourth.token = at /\ fourth.text = h
  BY <1>8, <1>6, <1>7, <1>12, <1>13, <1>2, StrtokTakes
<1>15. /\ h \in Seq(Char) /\ Len(h) = len
       /\ \A i \in 1 .. len : h[i] = IF i = e THEN Nul ELSE g[i]
  <2>1. e \in 1 .. Len(g)
    BY <1>4, <1>6, <1>9
  <2> QED BY <1>6, <1>13, <2>1, CutText
<1>16. CString(h, at) = name
  <2>1. \A i \in 1 .. n : h[at - 1 + i] = name[i] /\ name[i] # Nul
    <3> TAKE i \in 1 .. n
    <3>1. PICK j \in Int : j = at - 1 + i /\ j \in 7 .. 6 + n /\ j \in 1 .. len /\ j # e /\ j - 6 = i
      BY <1>4, <1>7, <1>9
    <3>2. h[j] = name[j - 6]
      BY <1>10, <1>15, <3>1
    <3> QED BY <1>3, <3>1, <3>2
  <2>2. at + n = e /\ e <= len /\ e \in 1 .. len
    BY <1>4, <1>7, <1>9
  <2>3. h[e] = Nul
    BY <1>15, <2>2
  <2>4. IsWord(h, at, name)
    BY <1>15, <1>3, <2>1, <2>2, <2>3 DEF IsWord, Ends
  <2> QED BY <1>15, <2>4, WordIsRead
<1>17. PICK from \in Int : from = e + 1
  OBVIOUS
<1>18. PICK w : w = SubSeq(h, from, len)
  OBVIOUS
<1>19. /\ w \in Seq(Char) /\ Len(w) = IF from <= len THEN len - from + 1 ELSE 0
       /\ \A i \in 1 .. len - from + 1 : w[i] = h[from + i - 1]
  <2>1. ASSUME NEW i \in from .. len PROVE h[i] \in Char
    <3>1. i \in 1 .. len
      BY <1>9, <1>17
    <3> QED BY <1>15, <3>1
  <2> QED BY <1>18, <2>1, SubSeqProperties
<1>20. Len(w) = l
  BY <1>4, <1>9, <1>17, <1>19
<1>21. \A i \in 1 .. l : w[i] = bytes[i]
  <2> TAKE i \in 1 .. l
  <2>1. i \in 1 .. len - from + 1 /\ from + i - 1 = e + i /\ e + i \in 1 .. len /\ e + i # e
    BY <1>4, <1>9, <1>17
  <2>2. w[i] = h[e + i]
    BY <1>19, <2>1
  <2>3. h[e + i] = g[e + i]
    BY <1>15, <2>1
  <2> QED BY <1>11, <2>2, <2>3
<1>22. w = bytes
  BY <1>19, <1>20, <1>21, SeqEqual
<1>23. from = 8 + n
  BY <1>9, <1>17
<1> QED BY <1>4, <1>14, <1>16, <1>18, <1>22, <1>23, <1>1

\* The digits of a number are those of no other (packet.h:89-91).
LEMMA NumbersAreConverted == \A n \in Numbers : atoi(Digits(n)) = n
<1> SUFFICES ASSUME NEW n \in Numbers PROVE atoi(Digits(n)) = n
  OBVIOUS
<1>1. \A m \in Numbers : Digits(m) = Digits(n) => m = n
  BY NumbersAssumption DEF Digits
<1> QED BY <1>1 DEF atoi

\* The server reads every number of every fragment as the client has sent it, and
\* its name and data if no colon is in the name (packet.h:59-115).
THEOREM FragmentsAreRead == DeliverySpec => []FragmentIsKept
<1>1. FragmentsTyped => FragmentIsKept
  <2> SUFFICES ASSUME FragmentsTyped, made \in 1 .. NumFrags,
                      NEW filename \in FileNames, NEW filedata \in FileBytes,
                      NEW p, p = [total_frag |-> NumFrags, frag_no |-> made, size |-> Len(filedata),
                                  filename |-> filename, filedata |-> filedata],
                      NEW parsed, parsed = formatString(formatPacket(p))
               PROVE  /\ parsed.total_frag = NumFrags /\ parsed.frag_no = made /\ parsed.size = Len(filedata)
                      /\ Colon \notin ToSet(filename) =>
                           parsed.filename = filename /\ parsed.filedata = filedata
    BY DEF FragmentIsKept
  <2>1. STRING \subseteq Char
    BY DEF Char
  <2>2. /\ filename \in Seq(STRING) /\ filedata \in Seq(STRING)
        /\ Nul \notin ToSet(filename) /\ ~(ToSet(filename) \subseteq {Colon})
    BY TextsAssumption
  <2>3. filename \in Seq(Char) /\ filedata \in Seq(Char)
    BY <2>1, <2>2, SeqMonotonic
  <2>4. PICK n \in Nat, l \in Nat : n = Len(filename) /\ l = Len(filedata)
    BY <2>3
  <2>5. n # 0 /\ \A i \in 1 .. n : filename[i] # Nul
    BY <2>2, <2>3, <2>4 DEF ToSet
  <2>6. NumFrags \in Numbers /\ made \in Numbers /\ l \in Numbers
    <3>1. fileSize \in FileSizes /\ NumFrags = fileSize \div BYTE_LIMIT + 1
      BY DEF FragmentsTyped, NumFrags
    <3>2. NumFrags \in 1 .. NumFrags
      <4>1. PICK q \in Nat : q = fileSize
        BY <3>1, FileSizesAssumption
      <4> QED BY <3>1, <4>1 DEF BYTE_LIMIT
    <3> QED BY <2>4, <3>1, <3>2, TextsAssumption
  <2>7. PICK a \in Char \ {Colon, Nul}, b \in Char \ {Colon, Nul}, c \in Char \ {Colon, Nul} :
          a = ToString(NumFrags) /\ b = ToString(made) /\ c = ToString(l)
    BY <2>1, <2>6, NumbersAssumption
  <2>8. PICK f : f = formatPacket(p)
    OBVIOUS
  <2>9. IsFragment(f, a, b, c, filename, filedata, n, l)
    <3>1. SubSeq(filedata, 1, l) = filedata
      BY <2>3, <2>4, SubSeqFull
    <3>2. f = <<a>> \o <<Colon>> \o <<b>> \o <<Colon>> \o <<c>> \o <<Colon>>
                \o filename \o <<Colon>> \o filedata
      BY <2>4, <2>7, <2>8, <3>1 DEF formatPacket, Digits
    <3> QED BY <2>3, <2>4, <3>2, FragmentsAreTexts
  <2>10. /\ FirstCall(f).token = 1 /\ SecondCall(f).token = 3 /\ ThirdCall(f).token = 5
    BY <2>9, NumbersAreTaken
  <2>11. PICK h, word : h = FourthCall(f).text /\ word = CString(h, FourthCall(f).token)
    OBVIOUS
  <2>12. /\ CString(h, 1) = <<a>> /\ Len(CString(h, 1)) = 1
         /\ CString(h, 3) = <<b>> /\ Len(CString(h, 3)) = 1
         /\ CString(h, 5) = <<c>> /\ Len(CString(h, 5)) = 1
    BY <2>9, <2>11, NumbersAreRead
  <2>13. PICK strptr :
           strptr = Len(CString(h, 1)) + Len(CString(h, 3)) + Len(CString(h, 5)) + Len(word) + 4
    OBVIOUS
  <2>14. parsed = [total_frag |-> atoi(CString(h, 1)), frag_no |-> atoi(CString(h, 3)),
                   size |-> atoi(CString(h, 5)), filename |-> word,
                   filedata |-> SubSeq(h, strptr + 1, strptr + atoi(CString(h, 5)))]
    <3>2. PICK first, second, third, fourth :
            /\ first = FirstCall(f) /\ second = SecondCall(f)
            /\ third = ThirdCall(f) /\ fourth = FourthCall(f)
      OBVIOUS
    <3>3. /\ first = Strtok(f, 1, {Colon}) /\ second = NextCall(first)
          /\ third = NextCall(second) /\ fourth = NextCall(third)
      BY <3>2, Zenon DEF FirstCall, SecondCall, ThirdCall, FourthCall
    <3>4. formatString(f) =
            [total_frag |-> atoi(CString(fourth.text, first.token)),
             frag_no    |-> atoi(CString(fourth.text, second.token)),
             size       |-> atoi(CString(fourth.text, third.token)),
             filename   |-> CString(fourth.text, fourth.token),
             filedata   |-> LET at == Len(CString(fourth.text, first.token))
                                        + Len(CString(fourth.text, second.token))
                                        + Len(CString(fourth.text, third.token))
                                        + Len(CString(fourth.text, fourth.token)) + 4
                            IN  SubSeq(fourth.text, at + 1,
                                       at + atoi(CString(fourth.text, third.token)))]
      BY <3>3, Zenon DEF formatString
    <3>5. /\ first.token = 1 /\ second.token = 3 /\ third.token = 5
          /\ h = fourth.text /\ word = CString(h, fourth.token)
      BY <2>10, <2>11, <3>2, Zenon
    <3> QED BY <2>8, <2>13, <3>4, <3>5, Zenon
  <2>15. /\ atoi(CString(h, 1)) = NumFrags /\ atoi(CString(h, 3)) = made
         /\ atoi(CString(h, 5)) = l
    <3>1. CString(h, 1) = Digits(NumFrags) /\ CString(h, 3) = Digits(made) /\ CString(h, 5) = Digits(l)
      BY <2>7, <2>12 DEF Digits
    <3> QED BY <2>6, <3>1, NumbersAreConverted, Zenon
  <2>16. ASSUME Colon \notin ToSet(filename)
         PROVE  parsed.filename = filename /\ parsed.filedata = filedata
    <3>1. IsWhole(filename, n)
      BY <2>3, <2>4, <2>5, <2>16 DEF ToSet, IsWhole
    <3>2. word = filename /\ SubSeq(h, 8 + n, 7 + n + l) = filedata
      <4>1. PICK k \in Nat \ {0} : k = n
        BY <2>5
      <4>2. IsWhole(filename, k) /\ IsFragment(f, a, b, c, filename, filedata, k, l)
        BY <2>9, <3>1, <4>1
      <4>3. word = filename /\ SubSeq(h, 8 + k, 7 + k + l) = filedata
        BY <2>3, <2>4, <2>11, <4>2, NameIsRead
      <4> QED BY <4>1, <4>3
    <3>3. strptr = 7 + n
      <4>1. Len(word) = n
        BY <2>4, <3>2, Zenon
      <4>2. strptr = 1 + 1 + 1 + n + 4
        BY <2>12, <2>13, <4>1, Zenon
      <4> QED BY <4>2
    <3>4. strptr + 1 = 8 + n /\ strptr + l = 7 + n + l
      BY <3>3
    <3>5. parsed.filename = word /\ parsed.filedata = SubSeq(h, strptr + 1, strptr + l)
      BY <2>14, <2>15
    <3> QED BY <3>2, <3>4, <3>5, Zenon
  <2>17. parsed.total_frag = NumFrags /\ parsed.frag_no = made /\ parsed.size = l
    BY <2>14, <2>15
  <2> QED BY <2>4, <2>16, <2>17
<1> QED BY <1>1, ComponentsRun, FragmentTypes, PTL

=============================================================================
