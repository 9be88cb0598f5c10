---------------------------- MODULE FileTransfer ----------------------------
(***************************************************************************)
(* The stop-and-wait file transfer over UDP: main() of deliver.c (client)  *)
(* and main() of server.c (server), both with packet.h.                    *)
(*                                                                         *)
(* The client asks with "ftp", gets "yes" or "no", cuts the file into      *)
(* NumFrag fragments and sends them one at a time.  The server writes a    *)
(* fragment and answers "ACK" when its number is the one it waits for, and *)
(* answers "NACK" otherwise.  The answers carry no number.                 *)
(*                                                                         *)
(* Abstractions: a fragment is its number and its contents are left out    *)
(* (Fragmentation.tla has the sizes).  A datagram in flight is a count of  *)
(* copies, so the network may reorder as it likes; it may also lose and    *)
(* duplicate, up to MaxLoss and MaxDup datagrams per direction.  Time is   *)
(* left out: an armed receive timer may fire at any moment, or, when       *)
(* Prompt holds, only when no datagram is on its way.                      *)
(***************************************************************************)
EXTENDS Naturals, Sequences

CONSTANTS
  NumFrag,        \* numFrag, deliver.c:139, at least one
  AttemptLimit,   \* ATTEMPT_LIMIT, deliver.c:18
  MaxLoss,        \* bound: datagrams lost in each direction
  MaxDup,         \* bound: datagrams duplicated in each direction
  Prompt,         \* the receive timer outlasts every round trip
  IoErrors        \* sendto, setsockopt, fopen and fwrite may fail

ASSUME ConstantsAssumption ==
  /\ NumFrag \in Nat \ {0}
  /\ AttemptLimit \in Nat
  /\ MaxLoss \in Nat
  /\ MaxDup \in Nat
  /\ Prompt \in BOOLEAN
  /\ IoErrors \in BOOLEAN

VARIABLES
  cpc,        \* where the client is
  packNo,     \* the client's loop index: fragments it takes as acknowledged
  sendCount,  \* send_count: timeouts in a row for the current fragment
  residue,    \* buf[3] holds the 'K' of a "NACK" read since the last memset
  spc,        \* where the server is
  currPacket, \* curr_packet: the fragment number the server waits for
  written,    \* fragment numbers in the server's output file, in order
  toServer,   \* copies in flight: 0 is the "ftp" request, k is fragment k
  toClient,   \* copies in flight of each answer
  lost,       \* datagrams lost so far in each direction
  dup         \* datagrams duplicated so far in each direction

client  == <<cpc, packNo, sendCount, residue>>
server  == <<spc, currPacket, written>>
network == <<toServer, toClient, lost, dup>>
vars    == <<client, server, network>>

Request   == 0
Fragment  == 1 .. NumFrag
Answer    == {"yes", "no", "ACK", "NACK"}
Direction == {"toServer", "toClient"}

TypeOK ==
  /\ cpc \in {"start", "handshake", "send", "wait", "done", "failed"}
  /\ packNo \in 0 .. NumFrag
  /\ sendCount \in 0 .. AttemptLimit + 1
  /\ residue \in BOOLEAN
  /\ spc \in {"listen", "recv", "done", "failed", "crashed"}
  /\ currPacket \in Fragment
  /\ written \in Seq(Fragment)
  /\ toServer \in [{Request} \cup Fragment -> Nat]
  /\ toClient \in [Answer -> Nat]
  /\ lost \in [Direction -> 0 .. MaxLoss]
  /\ dup \in [Direction -> 0 .. MaxDup]

Init ==
  /\ cpc = "start"
  /\ packNo = 0
  /\ sendCount = 0
  /\ residue = FALSE
  /\ spc = "listen"
  /\ currPacket = 1
  /\ written = <<>>
  /\ toServer = [k \in {Request} \cup Fragment |-> 0]
  /\ toClient = [a \in Answer |-> 0]
  /\ lost = [d \in Direction |-> 0]
  /\ dup = [d \in Direction |-> 0]

Put(net, d)  == [net EXCEPT ![d] = @ + 1]
Take(net, d) == [net EXCEPT ![d] = @ - 1]

-----------------------------------------------------------------------------
(* The client, deliver.c *)

\* Where the client goes on to, unless the system call it makes on the way
\* fails: every such failure is an exit(1).
ClientGoesTo(next) ==
  \/ cpc' = next
  \/ IoErrors /\ cpc' = "failed"

\* Sends "ftp"; a sendto that fails leaves nothing in flight.
RequestTransfer ==
  /\ cpc = "start"
  /\ ClientGoesTo("handshake")
  /\ toServer' = IF cpc' = "failed" THEN toServer ELSE Put(toServer, Request)
  /\ UNCHANGED <<packNo, sendCount, residue, server, toClient, lost, dup>>

\* The answer to "ftp" is awaited without a timer.  "no" is reported to the
\* user but the transfer is started all the same.
RecvReply(a) ==
  /\ cpc = "handshake"
  /\ toClient[a] > 0
  /\ toClient' = Take(toClient, a)
  /\ ClientGoesTo("send")
  /\ UNCHANGED <<packNo, sendCount, residue, server, toServer, lost, dup>>

\* A datagram for a server that has closed its socket is dropped there.
Listening == spc \in {"listen", "recv"}

\* The attempts forgotten with every send, line 160 not commented out.
SendFragmentMutant ==
  /\ cpc = "send"
  /\ ClientGoesTo("wait")
  /\ toServer' = IF cpc' = "wait" /\ Listening
                 THEN Put(toServer, packNo + 1) ELSE toServer
  /\ residue' = FALSE
  /\ sendCount' = 0
  /\ UNCHANGED <<packNo, server, toClient, lost, dup>>

\* Sends packets[packNo] and clears the receive buffer.
SendFragment ==
  /\ cpc = "send"
  /\ ClientGoesTo("wait")
  /\ toServer' = IF cpc' = "wait" /\ Listening
                 THEN Put(toServer, packNo + 1) ELSE toServer
  /\ residue' = FALSE
  /\ UNCHANGED <<packNo, sendCount, server, toClient, lost, dup>>

\* What strcmp(buf, ACK) finds after reading answer a: a datagram overwrites
\* only its own length, so "ACK" read over "NACK" leaves "ACKK" in buf.
ReadsAsAck(a) == a = "ACK" /\ ~residue

\* The acknowledgement that ends the wait and resets the attempts.
RecvAck(a) ==
  /\ cpc = "wait"
  /\ toClient[a] > 0
  /\ ReadsAsAck(a)
  /\ toClient' = Take(toClient, a)
  /\ packNo' = packNo + 1
  /\ sendCount' = 0
  /\ ClientGoesTo(IF packNo + 1 = NumFrag THEN "done" ELSE "send")
  /\ UNCHANGED <<residue, server, toServer, lost, dup>>

\* Anything else is read and the client goes on waiting for the same fragment.
RecvIgnoredMutant(a) ==
  /\ cpc = "wait"
  /\ toClient[a] > 0
  /\ ~ReadsAsAck(a)
  /\ toClient' = Take(toClient, a)
  /\ residue' = (residue \/ a = "NACK")
  /\ packNo' = packNo + 1
  /\ cpc' = IF packNo + 1 = NumFrag THEN "done" ELSE "send"
  /\ UNCHANGED <<sendCount, server, toServer, lost, dup>>

RecvIgnored(a) ==
  /\ cpc = "wait"
  /\ toClient[a] > 0
  /\ ~ReadsAsAck(a)
  /\ toClient' = Take(toClient, a)
  /\ residue' = (residue \/ a = "NACK")
  /\ UNCHANGED <<cpc, packNo, sendCount, server, toServer, lost, dup>>

\* No datagram that somebody could still read is on its way.
Quiet ==
  /\ Listening => \A k \in DOMAIN toServer : toServer[k] = 0
  /\ \A a \in Answer : toClient[a] = 0

\* The give-up test after the resend is decided, so that nobody ever gives up.
RecvTimeoutMutant ==
  /\ cpc = "wait"
  /\ Prompt => Quiet
  /\ sendCount' = sendCount + 1
  /\ ClientGoesTo("send")
  /\ UNCHANGED <<packNo, residue, server, network>>

\* Giving up one attempt early, >= for >.
RecvTimeoutEarlyMutant ==
  /\ cpc = "wait"
  /\ Prompt => Quiet
  /\ sendCount' = sendCount + 1
  /\ \/ /\ sendCount + 1 >= AttemptLimit
        /\ cpc' = "failed"
     \/ /\ sendCount + 1 < AttemptLimit
        /\ ClientGoesTo("send")
  /\ UNCHANGED <<packNo, residue, server, network>>

\* recvfrom times out: resend, or give up after AttemptLimit resends.
RecvTimeout ==
  /\ cpc = "wait"
  /\ Prompt => Quiet
  /\ sendCount' = sendCount + 1
  /\ \/ /\ sendCount + 1 > AttemptLimit
        /\ cpc' = "failed"
     \/ /\ sendCount + 1 <= AttemptLimit
        /\ ClientGoesTo("send")
  /\ UNCHANGED <<packNo, residue, server, network>>

ClientStep ==
  \/ RequestTransfer
  \/ SendFragment
  \/ RecvTimeout
  \/ \E a \in Answer : RecvReply(a) \/ RecvAck(a) \/ RecvIgnored(a)

-----------------------------------------------------------------------------
(* The server, server.c *)

\* Where the server goes on to and what it answers, unless sendto fails.
ServerAnswers(a, next) ==
  \/ /\ toClient' = Put(toClient, a)
     /\ spc' = next
  \/ /\ IoErrors
     /\ spc' = "failed"
     /\ UNCHANGED toClient

\* The request taken for the first fragment's header, and not answered.
AnswerRequestMutant(k) ==
  /\ spc = "listen"
  /\ toServer[k] > 0
  /\ toServer' = Take(toServer, k)
  /\ spc' = "recv"
  /\ UNCHANGED <<client, currPacket, written, toClient, lost, dup>>

\* The first datagram: "yes" to "ftp", "no" to anything else; the receive
\* loop is entered in both cases.
AnswerRequest(k) ==
  /\ spc = "listen"
  /\ toServer[k] > 0
  /\ toServer' = Take(toServer, k)
  /\ ServerAnswers(IF k = Request THEN "yes" ELSE "no", "recv")
  /\ UNCHANGED <<client, currPacket, written, lost, dup>>

\* fopen with "w" empties the file when fragment 1 is written.
Write(k) == Append(IF k = 1 THEN <<>> ELSE written, k)

\* The loop left before the last fragment is written.
AcceptFragmentMutant(k) ==
  /\ spc = "recv"
  /\ toServer[k] > 0
  /\ k = currPacket
  /\ toServer' = Take(toServer, k)
  /\ written' = IF k = NumFrag THEN written ELSE Write(k)
  /\ ServerAnswers("ACK", IF k = NumFrag THEN "done" ELSE "recv")
  /\ currPacket' = IF spc' = "recv" THEN currPacket + 1 ELSE currPacket
  /\ UNCHANGED <<client, lost, dup>>

\* The fragment the server waits for: write it, acknowledge it, and stop after
\* the last one.  A write or send that fails ends the server.
AcceptFragment(k) ==
  /\ spc = "recv"
  /\ toServer[k] > 0
  /\ k = currPacket
  /\ toServer' = Take(toServer, k)
  /\ \/ /\ written' = Write(k)
        /\ ServerAnswers("ACK", IF k = NumFrag THEN "done" ELSE "recv")
     \/ /\ IoErrors
        /\ spc' = "failed"
        /\ UNCHANGED <<written, toClient>>
  /\ currPacket' = IF spc' = "recv" THEN currPacket + 1 ELSE currPacket
  /\ UNCHANGED <<client, lost, dup>>

\* A duplicate acknowledged again, as a textbook receiver would do.
RefuseFragmentMutant(k) ==
  /\ spc = "recv"
  /\ toServer[k] > 0
  /\ k \notin {Request, currPacket}
  /\ toServer' = Take(toServer, k)
  /\ ServerAnswers("ACK", "recv")
  /\ UNCHANGED <<client, currPacket, written, lost, dup>>

\* Any other fragment is refused, whether it was acknowledged before or not.
RefuseFragment(k) ==
  /\ spc = "recv"
  /\ toServer[k] > 0
  /\ k \notin {Request, currPacket}
  /\ toServer' = Take(toServer, k)
  /\ ServerAnswers("NACK", "recv")
  /\ UNCHANGED <<client, currPacket, written, lost, dup>>

\* A second copy of "ftp" has no ':' in it: strtok returns NULL and atoi and
\* strlen read through it.
ParseStrayRequest ==
  /\ spc = "recv"
  /\ toServer[Request] > 0
  /\ toServer' = Take(toServer, Request)
  /\ spc' = "crashed"
  /\ UNCHANGED <<client, currPacket, written, toClient, lost, dup>>

ServerStep ==
  \/ ParseStrayRequest
  \/ \E k \in {Request} \cup Fragment :
       AnswerRequest(k) \/ AcceptFragment(k) \/ RefuseFragment(k)

-----------------------------------------------------------------------------
(* The network *)

Lose ==
  \/ \E k \in DOMAIN toServer :
       /\ toServer[k] > 0 /\ lost["toServer"] < MaxLoss
       /\ toServer' = Take(toServer, k)
       /\ lost' = Put(lost, "toServer")
       /\ UNCHANGED <<client, server, toClient, dup>>
  \/ \E a \in Answer :
       /\ toClient[a] > 0 /\ lost["toClient"] < MaxLoss
       /\ toClient' = Take(toClient, a)
       /\ lost' = Put(lost, "toClient")
       /\ UNCHANGED <<client, server, toServer, dup>>

Duplicate ==
  \/ \E k \in DOMAIN toServer :
       /\ toServer[k] > 0 /\ dup["toServer"] < MaxDup
       /\ toServer' = Put(toServer, k)
       /\ dup' = Put(dup, "toServer")
       /\ UNCHANGED <<client, server, toClient, lost>>
  \/ \E a \in Answer :
       /\ toClient[a] > 0 /\ dup["toClient"] < MaxDup
       /\ toClient' = Put(toClient, a)
       /\ dup' = Put(dup, "toClient")
       /\ UNCHANGED <<client, server, toServer, lost>>

-----------------------------------------------------------------------------

Next == ClientStep \/ ServerStep \/ Lose \/ Duplicate

Spec == Init /\ [][Next]_vars

\* A process that can run keeps running, a blocked recvfrom with a timer set
\* returns in the end, and a datagram that is not lost is read in the end.
\* Losing and duplicating is never owed.
FairSpec == Spec /\ WF_vars(ClientStep) /\ WF_vars(ServerStep)

-----------------------------------------------------------------------------
(* What the transfer guarantees *)

\* Fragments the server has acknowledged.
Acked == IF spc = "done" THEN NumFrag ELSE currPacket - 1

\* The answers carry no number, so the client counts them: what it has counted
\* and what it may still count never exceeds what the server has accepted and
\* the network has duplicated (deliver.c:190 against server.c:113-141).
AcksAccounted == packNo + toClient["ACK"] <= Acked + dup["toClient"]

\* "transmission done!" (deliver.c:228) is printed only when the server has
\* written every fragment once and in order, unless the network duplicated an
\* answer: then a duplicate acknowledges a fragment the server never saw.
DoneMeansDelivered ==
  cpc = "done" /\ dup["toClient"] = 0 =>
    /\ spc = "done"
    /\ written = [i \in Fragment |-> i]

\* The server writes each fragment once, in order, whatever is lost, duplicated
\* or resent (server.c:113-122).
InOrder == written = [i \in 1 .. Len(written) |-> i]

\* Where the server stands in its file at each point of its program.
ServerProgress ==
  /\ Listening => Len(written) = currPacket - 1
  /\ spc = "done" => Len(written) = NumFrag
  /\ spc \in {"failed", "crashed"} => Len(written) \in {currPacket - 1, currPacket}

\* The client's index is past the last fragment, and its timeouts are past the
\* limit, only when it has finished.
ClientProgress ==
  /\ cpc \in {"start", "handshake", "send", "wait"} =>
       packNo < NumFrag /\ sendCount <= AttemptLimit
  /\ cpc = "done" => packNo = NumFrag

\* The inductive invariant behind the safety properties.
SafeTransfer ==
  TypeOK /\ AcksAccounted /\ InOrder /\ ServerProgress /\ ClientProgress

\* The abstract promise: the copy grows in order and "done" means complete.
FC == INSTANCE FileCopy WITH
        file <- written,
        verdict <- IF cpc \in {"done", "failed"} THEN cpc ELSE "none"

\* With no duplicated answer every step of the two programs is a step of the
\* abstract copy, or leaves it alone.
ImplementsFileCopy == FC!Spec

\* Once it has its answer to "ftp", the client ends: resends are counted up to
\* ATTEMPT_LIMIT (deliver.c:177-181) and NACKs cannot keep it waiting for ever.
ClientTerminates == cpc \in {"send", "wait"} ~> cpc \in {"done", "failed"}

-----------------------------------------------------------------------------
(* What the program says of itself, and the code does not do *)

\* "implement stop-and-wait i.e. don't proceed to until an ACK"
\* (deliver.c:136): reading an ACK ends the wait for the fragment.  The buffer
\* is cleared once per fragment (deliver.c:170) and compared as a whole
\* (deliver.c:190).
AckEndsTheWait ==
  [][cpc = "wait" /\ toClient' = Take(toClient, "ACK") /\ lost' = lost
       => cpc' # "wait"]_vars

=============================================================================
