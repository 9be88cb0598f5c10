# Verification of the ECE361 labs

Two programs live in this repository: a file transfer over UDP (`deliver.c`,
`server.c`, `packet.h`) and a text conference over TCP (`TextConferencing/`).
This directory holds TLA+ models of them, the TLC runs that check the models on
small instances, and TLAPS proofs about them for all instances.

    tlc -workers 2 -config FileTransferLossy.cfg FileTransfer
    tlc -workers 2 -config Delivery.cfg MCDelivery
    tlapm ConfServerProofs.tla

## 1. Inventory

### File transfer

| part | state | operations | talks to |
|---|---|---|---|
| client, `deliver.c` `main` | loop index `packNo`, `send_count`, `istimeout`, receive buffer `buf`, RTT estimate and timer | send "ftp" (86-96), take the answer (99-117), send a fragment (159-170), wait for "ACK" (172-207), time out and resend or give up (174-188), adjust the timer (208-225) | the server, by datagrams |
| server, `server.c` `main` | `curr_packet`, the output file | answer the first datagram (68-95), then per datagram: parse, write and ACK, or NACK (102-145) | the client, by datagrams |
| fragmentation, `packet.h` `fragment_this` | the position in the file | number of fragments, size and contents of each (119-174) | called by the client |
| codec, `packet.h` `formatPacket`, `formatString` | `strtok`'s static position | fields separated by ':' (59-115) | both sides |

What is hard here: answers carry no number, so lost, late and duplicated ones
are told apart by nothing; the server never acknowledges a fragment twice; the
client's buffer survives from one answer to the next; attempts are counted
across a decrement of the loop index; sizes at multiples of 1000.

What makes it correct: the client counts no acknowledgement the server did not
give; "transmission done!" means the copy is complete; the copy only ever grows
in order; the client always ends.

### Text conference

| part | state | operations | talks to |
|---|---|---|---|
| `server.c` `main` | `userCount`, the accounts | accept a connection, count it, start its thread; close when `accept` times out and nobody is counted (692-712) | threads |
| `server.c` `message_handler`, one thread per connection | `newUser`, `isLogin`, `exited`, `istimeout` | LOGIN, EXIT, JOIN, LEAVE_SESS (one, "all"), NEW_SESS, MESSAGE, INVITE, QUERY, the end (48-581) | other threads through the lists; other clients through their descriptors |
| lists, `message.h` | `user_list`, `session_list`, a user list per session | addUser, addSession, five searches, three removals (72-287) | under `users_lock` and `sessions_lock` when changed, under no lock when read |
| codec, `message.h` `formatMessage`, `formatString` | `strtok`'s static position, shared by all threads | (409-463) | both sides |
| client, `client.c` | `sockfd`, one shared `buff`, `invited`, `is_timeout` | commands (530-627) and a receiving thread (68-139) | the server |

What is hard here: lists read without the lock that protects them; a session
found and used later; nodes found by descriptor and removed by name;
descriptors closed before the lists are cleaned and reused by the next
connection; several ways for a thread to end, not all of which clean up; and
one failing `send` that ends the process.

In the client two threads share a buffer without a lock, a descriptor variable
that a login overwrites while the last login's thread may still run, and an
invitation that is printed in one step, noted in another, and answered from a
flag read without the lock.

What makes it correct: the session lists, the user list, the descriptors and
the count agree with each other whatever sequence of requests has run; a
broadcast reaches every member; every request ends; the server closes when, and
only when, nobody is connected. A client's login gets its own answer, a yes
joins the session on the screen, and after a TIMEOUT the program can be left. A
message is parsed as it was formatted.

`PROJECT.json` lists every hazard at its line with the properties that watch it.

## 2. Modules

    FileCopy            the abstract promise of the transfer
    FileTransfer        client, server and network; implements FileCopy
    FileTransferProofs  its invariant, and the refinement, proved
    Fragmentation       fragment_this and the size of the copy
    MCFragmentation     file sizes for TLC
    RttEstimator        the round-trip estimate and the timer made from it
    Strtok              strtok() on texts, used by both codecs
    StrtokProofs        what it does with texts of any length, proved
    PacketCodec         a fragment as text and back
    Delivery            FileTransfer, Fragmentation, RttEstimator and
                        PacketCodec composed
    DeliveryProofs      fragments, timer, composition, the copy and the text
                        of a fragment, proved
    MCDelivery          file sizes, names and contents for TLC
    ConfServer          the conferencing server, thread by thread
    MCConfServer        symmetry for TLC
    ConfServerTypes     what each list operation returns; the types, proved
    ConfServerProofs    count, clean-up, names and number of users, proved
    ConfServerMembers   descriptors, listed users, members, answers and
                        broadcasts, proved
    ConfClient          the conferencing client, both threads, and its server
    ConfClientProofs    lock, logins, types, the end after a TIMEOUT, proved
    MessageCodec        messages as text, parsed by threads that share strtok
    MessageCodecProofs  what is parsed alone, and what no mixing does, proved
    MCMessageCodec      texts and symmetry for TLC

Operators whose names end in `Mutant` are plausible mistakes in the operator
that follows them. They are not part of any specification; putting one in place
of its original makes TLC report the property it is meant for, which shows that
the property can fail.

### FileTransfer

`cpc` and `spc` say where the two `main` functions are; `packNo`, `sendCount`,
`currPacket` are the variables of the code, and `written` is the sequence of
fragment numbers given to `fwrite` since the last `fopen`. The network holds a
number of copies of each datagram, so delivery is in any order. Losses and
duplications are bounded per direction by `MaxLoss` and `MaxDup`, nothing else
is.

| action | code |
|---|---|
| RequestTransfer, RecvReply | `deliver.c` 86-117; "no" does not stop the transfer (115-117), so RecvReply does not look at the answer |
| SendFragment | 159-170, with the `memset` that clears the residue |
| RecvAck | 190-193 and the end of the loop body; past the last fragment, "done" |
| RecvIgnored | any answer that `strcmp` does not take for "ACK" |
| RecvTimeout | 174-188: count, give up, or go back for the same fragment |
| AnswerRequest | `server.c` 68-95 |
| AcceptFragment, RefuseFragment | 113-135 and 136-142 |
| ParseStrayRequest | `formatString` on "ftp": NULL from `strtok`, then `atoi` |
| Lose, Duplicate | the network |

`residue` abstracts the buffer: the only thing an earlier answer can change is
the fourth character, 'K' after "NACK". With `IoErrors` every system call whose
failure the code checks may fail and end its program. A datagram for a closed
socket is dropped (`Listening`).

Time is left out. A receive timer that is armed may fire at any moment: this
covers every value the estimator may compute, except the two at its ends (0
switches the timer off, a million microseconds is refused), which are the subject
of RttEstimator. `Prompt` restricts it to moments when no datagram is under way,
which is what a timer longer than the round trip means.

### Fragmentation

One step per iteration of the loop in `fragment_this`, with the bytes the server
will write for the fragment. C's `%` on the -1 of an empty file is in
`LastSize`.

### RttEstimator

The two statistics and `timeout.tv_usec`, in ticks of `clock()`. On Linux a tick
is a microsecond of CPU time, so `Sample` is small and may be 0. The doubles of
the code are exact on these values (the weights are powers of two) and are cut
to whole ticks when stored, which `\div` does. `TimerInBounds` gives the timer
its two bounds in terms of the samples: if every sample is at least one tick the
timer is never switched off, and if every sample is below 100000 it is never
refused. A sample of 0 is outside the first of these: the estimate can then fall
to 0 with the deviation, and a lost datagram would block the client for ever. The
code does not exclude that, and no property says it does.

### PacketCodec and Strtok

`Strtok` is the library function by what it does: skip delimiters, end the token
with a zero, go on behind it. A number is one character and the separator is a
colon, which is all `strtok` looks at, so a file name may contain the separator
and the data anything, zeros included. `formatPacket` writes the digits of a number
and `atoi` converts them back, the size that says how much data to copy among
them; `NumbersAssumption` says that different numbers have different digits. A
colon in the name loses data; `FragmentIsKept` says so.

### Delivery

The whole program: after its answer to "ftp" the client cuts the file (`Cut`, one
fragment a step), then every step of FileTransfer is taken `WithTimer`: sending
needs the fragments, a timeout needs a timer that is not 0, and a turn of the
loop that ends in an acknowledgement or a timeout adjusts the timer. A file whose
number of fragments is not `NumFrag` is cut and then left alone, so that one
instance looks at all sizes and sends the ones of the right length.

### ConfServer

`pc[t]` is where thread `t` is in `message_handler`; a list is a sequence of
nodes `<<owner, number, name, sockfd>>`. Name and descriptor are what the code
compares; owner and number are the node's address. Removing a node frees it:
pointers (`ptr`, `sess`) can outlive it, and what the code does through such a
pointer is in the model: a cleared `next`, which ends a broadcast (Ahead), a node
added to a freed session (JoinLink), a removal from one, which takes a node out,
finds nothing or crashes (RemoveFound).

A session is freed by name, so when two have one name the first is freed though
the last user has left the other one (`removeSession`). Its users stay linked to
one another: a broadcast that is on its way through it goes on, along `rest[t]`, the
nodes still ahead of it. `raced` remembers the names of which two threads
have made a session at once, for as long as one of these is listed: `newLink` is
where a thread has looked and not yet linked.

A step is what a thread does between two points where another thread matters:
receive a request and look a list up without a lock; take a lock and walk to
the tail (LoginWalk, JoinWalk); link the node, release the lock and answer
(LoginLink, JoinLink). Removals are one step under their lock, as the walk is
inside it. A broadcast is one step per member, since it is not locked. NewLink
takes two locks in turn, the first for a list nobody else can see yet.

| actions | `server.c` |
|---|---|
| Accept, AcceptTimeout | 692-715 |
| LoginRequest, LoginWalk, LoginLink, RefuseLogin | 89-160 |
| JoinRequest, JoinWalk, JoinLink | 178-222 |
| LeaveRequest, Leave, AnswerLeave | 238-272 |
| LeaveAllRequest, LeaveFind, LeaveAll | 228-237 |
| NewRequest, NewLink | 273-325 |
| MessageRequest, Broadcast | 326-407 |
| InviteRequest, Invite, Query | 409-541 |
| ExitRequest, Disconnect, RecvFails | 73-80, 161-177, 542-555 |
| Close, Unlist, PurgeFind, Purge, Uncount | 556-580 |
| PeerCloses | the client's end of the connection |

`Answer` is the `send` at the end of a request. With `Resets` a peer may reset
the connection; then the send fails, which the code logs, or answers with
`exit(1)`, or by leaving the thread (`return 0`), depending on the request, or
SIGPIPE, which nothing blocks, ends the process.

Three switches say how hostile the environment is. `Overlap`: requests of
different connections interleave, as the threads of the server let them.
`Resets`: which connections may be reset. `SharedAccounts`: the connections that may
log in to an account that is in use. Every safety property is checked with
`Overlap`; only the liveness run (`conf_live`) and the two runs that end in a
violation, which need no interleaving to show theirs, do without: there a
connection is served while the others wait for a request, and an ended connection
is cleaned up before the next request comes.

What the interleaved properties concede is in their formulas. `SessionNamesUnique`
and `SessionsHaveUsers` leave out the names in `raced`: two NEW_SESS of a name, each
past its look (275) when the other links, do make two sessions of it.
`AnswersAreTrue` leaves out a JOIN whose session was freed while its thread waited
for the lock (188-206): it is told JN_ACK for a session nobody can find.
`EveryMemberHears` leaves out a walk that ends because the node it had come to was
removed (`message.h` 269), and whoever leaves or disconnects. `MembersAreConnected`
leaves out nobody, but a thread that has closed its connection and is still taking
itself out of the lists.

### ConfClient

`pc` is where `main` is and `thread[n]` where the receiving thread of the n-th
login is. `sockfd`, `buff`, `invited`, `invitedSession` and `isTimeout` are the
variables of the code. `inbound[n]` is the stream from the server to login n and
`srv[n]` the server's end of it; `announced`, `late` and `heard` only remember.

| actions | `client.c` |
|---|---|
| Fgets, Look | 544-556 |
| AcceptReq, SendJoin, DropInvitation | 37-66 and 556-564 |
| quit | 453-475, 566-569, 606-609 |
| Login, LoginFails, LoginRecv, LoginRecvEnd | 142-272 |
| Logout, SendExit | 274-304 |
| joinsession, leavesession, createsession, list, invite, sendMsg, Send, StrayAnswer, NoWord | 306-508, 572-573, 615-622 |
| Recv, RecvFails, Parse, Announce, Note | 68-139 |
| Cancelled | `pthread_cancel`, acted on in `recv` or `printf` |
| ServerAnswersLogin, ServerSends, ServerTimesOut, ServerEnds | what `server.c` may send to it, and its `close` |

Each access of either thread to `buff`, `invited` and `sockfd` is in a step of its
own, so a text that arrives replaces a line between `fgets` and its use, or a
request between `formatMessage` and `send`; padding that arrives may empty a line
that was tested for emptiness, and `strlen(NULL)` ends the process (NoWord). The exception is the look-up of a
command together with the reading of its argument, both `strtok` on the same
line. What the arguments are is left open: a command is refused, or its request
is sent. The server's n-th message, if it is an invitation, is to session n, so
that two invitations differ. `REQUEST` stands for the requests the receiving
thread ignores when it finds one in the buffer.

The stream is made of texts, each with the zero behind it, and pieces of padding. The
server sends 1099 bytes, or 4095 for an INVITE (`server.c` 445), of which only the
text is looked at; the rest arrives in up to `MaxPieces` pieces. The padding of an
INVITE is whatever lies on the server's stack behind the buffer: a piece of it is
taken for an empty text or for none that means anything (`Stack`). `recv` takes 4095
bytes at most (Fits), so several texts may be taken at once, and only the one in
front is looked at. A cut between a text and its padding, and inside the padding, is
in the model; one inside a text is not. A thread of the server that closes first
sends a TIMEOUT or LO_NACK (`srv` "ending"), and until it has closed the other
threads may send to the same descriptor; they may even before the login is answered,
to the descriptor's last user.

Where the code uses a pointer that is not set (282, 495-496, 83
after a NULL) the process may end.

### MessageCodec

One step per call of `strtok` by a thread of the server: the four calls of
`formatString`, and the two by which the MESSAGE branch takes the session and the
text from the data (TargetSession, TextOf: `server.c` 332, 334). `memory` holds each
thread's buffer and the data of its last MESSAGE; a pointer is a place and a
position in it, and the position of `strtok` is one for all. The four pointers of a
parse are read when the fields are copied, in the last step, so that a cut made by
another thread in between shows. `mixed` holds the parses during which any other
thread has called `strtok`, from either place. `ParsedAloneIsKept` holds of the
others; a mixed one may return the fields of two messages.

What the property leaves out is wrong, or cannot be: a message without data, whose
source is taken for the data (`message.h` 441-444); a message without a source whose
data has a colon, where what is before it is taken for the source; and a source with
a colon, where the parser would cut it: a source is the name of an account, the
sender's or the one it invites, and the names that `server.c` knows (615-623) have
none.

## 3. Runs

| run | instance | shows |
|---|---|---|
| `file_lossy` | 3 fragments, 2 resends, 1 loss and 1 duplication each way, timer at any moment, I/O errors | TypeOK, AcksAccounted, DoneMeansDelivered, SafeTransfer, ClientTerminates |
| `delivery` | file sizes within 20 of a multiple of 1000, to 3020; 4 fragments, 3 resends, 3 losses each way, no duplication, Prompt; samples of 1 and 2 ticks; names and contents of up to two characters with colons and zeros | FragmentsTyped, NoByteLost, CopySize, TimerInBounds, DoneMeansCopied, FragmentIsKept, ImplementsFileCopy, DataLossRepaired, HandshakeEnds |
| `file_ack` | 2 fragments, a network without faults, timer at any moment | AckEndsTheWait is violated |
| `fragment_size` | the file sizes of `delivery` | SizeIsSizeOfData is violated |
| `conf_sessions` | 2 connections, 2 accounts, 2 session names, 2 memberships at a time, Overlap | SessionNamesUnique, SessionsHaveUsers, AnswersAreTrue |
| `conf_live` | 2 connections, 2 accounts, 2 names, 3 memberships, no Overlap | EveryRequestFinishes |
| `conf_overlap` | 2 connections, 2 accounts that may be shared, 1 name, 2 memberships, Overlap, either connection may be reset | TypeOK, MembersAreConnected, CountCoversConnections, ClosedOnlyWhenIdle, UserListIsLoggedIn, EndedLeavesNothing, EveryMemberHears |
| `conf_leave` | as `conf_live`, 2 memberships | LeaveMeansLeft is violated |
| `conf_idle` | the same | IdleServerCloses is violated |
| `conf_client` | 2 logins, 2 messages or invitations, padding in one piece | TypeOK, TimeoutEndsSoon, ReplyNotStolen, YesJoinsAnnounced, LineIsWorkedOff |
| `client_enter` | 1 login, otherwise the same | EnterQuits is violated |
| `codec` | 2 threads, 3 texts received, with and without a source, data empty, plain, with a colon and a comma, nothing but a colon | ParsedAloneIsKept, NeverTakenForNull |

Deadlock checking is off everywhere because every one of these programs may
stop: a transfer ends, or waits for ever for an answer to "ftp"; a fragmented
file is finished; a server is closed when the last client is gone; a client
quits.

Why the bounds are enough. Three fragments have a first, a middle and a last
one, and the protocol looks at nothing but equality with the next. With one
loss and one duplication each way and timers at any moment, resends, stale
NACKs, reordering and giving up all occur; `delivery` allows as many losses
as there are resends, which is where the limit decides. Sizes matter modulo
1000 only, and 3020 includes three multiples; its lengths of one to three
fragments are cut, and those of four are cut and sent. In the conference, two
connections are enough to share an account, to make a session twice at once, to
free one that is about to be joined or is being broadcast to, to fight for a lock,
and for one of them to get the descriptor the other has just closed; two
memberships allow a double one, one user in two sessions, and two members of one.
What the two runs with `Overlap` check of two is proved for any number, among them
the broadcasts with somebody before, at and after the sender. `MaxNodes`
counts memberships at a time: a JOIN or NEW_SESS beyond it is not tried. Two
logins are one whose thread outlives it and one it may disturb; two messages
allow a second invitation over a pending one. Two threads are enough to mix two
parses, and three texts let one of them parse once more beside the other, after a
MESSAGE whose data is taken apart later or before it.
`MCConfServer!Symmetry` permutes accounts and session names, which no
definition tells apart; connections and descriptors are ordered and are not
permuted; `MCMessageCodec` permutes its threads. The runs with liveness use no
symmetry.

Fairness. `FileTransfer!FairSpec`: weak fairness of each program's steps. Both
are plain loops around `recvfrom`; the client's has a timer, so it returns in
the end; nothing is assumed of losses. `Delivery!DeliverySpec`: the
same, with the cutting of the file part of the client. `ConfServer!FairSpec`: each
thread of its own accord (`Work`) keeps going, and `accept` times out when nobody
connects; no client is ever assumed to send or to close. `ConfClient!FairSpec`:
`main` works on (`Work`) and a thread that holds `invite_lock` gets on to release it
(`Note`), as a thread that can run does in the end; the user is not assumed to type,
nor the server to answer, so `LineIsWorkedOff` lets a login wait.

### What the violations show

- `file_ack`: a NACK leaves its 'K' in the buffer, and the ACK read after it is
  not recognised (`deliver.c` 170, 190, against the comment in line 136). The
  client waits for its timer and resends what was acknowledged; the server
  refuses that, and the transfer fails although all was well.
- `fragment_size`: a file of k * 1000 bytes gets a fragment more, of size 1000
  and without data; the copy is 1000 zero bytes longer (`packet.h` 8-9 against
  128 and 156).
- `conf_leave`: after joining twice, LEAVE_SESS is acknowledged and the user is
  still a member (`server.c` 206, `message.h` 261, against line 44 of the design
  document).
- `conf_idle`: `userCount` is not lowered for a connection that never logged in
  (`server.c` 569-571), and the server does not close when idle, as line 17 of
  the design document says it does.

- `client_enter`: an empty line is skipped before `is_timeout` is looked at
  (`client.c` 553-555), so Enter does not quit after a TIMEOUT, against line 130.

What `conf_client` says of the same end: `TimeoutEndsSoon` bounds the lines that
are typed in vain, and the bound has a term for each login that was ended, since its
thread may still leave an invitation behind, and one for each `recv` after the
TIMEOUT (`heard`), which may bring an invitation or overwrite a line. Such a `recv`
needs a cancelled thread that took the TIMEOUT in the new login's place, which the
property says too. `LineIsWorkedOff` has an exception as well: a thread cancelled in
the `printf` of line 113 takes `invite_lock` with it.

`YesJoinsAnnounced` says what is sent for a yes at `client.c` 61: the JOIN of the
session printed last, or, since `buff` is shared and the receiving thread's `recv`
takes no lock, one of the server's texts that has arrived over it since line 59.

## 4. Proofs

### The transfer

For every value of the constants that satisfies `ConstantsAssumption`:

- `TransferIsSafe`: `SafeTransfer` is an invariant. It is the inductive one:
  `AcksAccounted` alone is not inductive, since a step that reads an ACK must
  know that the client is not past the last fragment (`ClientProgress`), and a
  step that writes must know that the file holds exactly the fragments before
  `currPacket` (`ServerProgress`, `InOrder`). One lemma per process
  (ClientStepSafe, ServerStepSafe, NetworkStepSafe) covers its actions one by
  one; WriteInOrder says what the server's write does to its file.
- `TransferTypes`, `ClientNeverAhead`: parts of it.
- `TransferIsHonest`: `DoneMeansDelivered`. When the client is done it has counted
  NumFrag acknowledgements; without duplicated answers that is at most `Acked`,
  so the server has accepted the last fragment, and its file is complete and in
  order.
- `TransferImplementsCopy`: with `MaxDup = 0`, the transfer implements
  `FileCopy`. The assumption is needed: a duplicated ACK lets the client report
  an incomplete copy, as `DoneMeansDelivered` concedes.
- `FragmentTypes`, `NothingLost`, `CopiedSize`: the facts about fragmentation, for
  every set of file sizes.
- `TimerStaysInBounds`: for every range of samples. Its invariant bounds the
  estimate and the deviation by twice the longest sample each, which both
  weighted means keep (`MeanInBounds`, `DeviationInBounds`); four deviations and an
  estimate are then ten samples.
- `DeliveryIsSafe`, `DeliveryImplementsCopy`: every step of Delivery is a step, or
  none, of each of its three components (`StepsAreTheirs`), so Delivery implements
  each of them, and what is proved of them holds of the whole program. The last one
  adds the timer and the cutting to `TransferImplementsCopy`.
- `DoneIsCopied`: `DoneMeansCopied`, which joins the two halves of the program.
  `OnlyMadeAreSent` (nothing is sent before the file is cut, and then as many
  fragments as were made) carries the client's number of fragments over to the
  server, whose file is in order by `SafeTransfer`. The length of that file is a
  recursive function; `BytesOfAll` shows that there is one such function, from its
  closed form, and that it agrees with that form, from a smallest number where it
  would not.
- `FragmentsAreRead`: `FragmentIsKept`, for names and data of any length, provided
  `TextsAssumption`: a name has a character that is not a colon and no zero (an
  empty field does not exist for `strtok`, and the name is a C string), and
  `NumbersAssumption`: a number is written with neither, and no two alike
  (NumbersAreConverted). The lemmas of StrtokProofs say what a token is and where
  the next call goes on; NumbersAreTaken and NameIsRead follow the four calls.

### The conferencing server

For any number of threads, accounts, names, descriptors and memberships, that is
for every value of the constants that satisfies `ConfServer!ConstantsAssumption`
(connections are finitely many and numbered; `NoOne` is none of the things it is
the absence of), and, unless said otherwise, for every interleaving.

- `TypesAreKept`. ConfServerTypes first says what each list operation of
  `message.h` returns and keeps (section "Lists"), then proves `TypeInv`: `TypeOK`
  together with what is known at each place of the program, that a thread at work
  on a request has a name, that one with a connection has a descriptor. The bound
  of `userCount` is not a matter of types and comes from `CountInv`.
- `NobodyIsUncounted`, `NobodyIsCutOff`: `CountInv` keeps `userCount` between the
  connections that live and those that were accepted. A count that is too high is
  allowed, as `IdleServerCloses` shows it has to be.
- `NothingIsLeft`: `LeftInv` says that every node in every session belongs to a
  login whose thread has its clean-up still before it, and carries the descriptor
  that clean-up searches for. The clean-up ends only when its search finds
  nothing, so nothing of it is left.
- `NamesStayUnique`, `NoSessionIsEmpty`: `NamesInv` joins the two, since one is kept
  by the other: a session is freed by name, the right one only if the name has one.
  `PendingIsRaced` says that a name which a thread has found free and is about to link
  is listed only if it is in `raced`.
- `ListMatchesLogins`: `UsersInv` says that the holder of `users_lock` is the thread
  between its walk and its link, and its walk still ends where the list ends; that a
  thread gets into the list once; and that every account has as many nodes in the
  list as it has logins in effect. Removal takes the first node of the name,
  perhaps another login's, but exactly one. This is the one property of the lists
  that survives both overlap and shared accounts.

ConfServerMembers goes on from there, from whose login a node is to whom it
reaches:

- `DescriptorsAreTheirs`: `HeldInv`, an open connection has its descriptor to
  itself. Every interleaving.
- `UsersAreListed`: `ListInv`, one login to an account, each login in effect has its
  node in `user_list`, and each node is its login's. Every interleaving, but
  `SharedAccounts = {}`: with two logins to one account the end of one takes
  the node of the other.
- `ListsAreKept`: `ListsInv`, no session id and no node of a session is doubled, and
  `JoinInv`, a JOIN that holds `sessions_lock` knows the end of the list it will link
  to, since every change of a session is made under that lock.
- `AnswersHold`: `AnswersAreTrue`, from these two and from `LeftInv`. Every interleaving,
  shared accounts, resets.
- `MembersHear`: `EveryMemberHears`. `HeardInv` says that of those a broadcast owes its
  message, whoever is still in the session and connected has a node at `ptr` or behind
  it, as long as the node at `ptr` is in the list: new nodes are linked at the end
  and removals keep the order. `DescriptorsAreTheirs` turns a node's descriptor into its
  owner. Every interleaving, shared accounts, resets, and sessions of any number of
  users.
- `MembersStayConnected`: `MembersAreConnected`. `LeftInv` gives the owner of a node and
  its descriptor, `HeldInv` the descriptor to the owner, `UsersInv` a node of the
  account in the list. Every interleaving, shared accounts, resets.

### The conferencing client

For any number of logins and messages.

- `YesJoinsWhatIsPrinted`: `LockInv` follows `invite_lock`: while a thread is
  between printing and noting an invitation it holds the lock and its `proposal` is what
  was printed; whenever the lock is free or `main`'s, the noted session is the printed
  one. It holds although a cancelled thread may die with the lock, since then
  nobody gets it any more. `JoinInBuff` adds what `buff` holds from the formatting to
  the `send`: the JOIN, or what a `recv` has put there.
- `RepliesAreNotStolen`: `LoginInv` says that the answer to a login comes once on its
  connection and is gone before the login has a thread, and that an uncancelled thread
  is the one of the connection `main` uses.
- `TypesAreKept`: `TypeInv` adds to `TypeOK` that the session of an invitation, on its
  way, in the buffer, printed or noted, is one the server has named.
- `LinesAreCounted`, `TimeoutEndsIt`: `TimeoutEndsSoon` is not inductive, since it counts
  only the lines typed so far. `LinesCounted` counts those that may follow too: one
  for a pending invitation, the next one unless a line is being worked off, and one
  for each thread that may still leave an invitation (`Inviting`). Of all these there
  are at most two, one for each cancelled thread and one for each `recv` since. A
  `recv` after the TIMEOUT pays for what it brings: an invitation, or a line it
  overwrites. Nothing is assumed of what the server sends behind the TIMEOUT. That such
  a `recv` needs a cancelled thread follows from `LoginInv`: the thread that took the
  TIMEOUT has ended, and one that runs uncancelled would have to be the same.

### The conferencing codec

For any number of threads and texts of any length, that satisfy
`TextsAssumption` (no zero in a text).

- `BeginningsAreKept`, `NeverNull`: every interleaving. `CutInv` says that wherever
  `strtok` goes on, it is behind the first two fields of the text it is in, or
  right at the second, so that a text that was just received begins as it came, with
  two fields and their separators: more than the three characters that are taken
  for NULL.
- `OwnCallsAreKept`, `ParsedAlone`: a parse that is not in `mixed` is where its own
  calls would have brought it (`CallNo1` to `CallNo4`, one function call after
  another), although others have called `strtok` before it and may be half-way in
  texts and in MESSAGEs of their own. What these calls return is then a matter of `Strtok` alone
  (TwoFieldsAreTaken, SourceAndDataAreTaken, DataAloneIsTaken).

StrtokProofs says what both codecs need of `strtok`: that it cuts no more than the
first delimiter behind a token, what the token is, and where it goes on. It
contains no theorem of its own to list; sentences about a recursive definition of
`strtok` would be out of the prover's reach, which is why `Strtok` describes it by
positions.

### Checked by TLC only

Every invariant and every action property of a passing run is now a theorem, and
so is the refinement. What is left to TLC is liveness: `ClientTerminates`,
`DataLossRepaired`, `HandshakeEnds`, `EveryRequestFinishes` and `LineIsWorkedOff` rest on
fairness, hence on ENABLED, which the prover does not reason about. The five
properties that are expected to fail have counterexamples and no proofs.

What the theorems do not say: none of those about the server assumes that its
requests take turns, but each has its exceptions in its formula (section 2), and
these are the races its code has. `UsersAreListed` assumes that no account is used
twice. That a request is worked off (`EveryRequestFinishes`) is checked only
where requests take turns and no account is shared; with either, the loops that find
by descriptor and remove by name may never end. `DataLossRepaired` relies on
`Prompt`, which the client's timer, computed from CPU time (`deliver.c` 212), does not
guarantee. `ClosedOnlyWhenIdle` speaks of `main`'s own close, not of an `exit(1)` in
a thread or of SIGPIPE, either of which ends the server under its clients.

## 5. Not modelled

- The stream from a client to the server: a request reaches the server whole and
  alone, though `server.c` reads 1099 bytes of a client's 4095 at a time.
- What a parse that was mixed with another returns, inside ConfServer: there a
  request is parsed in one step. MessageCodec is where the mixing is looked at.
- Memory: buffer lengths, leaks, and what freed memory is reused for. A pointer
  to a freed node or session leads to what it held: a broadcast in a freed session
  goes on along its nodes, unless the node it is at is freed as well, whose `next`
  is NULL.
- What the server's file holds if it is killed before `fclose`; a first datagram
  that fills the server's buffer.
- The values of a clock: a sample is any number in a range. The one taken after a
  "no", from a variable that was never set, is in the same range.
- The text of the answers, and the lists as printed by QUERY.
- `print*`, which only print; `sendToPeers`, `initSession`, `list_init`, which
  nothing calls; the `_EXAMPLE.c` files, build files and binaries.

## 6. Plan

1. *Done:* FileCopy, FileTransfer and Fragmentation with proofs; ConfServer with
   its runs.
2. *Done:* ConfClient, with the lock of invitations and the logins proved.
3. *Done:* RttEstimator with its proof, PacketCodec, and Delivery, which composes
   them with the transfer.
4. *Done:* MessageCodec, with the `strtok` position the threads share.
5. *Done:* proofs about ConfServer: types, count, clean-up, names, and the list of
   users under every interleaving.
6. *Done:* `MembersAreConnected` and the other properties of sessions one request at a time, the
   end after a TIMEOUT, both codecs, and the size of the copy as theorems.
7. *Done:* the properties of sessions, answers and broadcasts stated, checked and
   proved for every interleaving, with the races as their exceptions.
8. Open: which of the exceptions would go with one change of the locking.
9. Open: ConfServer and ConfClient composed over a stream of bytes. The product of
   the two is out of TLC's reach at the sizes where it would say more than the
   parts.
