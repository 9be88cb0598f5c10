--------------------------- MODULE ConfClientProofs ---------------------------
(***************************************************************************)
(* What holds of the conferencing client for any number of logins and of   *)
(* messages.                                                               *)
(***************************************************************************)
EXTENDS ConfClient, FiniteSetTheorems, TLAPS

-----------------------------------------------------------------------------
(* The lock and what it protects *)

\* main() holds invite_lock while it answers, a receiving thread while it notes
\* an invitation that it has printed.
LockHolders ==
  /\ pc = "sendJoin" => inviteLock = Main
  /\ \A n \in Conn : thread[n] = "note" => inviteLock = n

\* Between printing and noting the session of the invitation is in "proposal";
\* otherwise the invitation noted is the one printed, unless its thread has died.
InvitationNoted ==
  /\ inviteLock \in {Free, Main} => invitedSession = announced
  /\ \A n \in Conn : thread[n] = "note" => proposal[n] = announced

Places == {"none", "recv", "parse", "lock", "note", "done"}

LockInv ==
  /\ thread \in [Conn -> Places]
  /\ DOMAIN proposal = Conn
  /\ LockHolders
  /\ InvitationNoted

\* A step that neither takes nor gives up the lock, nor touches what it protects.
Quiet ==
  /\ UNCHANGED <<inviteLock, invitedSession, announced, proposal>>
  /\ pc' = "sendJoin" <=> pc = "sendJoin"
  /\ thread' \in [Conn -> Places]
  /\ \A n \in Conn : thread'[n] = "note" => thread[n] = "note"

\* Such a step keeps the invariant (client.c:20-27).
LEMMA QuietKeepsLock == LockInv /\ Quiet => LockInv'
BY DEF LockInv, LockHolders, InvitationNoted, Quiet

\* At the start the lock is free and nothing has been printed (client.c:20-27).
LEMMA InitLock == Init => LockInv
BY DEF Init, LockInv, LockHolders, InvitationNoted, Places, Free, Main, Conn

\* The steps of the command loop: an answer takes the lock, and only the end of
\* the answer gives it up (client.c:556-564).
LEMMA MainKeepsLock ==
  LockInv /\ ((\E line \in Line : Fgets(line)) \/ Work \/ LoginRecv \/ LoginRecvEnd)
    => LockInv'
<1> SUFFICES ASSUME LockInv,
                    (\E line \in Line : Fgets(line)) \/ Work \/ LoginRecv \/ LoginRecvEnd
             PROVE  LockInv'
  OBVIOUS
<1>1. CASE \E line \in Line : Fgets(line)
  <2>1. Quiet
    BY <1>1 DEF Fgets, Quiet, LockInv, inviteVars, threadVars, history
  <2> QED BY <2>1, QuietKeepsLock
<1>2. CASE Look \/ quit \/ NoWord \/ sendMsg \/ StrayAnswer \/ Send \/ invite
  <2>1. Quiet
    BY <1>2 DEF Look, quit, NoWord, sendMsg, StrayAnswer, Send, SendAndGoto, invite, Typed,
                Quiet, LockInv, inviteVars, threadVars, history
  <2> QED BY <2>1, QuietKeepsLock
<1>3. CASE joinsession \/ leavesession \/ createsession \/ list
  <2>1. Quiet
    BY <1>3 DEF joinsession, leavesession, createsession, list, Ask, Typed,
                Quiet, LockInv, inviteVars, threadVars, history
  <2> QED BY <2>1, QuietKeepsLock
<1>4. CASE Login \/ LoginFails \/ Logout
  <2>1. Quiet
    BY <1>4 DEF Login, LoginFails, Logout, Typed, Quiet, LockInv, inviteVars, threadVars, history
  <2> QED BY <2>1, QuietKeepsLock
<1>5. CASE SendExit
  <2>1. Quiet
    BY <1>5 DEF SendExit, SendAndGoto, Quiet, LockInv, inviteVars, history
  <2> QED BY <2>1, QuietKeepsLock
<1>6. CASE LoginRecv
  <2>1. Quiet
    BY <1>6 DEF LoginRecv, Quiet, LockInv, inviteVars, history, Places
  <2> QED BY <2>1, QuietKeepsLock
<1>7. CASE LoginRecvEnd
  <2>1. Quiet
    BY <1>7 DEF LoginRecvEnd, Quiet, LockInv, inviteVars, history, Places
  <2> QED BY <2>1, QuietKeepsLock
<1>8. CASE AcceptReq
  BY <1>8 DEF AcceptReq, LockInv, LockHolders, InvitationNoted, threadVars, history,
              Free, Main, Conn
<1>9. CASE DropInvitation
  BY <1>9 DEF DropInvitation, LockInv, LockHolders, InvitationNoted, threadVars, history,
              Free, Main, Conn
<1>10. CASE SendJoin
  BY <1>10 DEF SendJoin, SendAndGoto, LockInv, LockHolders, InvitationNoted, threadVars,
               history, Free, Main, Conn
<1> QED
  BY <1>1, <1>2, <1>3, <1>4, <1>5, <1>6, <1>7, <1>8, <1>9, <1>10 DEF Work

\* The steps of a receiving thread: it takes the lock to print an invitation and
\* gives it up when it is noted; cancelled in between, it keeps it (client.c:109-119).
LEMMA ReceiverKeepsLock ==
  ASSUME LockInv, NEW n \in Conn, Receiver(n)
  PROVE  LockInv'
<1>1. CASE Recv(n)
  <2>1. Quiet
    BY <1>1 DEF Recv, ThreadAt, ThreadGoesTo, Quiet, LockInv, mainVars, inviteVars, Places
  <2> QED BY <2>1, QuietKeepsLock
<1>2. CASE RecvFails(n) \/ Cancelled(n)
  <2>1. Quiet
    BY <1>2 DEF RecvFails, Cancelled, ThreadAt, ThreadGoesTo, Quiet, LockInv,
                mainVars, inviteVars, history, Places
  <2> QED BY <2>1, QuietKeepsLock
<1>3. CASE Parse(n)
  BY <1>3 DEF Parse, ThreadAt, ThreadGoesTo, Running, LockInv, LockHolders, InvitationNoted,
              inviteVars, threadVars, history, Places, Main, Conn
<1>4. CASE Announce(n)
  BY <1>4 DEF Announce, ThreadAt, ThreadGoesTo, LockInv, LockHolders, InvitationNoted,
              mainVars, Places, Free, Main, Conn
<1>5. CASE Note(n)
  BY <1>5 DEF Note, ThreadAt, ThreadGoesTo, LockInv, LockHolders, InvitationNoted,
              mainVars, history, Places, Free, Main, Conn
<1> QED
  BY <1>1, <1>2, <1>3, <1>4, <1>5 DEF Receiver

\* The server and a stutter have no part in it.
LEMMA RestKeepsLock ==
  ASSUME LockInv, vars' = vars \/ \E n \in Conn : Server(n)
  PROVE  LockInv'
<1>1. Quiet
  <2>1. CASE vars' = vars
    BY <2>1 DEF vars, mainVars, inviteVars, threadVars, history, Quiet, LockInv
  <2>2. ASSUME NEW n \in Conn, Server(n) PROVE Quiet
    BY <2>2 DEF Server, ServerAnswersLogin, ServerSends, ServerTimesOut, ServerEnds, mainVars,
                inviteVars, threadVars, history, Quiet, LockInv
  <2> QED BY <2>1, <2>2
<1> QED BY <1>1, QuietKeepsLock

\* invite_lock is held while an invitation is printed and noted and while it is
\* answered, and what is noted is what is on the screen (client.c:109-119, 556-564).
THEOREM LockIsKept == Spec => []LockInv
<1>1. Init => LockInv
  BY InitLock
<1>2. LockInv /\ [Next]_vars => LockInv'
  BY MainKeepsLock, ReceiverKeepsLock, RestKeepsLock DEF Next
<1> QED BY <1>1, <1>2, PTL DEF Spec

-----------------------------------------------------------------------------
(* Logins, their threads and their answers *)

Unit == [type : {"", "LO_ACK", "LO_NACK", "INVITE", "MESSAGE", "TIMEOUT", "stack"}, data : Nat]
Replies == {"LO_ACK", "LO_NACK"}

\* What the properties of logins need to know of types.
LoginTypes ==
  /\ sockfd \in 0 .. MaxLogins
  /\ thread \in [Conn -> Places]
  /\ srv \in [Conn -> {"none", "login", "in", "ending", "over"}]
  /\ inbound \in [Conn -> Seq(Unit)]
  /\ sent \in Nat

\* A login is answered once, and its thread exists only after the answer has been
\* taken from the connection.
ReplyComesOnce ==
  \A n \in Conn :
    /\ srv[n] \in {"none", "login"} =>
         /\ thread[n] = "none"
         /\ \A i \in 1 .. Len(inbound[n]) : inbound[n][i].type \notin Replies
    /\ thread[n] # "none" =>
         \A i \in 1 .. Len(inbound[n]) : inbound[n][i].type \notin Replies
    /\ \A i, j \in 1 .. Len(inbound[n]) :
         inbound[n][i].type \in Replies /\ inbound[n][j].type \in Replies => i = j

\* main() is logged in with the connection whose thread runs uncancelled, and waits
\* for an answer only on a connection without a thread.
ThreadHasSocket ==
  /\ \A n \in Conn : thread[n] # "none" /\ n \notin cancelled => sockfd = n
  /\ pc = "loginRecv" => sockfd # 0 /\ thread[sockfd] = "none"

LoginInv == LoginTypes /\ ReplyComesOnce /\ ThreadHasSocket

\* A step in which no connection, thread or login starts or ends.
Steady ==
  /\ UNCHANGED <<sockfd, cancelled, inbound, srv, sent>>
  /\ pc' = "loginRecv" => pc = "loginRecv"
  /\ thread' \in [Conn -> Places]
  /\ \A n \in Conn : thread'[n] = "none" <=> thread[n] = "none"

\* Such a step keeps the invariant.
LEMMA SteadyKeepsLogins == LoginInv /\ Steady => LoginInv'
BY DEF LoginInv, LoginTypes, ReplyComesOnce, ThreadHasSocket, Steady, Conn

\* Nothing is connected at the start (client.c:18-27).
LEMMA InitLogins == Init => LoginInv
BY ConstantsAssumption
   DEF Init, LoginInv, LoginTypes, ReplyComesOnce, ThreadHasSocket, Places, Conn

\* Of a connection that has a thread, or begins with the answer to its login, a
\* recv() leaves nothing behind that is one (client.c:75, 243).
LEMMA TakenFromFront ==
  ASSUME LoginInv, NEW n \in Conn, TakeFrom(n),
         thread[n] # "none" \/ inbound[n][1].type \in Replies
  PROVE  /\ buff' \in {inbound[n][1], Blank} /\ Len(inbound[n]) >= 1
         /\ inbound' \in [Conn -> Seq(Unit)]
         /\ \A m \in Conn : m # n => inbound'[m] = inbound[m]
         /\ \A i \in 1 .. Len(inbound'[n]) : inbound'[n][i].type \notin Replies
<1>1. PICK k \in 1 .. Len(inbound[n]) :
        /\ buff' \in {inbound[n][1], Blank}
        /\ inbound' = [inbound EXCEPT ![n] = SubSeq(@, k + 1, Len(@))]
  BY DEF TakeFrom
<1> DEFINE s == inbound[n]
           rest == SubSeq(s, k + 1, Len(s))
<1>2. s \in Seq(Unit)
  BY DEF LoginInv, LoginTypes
<1>3. rest \in Seq(Unit) /\ Len(rest) = Len(s) - k
  BY <1>2
<1>4. \A i \in 1 .. Len(rest) : rest[i] = s[i + k] /\ s[i + k].type \notin Replies
  <2> TAKE i \in 1 .. Len(rest)
  <2>1. rest[i] = s[i + k]
    BY <1>2, <1>3
  <2>2. i + k \in 1 .. Len(s) /\ i + k # 1 /\ 1 \in 1 .. Len(s)
    BY <1>2, <1>3
  <2> QED BY <2>1, <2>2 DEF LoginInv, ReplyComesOnce
<1>5. inbound \in [Conn -> Seq(Unit)] /\ inbound' = [inbound EXCEPT ![n] = rest]
  BY <1>1 DEF LoginInv, LoginTypes
<1>6. Len(s) \in Nat /\ k \in 1 .. Len(s)
  BY <1>1, <1>2
<1> HIDE DEF rest
<1> QED
  BY <1>1, <1>3, <1>4, <1>5, <1>6

\* close() of the connection main() is logged in with, whose thread is cancelled if
\* there is one (client.c:256-268, 291-300).
LEMMA ClosedKeepsLogins ==
  ASSUME LoginInv, CloseConn(sockfd), thread' = thread, sent' = sent, pc' # "loginRecv",
         \/ cancelled' = cancelled /\ pc = "loginRecv"
         \/ cancelled' = cancelled \cup {sockfd}
  PROVE  LoginInv'
<1>0. <<>> \in Seq(Unit)
  OBVIOUS
<1>1. LoginTypes'
  <2>1. sockfd' \in 0 .. MaxLogins
    BY ConstantsAssumption DEF CloseConn
  <2>2. inbound' \in [Conn -> Seq(Unit)]
    BY <1>0 DEF LoginInv, LoginTypes, CloseConn
  <2>3. srv' \in [Conn -> {"none", "login", "in", "ending", "over"}]
    BY DEF LoginInv, LoginTypes, CloseConn
  <2> QED BY <2>1, <2>2, <2>3 DEF LoginInv, LoginTypes
<1>2. ReplyComesOnce'
  <2> SUFFICES ASSUME NEW n \in Conn
               PROVE  \/ UNCHANGED <<srv[n], thread[n], inbound[n]>>
                      \/ srv'[n] = "over" /\ inbound'[n] = <<>>
    BY DEF LoginInv, ReplyComesOnce
  <2>1. CASE n = sockfd
    BY <2>1 DEF LoginInv, LoginTypes, CloseConn
  <2>2. CASE n # sockfd
    BY <2>2 DEF LoginInv, LoginTypes, CloseConn
  <2> QED BY <2>1, <2>2
<1>3. ThreadHasSocket'
  BY DEF LoginInv, ThreadHasSocket, CloseConn
<1> QED BY <1>1, <1>2, <1>3 DEF LoginInv

\* The steps of the command loop (client.c:142-304, 541-618).
LEMMA MainKeepsLogins ==
  LoginInv /\ ((\E line \in Line : Fgets(line)) \/ Work \/ LoginRecv \/ LoginRecvEnd)
    => LoginInv'
<1> SUFFICES ASSUME LoginInv,
                    (\E line \in Line : Fgets(line)) \/ Work \/ LoginRecv \/ LoginRecvEnd
             PROVE  LoginInv'
  OBVIOUS
<1>1. CASE \E line \in Line : Fgets(line)
  <2>1. Steady
    BY <1>1 DEF Fgets, Steady, LoginInv, LoginTypes, threadVars, netVars
  <2> QED BY <2>1, SteadyKeepsLogins
<1>2. CASE Look \/ AcceptReq \/ DropInvitation \/ SendJoin \/ quit
  <2>1. Steady
    BY <1>2 DEF Look, AcceptReq, DropInvitation, SendJoin, quit, SendAndGoto, Steady,
                LoginInv, LoginTypes, threadVars, netVars
  <2> QED BY <2>1, SteadyKeepsLogins
<1>3. CASE joinsession \/ leavesession \/ createsession \/ list
  <2>1. Steady
    BY <1>3 DEF joinsession, leavesession, createsession, list, Ask, Typed, Steady,
                LoginInv, LoginTypes, threadVars, netVars
  <2> QED BY <2>1, SteadyKeepsLogins
<1>4. CASE invite \/ NoWord \/ sendMsg \/ StrayAnswer \/ Send \/ LoginFails \/ Logout
  <2>1. Steady
    BY <1>4 DEF invite, NoWord, sendMsg, StrayAnswer, Send, SendAndGoto, LoginFails, Logout, Typed,
                Steady, LoginInv, LoginTypes, threadVars, netVars
  <2> QED BY <2>1, SteadyKeepsLogins
<1>5. CASE Login
  <2>1. PICK n \in Conn : /\ srv[n] = "none" /\ sockfd = 0 /\ sockfd' = n
                          /\ srv' = [srv EXCEPT ![n] = "login"]
                          /\ UNCHANGED <<thread, cancelled, inbound, sent>>
    BY <1>5 DEF Login, threadVars
  <2>2. LoginTypes'
    BY <2>1 DEF LoginInv, LoginTypes, Conn
  <2>3. ReplyComesOnce'
    BY <2>1 DEF LoginInv, LoginTypes, ReplyComesOnce
  <2>4. ThreadHasSocket'
    BY <2>1 DEF LoginInv, LoginTypes, ReplyComesOnce, ThreadHasSocket, Conn
  <2> QED BY <2>2, <2>3, <2>4 DEF LoginInv
<1>6. CASE SendExit
  <2>1. CASE UNCHANGED <<sockfd, cancelled, inbound, srv>>
    <3>1. Steady
      BY <1>6, <2>1 DEF SendExit, SendAndGoto, Steady, LoginInv, LoginTypes
    <3> QED BY <3>1, SteadyKeepsLogins
  <2>2. CASE CloseConn(sockfd) /\ cancelled' = cancelled \cup {sockfd}
    BY <1>6, <2>2, ClosedKeepsLogins DEF SendExit, SendAndGoto
  <2> QED BY <1>6, <2>1, <2>2 DEF SendExit
<1>7. CASE LoginRecv
  <2>0. sockfd \in Conn /\ thread[sockfd] = "none" /\ pc' = "fgets"
    BY <1>7 DEF LoginRecv, LoginInv, LoginTypes, ThreadHasSocket, Conn
  <2>1. CASE /\ inbound[sockfd][1].type = "LO_ACK" /\ TakeFrom(sockfd)
             /\ thread' = [thread EXCEPT ![sockfd] = "recv"]
             /\ UNCHANGED <<sockfd, srv, cancelled, sent>>
    <3>1. /\ inbound[sockfd] # <<>>
          /\ inbound' \in [Conn -> Seq(Unit)]
          /\ \A m \in Conn : m # sockfd => inbound'[m] = inbound[m]
          /\ \A i \in 1 .. Len(inbound'[sockfd]) : inbound'[sockfd][i].type \notin Replies
      BY <2>0, <2>1, <1>7, TakenFromFront DEF LoginRecv, Replies
    <3>5. srv[sockfd] \notin {"none", "login"}
      <4>1. 1 \in 1 .. Len(inbound[sockfd])
        BY <2>0, <3>1 DEF LoginInv, LoginTypes
      <4> QED BY <2>0, <2>1, <4>1 DEF LoginInv, ReplyComesOnce, Replies
    <3>2. LoginTypes'
      BY <2>1, <3>1 DEF LoginInv, LoginTypes, Places
    <3>3. ReplyComesOnce'
      BY <2>0, <2>1, <3>1, <3>5 DEF LoginInv, LoginTypes, ReplyComesOnce
    <3>4. ThreadHasSocket'
      BY <2>0, <2>1 DEF LoginInv, LoginTypes, ThreadHasSocket
    <3> QED BY <3>2, <3>3, <3>4 DEF LoginInv
  <2>2. CASE CloseConn(sockfd) /\ UNCHANGED <<thread, cancelled, sent>>
    BY <1>7, <2>0, <2>2, ClosedKeepsLogins DEF LoginRecv
  <2> QED BY <1>7, <2>1, <2>2 DEF LoginRecv
<1>8. CASE LoginRecvEnd
  <2>0. /\ sockfd \in Conn /\ thread[sockfd] = "none" /\ pc' = "fgets"
        /\ srv[sockfd] = "over" /\ inbound[sockfd] = <<>>
        /\ UNCHANGED <<cancelled, inbound, srv, sent>>
    BY <1>8 DEF LoginRecvEnd, LoginInv, LoginTypes, ThreadHasSocket, Conn, netVars
  <2>1. CASE sockfd' = 0 /\ thread' = thread
    BY <2>0, <2>1, ConstantsAssumption
       DEF LoginInv, LoginTypes, ReplyComesOnce, ThreadHasSocket
  <2>2. CASE thread' = [thread EXCEPT ![sockfd] = "recv"] /\ sockfd' = sockfd
    BY <2>0, <2>2 DEF LoginInv, LoginTypes, ReplyComesOnce, ThreadHasSocket, Places
  <2> QED BY <1>8, <2>1, <2>2 DEF LoginRecvEnd
<1> QED
  BY <1>1, <1>2, <1>3, <1>4, <1>5, <1>6, <1>7, <1>8 DEF Work

\* The steps of a receiving thread (client.c:68-139).
LEMMA ReceiverKeepsLogins ==
  ASSUME LoginInv, NEW n \in Conn, Receiver(n)
  PROVE  LoginInv'
<1>1. CASE Recv(n)
  <2>1. /\ sockfd = n /\ thread[n] = "recv" /\ TakeFrom(n)
        /\ thread' = [thread EXCEPT ![n] = "parse"]
        /\ UNCHANGED <<pc, sockfd, srv, cancelled, sent>>
    BY <1>1 DEF Recv, ThreadAt, ThreadGoesTo, LoginInv, ThreadHasSocket, mainVars
  <2>2. /\ inbound[n] # <<>>
        /\ inbound' \in [Conn -> Seq(Unit)]
        /\ \A m \in Conn : m # n => inbound'[m] = inbound[m]
        /\ \A i \in 1 .. Len(inbound'[n]) : inbound'[n][i].type \notin Replies
    BY <1>1, <2>1, TakenFromFront DEF Recv
  <2>3. LoginTypes'
    BY <2>1, <2>2 DEF LoginInv, LoginTypes, Places
  <2>4. ReplyComesOnce'
    BY <2>1, <2>2 DEF LoginInv, LoginTypes, ReplyComesOnce
  <2>5. ThreadHasSocket'
    BY <2>1 DEF LoginInv, LoginTypes, ThreadHasSocket
  <2> QED BY <2>3, <2>4, <2>5 DEF LoginInv
<1>2. CASE RecvFails(n) \/ Cancelled(n) \/ Parse(n)
  <2>1. Steady
    BY <1>2 DEF RecvFails, Cancelled, Parse, ThreadAt, ThreadGoesTo, Steady, LoginInv,
                LoginTypes, Places, mainVars, threadVars, netVars
  <2> QED BY <2>1, SteadyKeepsLogins
<1>3. CASE Announce(n) \/ Note(n)
  <2>1. Steady
    BY <1>3 DEF Announce, Note, ThreadAt, ThreadGoesTo, Steady, LoginInv, LoginTypes,
                Places, mainVars, netVars
  <2> QED BY <2>1, SteadyKeepsLogins
<1> QED
  BY <1>1, <1>2, <1>3 DEF Receiver

\* The elements of a concatenation.
LEMMA Concatenation ==
  ASSUME NEW S, NEW a \in Seq(S), NEW b \in Seq(S)
  PROVE  /\ a \o b \in Seq(S) /\ Len(a \o b) = Len(a) + Len(b)
         /\ \A i \in 1 .. Len(a \o b) :
              (a \o b)[i] = IF i <= Len(a) THEN a[i] ELSE b[i - Len(a)]
OBVIOUS

\* A text and its padding come behind what is on its way (server.c:138, 155, 445).
LEMMA Transmitted ==
  ASSUME NEW S, Blank \in S, Stack \in S, NEW n \in Conn, inbound[n] \in Seq(S),
         NEW text \in S, Transmit(n, text)
  PROVE  \E new \in Seq(S) :
           /\ inbound' = [inbound EXCEPT ![n] = new]
           /\ Len(new) > Len(inbound[n])
           /\ \A i \in 1 .. Len(inbound[n]) : new[i] = inbound[n][i]
           /\ new[Len(inbound[n]) + 1] = text
           /\ \A i \in Len(inbound[n]) + 2 .. Len(new) : new[i] \in {Blank, Stack}
<1>1. PICK m \in 1 .. MaxPieces, piece \in {Blank, Stack} :
        inbound' = [inbound EXCEPT ![n] = @ \o <<text>> \o [i \in 1 .. m |-> piece]]
  BY DEF Transmit
<1> DEFINE old == inbound[n]  pieces == [i \in 1 .. m |-> piece]
<1>2. m \in Nat /\ m >= 1
  BY ConstantsAssumption
<1>3. pieces \in Seq(S) /\ Len(pieces) = m /\ \A i \in 1 .. m : pieces[i] = piece
  BY <1>2
<1>4. <<text>> \in Seq(S) /\ Len(<<text>>) = 1 /\ <<text>>[1] = text
  OBVIOUS
<1> HIDE DEF pieces
<1>5. PICK front \in Seq(S) : front = old \o <<text>>
  BY <1>4, Concatenation
<1>6. /\ Len(old) \in Nat /\ Len(front) = Len(old) + 1 /\ front[Len(old) + 1] = text
      /\ \A i \in 1 .. Len(old) : front[i] = old[i]
  <2>1. Len(front) = Len(old) + 1
    BY <1>4, <1>5, Concatenation
  <2>2. \A i \in 1 .. Len(old) + 1 : front[i] = IF i <= Len(old) THEN old[i] ELSE <<text>>[i - Len(old)]
    BY <1>4, <1>5, <2>1, Concatenation
  <2>3. PICK len \in Nat : len = Len(old)
    OBVIOUS
  <2>4. front[len + 1] = <<text>>[len + 1 - len] /\ len + 1 - len = 1
    BY <2>2, <2>3
  <2> QED BY <1>4, <2>1, <2>2, <2>3, <2>4
<1>7. PICK new \in Seq(S) : new = front \o pieces
  BY <1>3, <1>5, Concatenation
<1>8. Len(new) = Len(old) + 1 + m
  <2>1. Len(new) = Len(front) + Len(pieces)
    BY <1>3, <1>5, <1>7, Concatenation
  <2> QED BY <1>3, <1>6, <2>1
<1>9. \A i \in 1 .. Len(new) : new[i] = IF i <= Len(old) + 1 THEN front[i] ELSE pieces[i - (Len(old) + 1)]
  <2>1. \A i \in 1 .. Len(new) : new[i] = IF i <= Len(front) THEN front[i] ELSE pieces[i - Len(front)]
    BY <1>3, <1>5, <1>7, Concatenation
  <2> QED BY <1>6, <2>1
<1>10. inbound' = [inbound EXCEPT ![n] = new]
  BY <1>1, <1>5, <1>7 DEF pieces
<1>11. PICK len \in Nat : len = Len(old)
  BY <1>6
<1>12. \A i \in len + 2 .. Len(new) : new[i] = piece
  <2> TAKE i \in len + 2 .. Len(new)
  <2>1. i \in 1 .. Len(new) /\ ~(i <= len + 1) /\ i - (len + 1) \in 1 .. m
    BY <1>2, <1>8, <1>11
  <2> QED BY <1>3, <1>9, <1>11, <2>1
<1>13. \A i \in 1 .. len + 1 : new[i] = front[i]
  BY <1>2, <1>8, <1>9, <1>11
<1>14. /\ Len(new) > Len(old) /\ new[len + 1] = text
       /\ \A i \in 1 .. len : new[i] = old[i]
  BY <1>2, <1>6, <1>8, <1>11, <1>13
<1> QED BY <1>10, <1>11, <1>12, <1>14

\* The server answers a login once, on a connection that has no thread yet
\* (server.c:85-160).
LEMMA ServerKeepsLogins ==
  ASSUME LoginInv, NEW n \in Conn, Server(n)
  PROVE  LoginInv'
<1>0. UNCHANGED <<pc, sockfd, thread, cancelled>>
  BY DEF Server, ServerAnswersLogin, ServerSends, ServerTimesOut, ServerEnds, mainVars, threadVars
<1>1. inbound[n] \in Seq(Unit) /\ Blank \in Unit /\ Stack \in Unit
  BY DEF LoginInv, LoginTypes, Blank, Stack, Text, NoArg, Unit
<1>2. Blank.type \notin Replies /\ Stack.type \notin Replies
  BY DEF Blank, Stack, Text, Replies
<1>3. sent' \in Nat
  BY DEF Server, ServerAnswersLogin, ServerSends, ServerTimesOut, ServerEnds, LoginInv, LoginTypes
<1>4. ASSUME NEW text \in Unit, Transmit(n, text), text.type \notin Replies,
             srv' = srv \/ srv' = [srv EXCEPT ![n] = "ending"]
      PROVE  LoginInv'
  <2>1. PICK new \in Seq(Unit) :
          /\ inbound' = [inbound EXCEPT ![n] = new] /\ Len(new) > Len(inbound[n])
          /\ \A i \in 1 .. Len(inbound[n]) : new[i] = inbound[n][i]
          /\ new[Len(inbound[n]) + 1] = text
          /\ \A i \in Len(inbound[n]) + 2 .. Len(new) : new[i] \in {Blank, Stack}
    BY <1>1, <1>4, Transmitted
  <2>2. \A i \in 1 .. Len(new) :
          new[i].type \in Replies => i \in 1 .. Len(inbound[n]) /\ inbound[n][i].type \in Replies
    <3> TAKE i \in 1 .. Len(new)
    <3>1. CASE i \in 1 .. Len(inbound[n])
      BY <2>1, <3>1
    <3>2. CASE i = Len(inbound[n]) + 1
      BY <1>4, <2>1, <3>2
    <3>3. CASE i \in Len(inbound[n]) + 2 .. Len(new)
      BY <1>2, <2>1, <3>3
    <3> QED BY <1>1, <3>1, <3>2, <3>3
  <2>3. LoginTypes'
    BY <1>0, <1>3, <1>4, <2>1 DEF LoginInv, LoginTypes
  <2>4. ReplyComesOnce'
    BY <1>0, <1>4, <2>1, <2>2 DEF LoginInv, LoginTypes, ReplyComesOnce
  <2>5. ThreadHasSocket'
    BY <1>0 DEF LoginInv, ThreadHasSocket
  <2> QED BY <2>3, <2>4, <2>5 DEF LoginInv
<1>5. CASE ServerAnswersLogin(n)
  <2>1. PICK type \in Replies :
          /\ srv[n] = "login" /\ Transmit(n, Text(type, NoArg))
          /\ srv' = [srv EXCEPT ![n] = IF type = "LO_ACK" THEN "in" ELSE "ending"]
    BY <1>5 DEF ServerAnswersLogin, Replies
  <2>2. Text(type, NoArg) \in Unit
    BY DEF Text, NoArg, Unit, Replies
  <2>3. PICK new \in Seq(Unit) :
          /\ inbound' = [inbound EXCEPT ![n] = new] /\ Len(new) > Len(inbound[n])
          /\ \A i \in 1 .. Len(inbound[n]) : new[i] = inbound[n][i]
          /\ \A i \in Len(inbound[n]) + 2 .. Len(new) : new[i] \in {Blank, Stack}
    BY <1>1, <2>1, <2>2, Transmitted
  <2>4. \A i \in 1 .. Len(inbound[n]) : inbound[n][i].type \notin Replies
    BY <2>1 DEF LoginInv, ReplyComesOnce
  <2>5. \A i \in 1 .. Len(new) : new[i].type \in Replies => i = Len(inbound[n]) + 1
    <3> TAKE i \in 1 .. Len(new)
    <3>1. CASE i \in 1 .. Len(inbound[n])
      BY <2>3, <2>4, <3>1
    <3>2. CASE i \in Len(inbound[n]) + 2 .. Len(new)
      BY <1>2, <2>3, <3>2
    <3> QED BY <1>1, <3>1, <3>2
  <2>6. LoginTypes'
    BY <1>0, <1>3, <2>1, <2>3 DEF LoginInv, LoginTypes
  <2>7. thread[n] = "none"
    BY <2>1 DEF LoginInv, ReplyComesOnce
  <2>8. ReplyComesOnce'
    <3>1. /\ srv'[n] \notin {"none", "login"} /\ thread'[n] = "none" /\ inbound'[n] = new
          /\ \A k \in Conn : k # n => UNCHANGED <<srv[k], thread[k], inbound[k]>>
      BY <1>0, <2>1, <2>3, <2>7 DEF LoginInv, LoginTypes
    <3>2. \A i, j \in 1 .. Len(new) : new[i].type \in Replies /\ new[j].type \in Replies => i = j
      BY <2>5
    <3> SUFFICES ASSUME NEW k \in Conn
                 PROVE  /\ srv'[k] \in {"none", "login"} =>
                             /\ thread'[k] = "none"
                             /\ \A i \in 1 .. Len(inbound'[k]) : inbound'[k][i].type \notin Replies
                        /\ thread'[k] # "none" =>
                             \A i \in 1 .. Len(inbound'[k]) : inbound'[k][i].type \notin Replies
                        /\ \A i, j \in 1 .. Len(inbound'[k]) :
                             inbound'[k][i].type \in Replies /\ inbound'[k][j].type \in Replies => i = j
      BY DEF ReplyComesOnce
    <3>3. CASE k = n
      BY <3>1, <3>2, <3>3
    <3>4. CASE k # n
      BY <3>1, <3>4 DEF LoginInv, ReplyComesOnce
    <3> QED BY <3>3, <3>4
  <2>9. ThreadHasSocket'
    BY <1>0 DEF LoginInv, ThreadHasSocket
  <2> QED BY <2>6, <2>8, <2>9 DEF LoginInv
<1>6. CASE ServerSends(n)
  <2>1. PICK text \in {Text("MESSAGE", NoArg)} \cup {Text("INVITE", sent + 1)} : Transmit(n, text)
    BY <1>6 DEF ServerSends
  <2>2. sent + 1 \in Nat
    BY DEF LoginInv, LoginTypes
  <2>3. text \in Unit /\ text.type \notin Replies
    <3>1. CASE text = Text("MESSAGE", NoArg)
      BY <3>1 DEF Text, NoArg, Unit, Replies
    <3>2. CASE text = Text("INVITE", sent + 1)
      BY <2>2, <3>2 DEF Text, Unit, Replies
    <3> QED BY <2>1, <3>1, <3>2
  <2> QED BY <1>4, <1>6, <2>1, <2>3 DEF ServerSends
<1>7. CASE ServerTimesOut(n)
  <2>1. Text("TIMEOUT", NoArg) \in Unit /\ Text("TIMEOUT", NoArg).type \notin Replies
    BY DEF Text, NoArg, Unit, Replies
  <2> QED BY <1>4, <1>7, <2>1 DEF ServerTimesOut
<1>8. CASE ServerEnds(n)
  <2>1. inbound' = inbound /\ srv' = [srv EXCEPT ![n] = "over"]
    BY <1>8 DEF ServerEnds
  <2> QED BY <1>0, <1>3, <2>1 DEF LoginInv, LoginTypes, ReplyComesOnce, ThreadHasSocket
<1> QED BY <1>5, <1>6, <1>7, <1>8 DEF Server

\* A login is answered once, and its thread is started after that
\* (client.c:142-304).
THEOREM LoginsAreKept == Spec => []LoginInv
<1>1. LoginInv /\ [Next]_vars => LoginInv'
  <2>1. CASE vars' = vars
    <3>1. LoginInv => Steady
      BY <2>1 DEF vars, mainVars, threadVars, netVars, Steady, LoginInv, LoginTypes
    <3> QED BY <3>1, SteadyKeepsLogins
  <2> QED BY <2>1, MainKeepsLogins, ReceiverKeepsLogins, ServerKeepsLogins DEF Next
<1> QED BY <1>1, InitLogins, PTL DEF Spec

\* The answer to a login is never read by a receiving thread, however many logins
\* there have been (client.c:75, 243, 291).
THEOREM RepliesAreNotStolen == Spec => ReplyNotStolen
<1>1. LoginInv /\ [Next]_vars
        => [\A n \in Conn : thread[n] = "recv" /\ thread'[n] = "parse" =>
              buff'.type \notin {"LO_ACK", "LO_NACK"}]_vars
  <2> SUFFICES ASSUME LoginInv, Next, NEW n \in Conn, thread[n] = "recv", thread'[n] = "parse"
               PROVE  buff'.type \notin Replies
    BY DEF Replies
  <2>1. Recv(n)
    <3>1. thread' # thread
      OBVIOUS
    <3>2. LoginRecv \/ LoginRecvEnd \/ \E m \in Conn : Receiver(m)
      BY <3>1 DEF Next, Work, Fgets, Look, AcceptReq, DropInvitation, SendJoin, quit,
             joinsession, leavesession, createsession, list, Ask, invite, NoWord, sendMsg,
             StrayAnswer, Send, Login, LoginFails, Logout, SendExit, Server,
             ServerAnswersLogin, ServerSends, ServerTimesOut, ServerEnds, threadVars
    <3>3. PICK m \in Conn : Receiver(m)
      BY <3>2 DEF LoginRecv, LoginRecvEnd, LoginInv, LoginTypes
    <3> QED
      BY <3>3 DEF Receiver, Recv, RecvFails, Cancelled, Parse, Announce, Note, ThreadAt,
                  ThreadGoesTo, threadVars, LoginInv, LoginTypes
  <2>2. sockfd = n /\ TakeFrom(n)
    BY <2>1 DEF Recv, LoginInv, ThreadHasSocket
  <2>3. buff' \in {inbound[n][1], Blank} /\ Len(inbound[n]) >= 1
    BY <2>2, TakenFromFront
  <2>4. inbound[n][1].type \notin Replies
    BY <2>3 DEF LoginInv, LoginTypes, ReplyComesOnce
  <2>5. Blank.type \notin Replies
    BY DEF Blank, Text, Replies
  <2> QED BY <2>3, <2>4, <2>5
<1> QED BY <1>1, LoginsAreKept, PTL DEF Spec, ReplyNotStolen

-----------------------------------------------------------------------------
(* Types *)

Data     == Session \cup {NoArg}
Contents == Line \cup [type : Requests \cup Answers, data : Data]
Received == {Blank} \cup [type : Answers, data : Data]

\* The type invariant with what it rests on: an argument is that of an invitation
\* the server has sent, wherever it is on its way through the two threads.
MainTyped ==
  /\ pc \in {"fgets", "look", "lock", "sendJoin", "command", "send", "sendExit",
             "loginRecv", "end"}
  /\ buff \in Contents
  /\ late \in Nat /\ heard \in Nat
  /\ sockfd # 0 => srv[sockfd] # "none"
  /\ pc = "sendExit" => sockfd # 0
ThreadsTyped ==
  /\ invited \in BOOLEAN /\ isTimeout \in BOOLEAN
  /\ invitedSession \in Data /\ announced \in Data
  /\ inviteLock \in {Free, Main} \cup Conn
  /\ cancelled \subseteq Conn
  /\ proposal \in [Conn -> Data]
NetTyped ==
  /\ inbound \in [Conn -> Seq(Received)]
  /\ sent \in 0 .. MaxMsgs
TypeInv == MainTyped /\ ThreadsTyped /\ NetTyped

\* What main() formats and what the server sends are texts that buff may hold.
LEMMA TextsTyped ==
  /\ Line \subseteq Contents /\ Received \subseteq Contents
  /\ Blank \in Line /\ Blank \in Received /\ Stack \in Received
  /\ \A type \in Requests, data \in Data : Text(type, data) \in Contents
  /\ \A type \in Answers, data \in Data : Text(type, data) \in Received
<1>1. Blank \in Line
  BY DEF Blank, Line, Words
<1>2. [type : Answers, data : Data] \subseteq [type : Requests \cup Answers, data : Data]
  OBVIOUS
<1>3. \A type \in Requests, data \in Data : Text(type, data) \in [type : Requests \cup Answers, data : Data]
  BY DEF Text
<1>4. \A type \in Answers, data \in Data : Text(type, data) \in [type : Answers, data : Data]
  BY DEF Text
<1>5. NoArg \in Data /\ "stack" \in Answers
  BY DEF Data, Answers
<1> QED BY <1>1, <1>2, <1>3, <1>4, <1>5 DEF Contents, Received, Stack

\* A line that is typed is none of the server's texts.
LEMMA LinesTyped == \A line \in Line : line.type \in Words /\ line.data = NoArg
<1> SUFFICES ASSUME NEW word \in Words
             PROVE  Text(word, NoArg).type = word /\ Text(word, NoArg).data = NoArg
  BY DEF Line
<1> QED BY DEF Text

\* A recv() takes units off the front (client.c:75, 243).
LEMMA TakenTyped ==
  ASSUME NetTyped, NEW n \in Conn, TakeFrom(n)
  PROVE  buff' \in Received /\ inbound' \in [Conn -> Seq(Received)]
<1>1. PICK k \in 1 .. Len(inbound[n]) :
        /\ buff' \in {inbound[n][1], Blank}
        /\ inbound' = [inbound EXCEPT ![n] = SubSeq(@, k + 1, Len(@))]
  BY DEF TakeFrom
<1>2. inbound[n] \in Seq(Received)
  BY DEF NetTyped
<1>3. inbound[n][1] \in Received /\ SubSeq(inbound[n], k + 1, Len(inbound[n])) \in Seq(Received)
  BY <1>2
<1> QED BY <1>1, <1>3, TextsTyped DEF NetTyped

\* The command loop formats requests over the line, and numbers connections as it
\* makes them (client.c:142-304, 541-618).
LEMMA MainKeepsTypes ==
  ASSUME LoginInv, TypeInv,
         (\E line \in Line : Fgets(line)) \/ Work \/ LoginRecv \/ LoginRecvEnd
  PROVE  TypeInv'
<1>0. NoArg \in Data /\ Text("REQUEST", NoArg) \in Contents /\ Text("INVITE", NoArg) \in Contents
      /\ Text("MESSAGE", NoArg) \in Contents /\ Blank \in Contents
      /\ Text("JOIN", invitedSession) \in Contents
  BY TextsTyped DEF Data, Requests, TypeInv, ThreadsTyped
<1>1. CASE \E line \in Line : Fgets(line)
  BY <1>0, <1>1, TextsTyped DEF Fgets, TypeInv, MainTyped, ThreadsTyped, NetTyped, inviteVars,
                                threadVars, netVars
<1>2. CASE Look \/ AcceptReq \/ DropInvitation \/ SendJoin \/ quit
  BY <1>0, <1>2 DEF Look, AcceptReq, DropInvitation, SendJoin, quit, SendAndGoto, TypeInv,
                    MainTyped, ThreadsTyped, NetTyped, inviteVars, threadVars, netVars, history
<1>3. CASE joinsession \/ leavesession \/ createsession \/ list
  BY <1>0, <1>3 DEF joinsession, leavesession, createsession, list, Ask, Typed, TypeInv,
                    MainTyped, ThreadsTyped, NetTyped, inviteVars, threadVars, netVars, history
<1>4. CASE invite \/ NoWord \/ sendMsg \/ StrayAnswer \/ Send \/ LoginFails \/ Logout
  BY <1>0, <1>4 DEF invite, NoWord, sendMsg, StrayAnswer, Send, SendAndGoto, LoginFails, Logout, Typed,
                    TypeInv, MainTyped, ThreadsTyped, NetTyped, inviteVars, threadVars, netVars, history
<1>5. CASE Login
  <2>1. PICK n \in Conn : sockfd' = n /\ srv' = [srv EXCEPT ![n] = "login"]
    BY <1>5 DEF Login
  <2>2. srv'[sockfd'] = "login"
    BY <2>1 DEF LoginInv, LoginTypes
  <2>3. pc' = "loginRecv" /\ buff' = Text("REQUEST", NoArg)
        /\ UNCHANGED <<inviteVars, isTimeout, threadVars, inbound, sent, history>>
    BY <1>5 DEF Login
  <2> QED BY <1>0, <2>2, <2>3 DEF TypeInv, MainTyped, ThreadsTyped, NetTyped, inviteVars,
                                 threadVars, history
<1>6. ASSUME CloseConn(sockfd), pc' # "sendExit" PROVE sockfd' = 0 /\ inbound' \in [Conn -> Seq(Received)]
  <2>1. <<>> \in Seq(Received)
    OBVIOUS
  <2> QED BY <1>6, <2>1 DEF CloseConn, TypeInv, NetTyped
<1>7. CASE SendExit
  <2>1. sockfd \in Conn
    BY <1>7 DEF SendExit, TypeInv, MainTyped, LoginInv, LoginTypes, Conn
  <2>2. pc' \in {"fgets", "end"}
        /\ UNCHANGED <<buff, inviteVars, isTimeout, thread, proposal, sent, history>>
    BY <1>7 DEF SendExit, SendAndGoto
  <2>3. CASE UNCHANGED <<sockfd, cancelled, inbound, srv>>
    BY <2>2, <2>3 DEF TypeInv, MainTyped, ThreadsTyped, NetTyped, inviteVars, history
  <2>4. CASE CloseConn(sockfd) /\ cancelled' = cancelled \cup {sockfd}
    BY <1>6, <2>1, <2>2, <2>4 DEF TypeInv, MainTyped, ThreadsTyped, NetTyped, inviteVars, history
  <2> QED BY <1>7, <2>3, <2>4 DEF SendExit
<1>8. CASE LoginRecv
  <2>1. /\ pc' = "fgets" /\ sockfd \in Conn /\ inbound[sockfd] # <<>>
        /\ UNCHANGED <<inviteVars, isTimeout, cancelled, proposal, sent, history>>
    BY <1>8 DEF LoginRecv, LoginInv, LoginTypes, ThreadHasSocket, Conn
  <2>2. CASE TakeFrom(sockfd) /\ UNCHANGED <<sockfd, srv>>
    <3>1. buff' \in Contents /\ inbound' \in [Conn -> Seq(Received)]
      BY <2>1, <2>2, TakenTyped, TextsTyped DEF TypeInv, NetTyped
    <3> QED BY <2>1, <2>2, <3>1 DEF TypeInv, MainTyped, ThreadsTyped, NetTyped, inviteVars, history
  <2>3. CASE buff' = inbound[sockfd][1] /\ CloseConn(sockfd)
    <3>1. inbound[sockfd] \in Seq(Received)
      BY <2>1 DEF TypeInv, NetTyped
    <3>2. buff' \in Contents
      BY <2>1, <2>3, <3>1, TextsTyped
    <3> QED BY <1>6, <2>1, <2>3, <3>2 DEF TypeInv, MainTyped, ThreadsTyped, NetTyped, inviteVars, history
  <2> QED BY <1>8, <2>2, <2>3 DEF LoginRecv
<1>9. CASE LoginRecvEnd
  BY <1>0, <1>9 DEF LoginRecvEnd, TypeInv, MainTyped, ThreadsTyped, NetTyped, inviteVars, netVars, history
<1> QED
  BY <1>1, <1>2, <1>3, <1>4, <1>5, <1>7, <1>8, <1>9 DEF Work

\* A receiving thread finds the session of an invitation in buff (client.c:68-139).
LEMMA ReceiverKeepsTypes ==
  ASSUME LoginInv, TypeInv, NEW n \in Conn, Receiver(n)
  PROVE  TypeInv'
<1>1. CASE Recv(n)
  <2>1. sockfd \in Conn /\ TakeFrom(sockfd)
    BY <1>1 DEF Recv, LoginInv, LoginTypes, Conn
  <2>2. buff' \in Contents /\ inbound' \in [Conn -> Seq(Received)]
    BY <2>1, TakenTyped, TextsTyped DEF TypeInv, NetTyped
  <2> QED BY <1>1, <2>2 DEF Recv, TypeInv, MainTyped, ThreadsTyped, NetTyped, mainVars,
                            inviteVars, history
<1>2. CASE RecvFails(n) \/ Cancelled(n)
  BY <1>2 DEF RecvFails, Cancelled, TypeInv, MainTyped, ThreadsTyped, NetTyped, mainVars,
              inviteVars, netVars, history
<1>3. CASE Parse(n)
  <2>1. buff.type = "INVITE" => buff.data \in Data
    <3>1. buff \in Line => buff.type # "INVITE"
      BY LinesTyped DEF Words
    <3> QED BY <3>1 DEF TypeInv, MainTyped, Contents
  <2>2. /\ pc' \in {pc, "end"} /\ isTimeout' \in BOOLEAN
        /\ proposal' \in [Conn -> Data]
    BY <1>3, <2>1 DEF Parse, TypeInv, ThreadsTyped, threadVars
  <2>3. UNCHANGED <<sockfd, buff, inviteVars, cancelled, netVars, history>>
    BY <1>3 DEF Parse
  <2> QED BY <2>2, <2>3 DEF TypeInv, MainTyped, ThreadsTyped, NetTyped, inviteVars, netVars, history
<1>4. CASE Announce(n) \/ Note(n)
  <2>1. proposal[n] \in Data /\ NoArg \in Data
    BY DEF TypeInv, ThreadsTyped, Data
  <2> QED BY <1>4, <2>1 DEF Announce, Note, TypeInv, MainTyped, ThreadsTyped, NetTyped,
                            mainVars, netVars, history
<1> QED BY <1>1, <1>2, <1>3, <1>4 DEF Receiver

\* The server invites to the sessions it has (server.c:409-449).
LEMMA ServerKeepsTypes ==
  ASSUME LoginInv, TypeInv, NEW n \in Conn, Server(n)
  PROVE  TypeInv'
<1>1. /\ UNCHANGED <<mainVars, buff, inviteVars, isTimeout, threadVars, history>>
      /\ \A m \in Conn : srv'[m] = "none" => srv[m] = "none"
      /\ sent' \in 0 .. MaxMsgs
  BY ConstantsAssumption DEF Server, ServerAnswersLogin, ServerSends, ServerTimesOut, ServerEnds,
                             LoginInv, LoginTypes, TypeInv, NetTyped
<1>2. inbound' = inbound \/ \E text \in Received : Transmit(n, text)
  <2>1. NoArg \in Data /\ (sent < MaxMsgs => sent + 1 \in Data)
    BY ConstantsAssumption DEF Data, Session, TypeInv, NetTyped
  <2>2. /\ \A type \in {"LO_ACK", "LO_NACK", "MESSAGE", "TIMEOUT"} : Text(type, NoArg) \in Received
        /\ sent < MaxMsgs => Text("INVITE", sent + 1) \in Received
    BY <2>1, TextsTyped DEF Answers
  <2> QED BY <2>2 DEF Server, ServerAnswersLogin, ServerSends, ServerTimesOut, ServerEnds
<1>3. inbound' \in [Conn -> Seq(Received)]
  <2>1. inbound[n] \in Seq(Received)
    BY DEF TypeInv, NetTyped
  <2>2. ASSUME NEW text \in Received, Transmit(n, text)
        PROVE  \E new \in Seq(Received) : inbound' = [inbound EXCEPT ![n] = new]
    BY <2>1, <2>2, TextsTyped, Transmitted
  <2> QED BY <1>2, <2>2 DEF TypeInv, NetTyped
<1>4. sockfd' # 0 => srv'[sockfd'] # "none"
  BY <1>1 DEF mainVars, TypeInv, MainTyped, LoginInv, LoginTypes, Conn
<1> QED BY <1>1, <1>3, <1>4 DEF TypeInv, MainTyped, ThreadsTyped, NetTyped, mainVars, inviteVars,
                                 threadVars, history

\* The type invariant holds, for any number of logins and of messages
\* (client.c:18-27).
THEOREM TypeIsKept == Spec => []TypeInv
<1>1. Init => TypeInv
  <2> SUFFICES ASSUME Init PROVE TypeInv
    OBVIOUS
  <2>1. MainTyped
    BY TextsTyped DEF Init, MainTyped
  <2>2. ThreadsTyped
    BY DEF Init, ThreadsTyped, Data
  <2>3. NetTyped
    <3>1. <<>> \in Seq(Received)
      OBVIOUS
    <3> QED BY <3>1, ConstantsAssumption DEF Init, NetTyped
  <2> QED BY <2>1, <2>2, <2>3 DEF TypeInv
<1>2. LoginInv /\ TypeInv /\ [Next]_vars => TypeInv'
  <2>1. CASE vars' = vars
    BY <2>1 DEF vars, mainVars, inviteVars, threadVars, netVars, history, TypeInv, MainTyped,
                ThreadsTyped, NetTyped
  <2> QED BY <2>1, MainKeepsTypes, ReceiverKeepsTypes, ServerKeepsTypes DEF Next
<1> QED BY <1>1, <1>2, LoginsAreKept, PTL DEF Spec

\* Every variable has its type, for any number of logins and of messages; in
\* particular the session a "yes" joins is one the server has named (client.c:18-27).
THEOREM TypesAreKept == Spec => []TypeOK
<1>1. LoginInv /\ TypeInv => TypeOK
  <2> SUFFICES ASSUME LoginInv, TypeInv PROVE TypeOK
    OBVIOUS
  <2>1. \/ buff \in Line
        \/ buff.type \in Requests \cup Answers /\ buff.data \in Session \cup {NoArg}
    BY DEF TypeInv, MainTyped, Contents, Data
  <2> QED BY <2>1 DEF TypeOK, LoginInv, LoginTypes, TypeInv, MainTyped, ThreadsTyped, NetTyped,
                      Data, Places
<1> QED BY <1>1, LoginsAreKept, TypeIsKept, PTL

-----------------------------------------------------------------------------
(* The answer to an invitation *)

\* While main() sends the JOIN, buff holds it, or a text that has been received.
JoinInBuff ==
  pc = "sendJoin" => buff = Text("JOIN", announced) \/ buff.type \in Answers \cup {""}

\* Between the formatting and the send() only a recv() writes to buff, and nobody
\* prints another invitation (client.c:59-61, 75, 556-563).
LEMMA JoinIsKept == LockInv /\ LoginInv /\ TypeInv /\ JoinInBuff /\ [Next]_vars => JoinInBuff'
<1> SUFFICES ASSUME LockInv, LoginInv, TypeInv, JoinInBuff, [Next]_vars, pc' = "sendJoin"
             PROVE  JoinInBuff'
  BY DEF JoinInBuff
<1>1. CASE UNCHANGED <<pc, buff, announced>>
  BY <1>1 DEF JoinInBuff
<1>2. CASE AcceptReq
  BY <1>2 DEF AcceptReq, LockInv, InvitationNoted, JoinInBuff, Text, history, Free, Main
<1>3. ASSUME NEW n \in Conn, Recv(n) PROVE JoinInBuff'
  <2>1. buff' \in Received
    <3>1. TakeFrom(sockfd) /\ sockfd \in Conn
      BY <1>3 DEF Recv, LoginInv, LoginTypes, Conn
    <3> QED BY <3>1, TakenTyped DEF TypeInv
  <2>2. buff'.type \in Answers \cup {""}
    <3>1. Blank.type = ""
      BY DEF Blank, Text
    <3>2. \A text \in [type : Answers, data : Data] : text.type \in Answers
      OBVIOUS
    <3> QED BY <2>1, <3>1, <3>2 DEF Received
  <2> QED BY <2>2 DEF JoinInBuff
<1>4. \A n \in Conn : ~Announce(n)
  <2> SUFFICES ASSUME NEW n \in Conn, Announce(n) PROVE FALSE
    OBVIOUS
  <2>1. pc = "sendJoin" /\ inviteLock = Free
    BY DEF Announce, mainVars
  <2> QED BY <2>1 DEF LockInv, LockHolders, Free, Main
<1>5. CASE (\E line \in Line : Fgets(line)) \/ (Work /\ ~AcceptReq)
  <2>1. FALSE
    BY <1>5 DEF Work, Fgets, Look, DropInvitation, SendJoin, SendAndGoto, quit, joinsession,
           leavesession, createsession, list, Ask, invite, NoWord, Typed, sendMsg, StrayAnswer,
           Send, Login, LoginFails, Logout, SendExit
  <2> QED BY <2>1
<1>6. CASE LoginRecv \/ LoginRecvEnd
  BY <1>6 DEF LoginRecv, LoginRecvEnd
<1>7. ASSUME NEW n \in Conn, RecvFails(n) \/ Cancelled(n) \/ Parse(n) \/ Note(n)
      PROVE  JoinInBuff'
  BY <1>1, <1>7 DEF RecvFails, Cancelled, Parse, Note, mainVars, history, threadVars
<1>8. ASSUME NEW n \in Conn, Server(n) PROVE JoinInBuff'
  BY <1>1, <1>8 DEF Server, ServerAnswersLogin, ServerSends, ServerTimesOut, ServerEnds, mainVars,
                    history
<1>9. CASE UNCHANGED vars
  BY <1>1, <1>9 DEF vars, mainVars, history
<1> QED
  BY <1>2, <1>3, <1>4, <1>5, <1>6, <1>7, <1>8, <1>9 DEF Next, Receiver

\* The JOIN that answers an invitation names the session of the one printed last, for
\* any number of invitations and of receiving threads; only a text of the server's
\* may be sent in its place (client.c:59-61, 75, 112-118, 556-563).
THEOREM YesJoinsWhatIsPrinted == Spec => YesJoinsAnnounced
<1>1. Init => JoinInBuff
  BY DEF Init, JoinInBuff
<1>2. JoinInBuff /\ [Next]_vars
        => [SendJoin => buff = Text("JOIN", announced) \/ buff.type \in Answers \cup {""}]_vars
  BY DEF JoinInBuff, SendJoin
<1> QED
  BY <1>1, <1>2, JoinIsKept, LockIsKept, LoginsAreKept, TypeIsKept, PTL DEF Spec, YesJoinsAnnounced

-----------------------------------------------------------------------------
(* After a TIMEOUT *)

\* Only main() ends an invitation, so that it answers none that has ended.
AnswersInvitation == pc \in {"lock", "sendJoin"} => invited

\* The threads that may yet leave an invitation: that have parsed one, may still find
\* one in buff, or have it there.
Inviting ==
  {n \in Conn : \/ thread[n] \in {"lock", "note"}
                \/ thread[n] = "parse" /\ (n \in cancelled \/ buff.type = "INVITE")}

\* main() is between the typing of a line that counts and its end.
LineInHand == pc \in {"lock", "sendJoin", "command", "end"} \/ (pc = "look" /\ buff # Blank)

One(b) == IF b THEN 1 ELSE 0

\* The last line, and one for the invitation that is pending.
LinesOfMain == late + One(invited) + One(~LineInHand)

\* Every line is accounted for: by the last one, a pending invitation, a thread that
\* has been cancelled, or something that has been received.
LinesCounted ==
  LinesOfMain + Cardinality(Inviting) <= 2 + Cardinality(cancelled) + heard

TimeoutInv ==
  /\ AnswersInvitation
  /\ ~isTimeout => late = 0 /\ heard = 0
  /\ isTimeout => LinesCounted /\ \E n \in Conn : thread[n] = "done"
  /\ heard > 0 => cancelled # {}

\* There are only so many threads.
LEMMA LoginsAreFinite ==
  ASSUME NEW S \in SUBSET Conn, NEW T \in SUBSET S
  PROVE  /\ IsFiniteSet(S) /\ Cardinality(S) \in Nat
         /\ IsFiniteSet(T) /\ Cardinality(T) \in Nat /\ Cardinality(T) <= Cardinality(S)
<1>1. IsFiniteSet(Conn)
  BY ConstantsAssumption, FS_Interval DEF Conn
<1>2. IsFiniteSet(S) /\ Cardinality(S) \in Nat
  BY <1>1, FS_Subset, FS_CardinalityType
<1> QED BY <1>2, FS_Subset, FS_CardinalityType

\* A set of threads with one more, or one less.
LEMMA OneThread ==
  ASSUME NEW S \in SUBSET Conn, NEW n \in Conn
  PROVE  /\ Cardinality(S \cup {n}) = IF n \in S THEN Cardinality(S) ELSE Cardinality(S) + 1
         /\ Cardinality(S \ {n}) = IF n \in S THEN Cardinality(S) - 1 ELSE Cardinality(S)
<1>1. IsFiniteSet(S)
  BY LoginsAreFinite
<1> QED BY <1>1, FS_AddElement, FS_RemoveElement

\* The counts are numbers.
LEMMA CountsAreNumbers ==
  ASSUME TypeInv
  PROVE  /\ late \in Nat /\ heard \in Nat /\ One(invited) \in {0, 1} /\ One(~LineInHand) \in {0, 1}
         /\ LinesOfMain \in Nat /\ Cardinality(cancelled) \in Nat /\ Cardinality(Inviting) \in Nat
         /\ cancelled \in SUBSET Conn /\ Inviting \in SUBSET Conn
<1>1. cancelled \in SUBSET Conn /\ Inviting \in SUBSET Conn
  BY DEF TypeInv, ThreadsTyped, Inviting
<1>2. Cardinality(cancelled) \in Nat /\ Cardinality(Inviting) \in Nat
  BY <1>1, LoginsAreFinite
<1>3. late \in Nat /\ heard \in Nat /\ One(invited) \in {0, 1} /\ One(~LineInHand) \in {0, 1}
  BY DEF TypeInv, MainTyped, One
<1> QED BY <1>1, <1>2, <1>3 DEF LinesOfMain

\* A step after the TIMEOUT by which neither a line nor an invitation comes that has
\* not been accounted for, nor a thread is started in place of one that has ended.
LEMMA NothingComes ==
  ASSUME TypeInv, TypeInv', LinesCounted, cancelled' = cancelled, heard' = heard,
         Inviting' \subseteq Inviting, LinesOfMain' <= LinesOfMain
  PROVE  LinesCounted'
<1>1. Cardinality(Inviting') \in Nat /\ LinesOfMain' \in Nat
  <2>1. Inviting' \in SUBSET Conn
    BY DEF Inviting
  <2>2. late' \in Nat /\ One(invited)' \in Nat /\ One(~LineInHand)' \in Nat
    BY DEF TypeInv, MainTyped, One
  <2> QED BY <2>1, <2>2, LoginsAreFinite DEF LinesOfMain
<1>2. Cardinality(Inviting') <= Cardinality(Inviting)
  BY CountsAreNumbers, LoginsAreFinite
<1> QED BY <1>1, <1>2, CountsAreNumbers DEF LinesCounted

\* A step that types no line, puts none aside and brings no invitation.
LEMMA LinesAreKept ==
  ASSUME TypeInv, late' = late, invited' => invited, LineInHand => LineInHand'
  PROVE  LinesOfMain' <= LinesOfMain
<1>1. late \in Nat
  BY DEF TypeInv, MainTyped
<1>2. /\ One(invited) \in Nat /\ One(invited)' \in Nat /\ One(invited)' <= One(invited)
      /\ One(~LineInHand) \in Nat /\ One(~LineInHand)' \in Nat
      /\ One(~LineInHand)' <= One(~LineInHand)
  BY DEF One
<1> QED BY <1>1, <1>2 DEF LinesOfMain

\* A thread that runs and has not been cancelled is that of main()'s connection.
LEMMA OneIsCurrent ==
  ASSUME LoginInv, NEW n \in Conn, thread[n] # "none", n \notin cancelled
  PROVE  sockfd = n /\ pc # "loginRecv"
BY DEF LoginInv, ThreadHasSocket

\* What the steps of the command loop leave alone, or change in one way only
\* (client.c:541-618).
LEMMA MainGoesOn ==
  ASSUME TypeInv, LoginInv, TimeoutInv,
         (\E line \in Line : Fgets(line)) \/ Work \/ LoginRecv \/ LoginRecvEnd
  PROVE  /\ isTimeout' = isTimeout /\ heard' = heard /\ cancelled \subseteq cancelled'
         /\ AnswersInvitation'
         /\ ~isTimeout => late' = late
         /\ \A n \in Conn : thread[n] = "done" => thread'[n] = "done"
<1>1. CASE \E line \in Line : Fgets(line)
  BY <1>1 DEF Fgets, AnswersInvitation, threadVars
<1>2. CASE Look \/ AcceptReq \/ DropInvitation \/ SendJoin \/ quit
  BY <1>2 DEF Look, AcceptReq, DropInvitation, SendJoin, quit, SendAndGoto, TimeoutInv,
              AnswersInvitation, inviteVars, threadVars, history
<1>3. CASE joinsession \/ leavesession \/ createsession \/ list
  BY <1>3 DEF joinsession, leavesession, createsession, list, Ask, AnswersInvitation, threadVars,
              history
<1>4. CASE invite \/ NoWord \/ sendMsg \/ StrayAnswer \/ Send \/ Login \/ LoginFails \/ Logout
  BY <1>4 DEF invite, NoWord, sendMsg, StrayAnswer, Send, SendAndGoto, Login, LoginFails, Logout,
              AnswersInvitation, threadVars, history
<1>5. CASE SendExit
  BY <1>5 DEF SendExit, SendAndGoto, AnswersInvitation, history
<1>6. CASE LoginRecv \/ LoginRecvEnd
  <2>1. sockfd \in Conn /\ thread[sockfd] = "none"
    BY <1>6 DEF LoginRecv, LoginRecvEnd, LoginInv, LoginTypes, ThreadHasSocket, Conn
  <2> QED BY <1>6, <2>1 DEF LoginRecv, LoginRecvEnd, LoginInv, LoginTypes, AnswersInvitation, history
<1> QED BY <1>1, <1>2, <1>3, <1>4, <1>5, <1>6 DEF Work

\* A line is typed after the TIMEOUT; it is no invitation (client.c:544).
LEMMA TypingIsCounted ==
  ASSUME TypeInv, TypeInv', TimeoutInv, isTimeout, NEW line \in Line, Fgets(line)
  PROVE  LinesCounted'
<1>1. /\ ~LineInHand /\ (LineInHand' <=> line # Blank) /\ invited' = invited
      /\ late' = IF line # Blank THEN late + 1 ELSE late
      /\ UNCHANGED <<thread, cancelled, heard>> /\ buff' = line
  BY DEF Fgets, LineInHand, inviteVars, threadVars
<1>2. LinesOfMain' <= LinesOfMain
  <2>1. One(~LineInHand) = 1 /\ One(~LineInHand)' = IF line # Blank THEN 0 ELSE 1
    BY <1>1 DEF One
  <2>2. One(invited) \in Nat /\ One(invited)' = One(invited) /\ late \in Nat
    BY <1>1, CountsAreNumbers DEF One
  <2> QED BY <1>1, <2>1, <2>2 DEF LinesOfMain
<1>3. Inviting' \subseteq Inviting
  <2>1. line.type # "INVITE"
    BY LinesTyped DEF Words
  <2> QED BY <1>1, <2>1 DEF Inviting
<1> QED BY <1>1, <1>2, <1>3, NothingComes DEF TimeoutInv

\* The line is worked off: it answers an invitation or it is the last
\* (client.c:549-569).
LEMMA WorkIsCounted ==
  ASSUME TypeInv, TypeInv', TimeoutInv, isTimeout, Work, ~SendExit
  PROVE  LinesCounted'
<1>1. ~(joinsession \/ leavesession \/ createsession \/ list \/ invite \/ NoWord \/ sendMsg
          \/ StrayAnswer \/ Login \/ LoginFails \/ Logout)
  BY DEF joinsession, leavesession, createsession, list, invite, NoWord, sendMsg, StrayAnswer, Login,
         LoginFails, Logout, Typed
<1>2. Look \/ AcceptReq \/ DropInvitation \/ SendJoin \/ quit \/ Send
  BY <1>1 DEF Work
<1>3. UNCHANGED <<thread, cancelled, heard, late>>
  BY <1>2 DEF Look, AcceptReq, DropInvitation, SendJoin, quit, Send, threadVars, history
<1>4. Inviting' \subseteq Inviting
  <2>1. buff' = buff \/ buff'.type # "INVITE"
    <3>1. Text("JOIN", invitedSession).type # "INVITE"
      BY DEF Text
    <3> QED BY <1>2, <3>1 DEF Look, AcceptReq, DropInvitation, SendJoin, quit, Send
  <2> QED BY <1>3, <2>1 DEF Inviting
<1>5. LinesOfMain' <= LinesOfMain
  <2>1. CASE Look \/ quit \/ Send \/ AcceptReq
    <3>1. invited' = invited /\ (LineInHand => LineInHand')
      BY <2>1 DEF Look, quit, Send, SendAndGoto, AcceptReq, LineInHand, inviteVars
    <3> QED BY <1>3, <3>1, LinesAreKept
  <2>2. CASE DropInvitation \/ SendJoin
    <3>1. invited /\ LineInHand /\ ~invited'
      BY <2>2 DEF DropInvitation, SendJoin, TimeoutInv, AnswersInvitation, LineInHand
    <3>2. /\ One(invited) = 1 /\ One(~LineInHand) = 0
          /\ One(invited)' = 0 /\ One(~LineInHand)' \in {0, 1}
      BY <3>1 DEF One
    <3> QED BY <1>3, <3>2, CountsAreNumbers DEF LinesOfMain
  <2> QED BY <1>2, <2>1, <2>2
<1> QED BY <1>3, <1>4, <1>5, NothingComes DEF TimeoutInv

\* A thread that is cancelled may leave its invitation (client.c:287-291).
LEMMA LogoutIsCounted ==
  ASSUME TypeInv, TypeInv', LoginInv, TimeoutInv, isTimeout, SendExit
  PROVE  LinesCounted'
<1>1. /\ UNCHANGED <<buff, invited, thread, heard, late>> /\ (LineInHand => LineInHand')
      /\ sockfd \in Conn
  BY DEF SendExit, SendAndGoto, LineInHand, inviteVars, history, TypeInv, MainTyped, LoginInv,
         LoginTypes, Conn
<1>2. LinesOfMain' <= LinesOfMain
  BY <1>1, LinesAreKept
<1>3. CASE cancelled' = cancelled
  <2>1. Inviting' \subseteq Inviting
    BY <1>1, <1>3 DEF Inviting
  <2> QED BY <1>1, <1>2, <1>3, <2>1, NothingComes DEF TimeoutInv
<1>4. CASE cancelled' = cancelled \cup {sockfd} /\ sockfd \notin cancelled
  <2>1. Inviting' \subseteq Inviting \cup {sockfd}
    BY <1>1, <1>4 DEF Inviting
  <2>2. /\ Cardinality(cancelled') = Cardinality(cancelled) + 1
        /\ Cardinality(Inviting \cup {sockfd}) <= Cardinality(Inviting) + 1
        /\ Inviting \cup {sockfd} \in SUBSET Conn
    <3>1. Cardinality(cancelled') = Cardinality(cancelled) + 1
      BY <1>1, <1>4, CountsAreNumbers, OneThread
    <3>2. Cardinality(Inviting \cup {sockfd})
            = IF sockfd \in Inviting THEN Cardinality(Inviting) ELSE Cardinality(Inviting) + 1
      BY <1>1, CountsAreNumbers, OneThread
    <3> QED BY <1>1, <3>1, <3>2, CountsAreNumbers
  <2>3. Cardinality(Inviting') <= Cardinality(Inviting) + 1 /\ Cardinality(Inviting') \in Nat
    <3>1. /\ Cardinality(Inviting') <= Cardinality(Inviting \cup {sockfd})
          /\ Cardinality(Inviting') \in Nat /\ Cardinality(Inviting \cup {sockfd}) \in Nat
      BY <2>1, <2>2, LoginsAreFinite
    <3> QED BY <2>2, <3>1, CountsAreNumbers
  <2>4. LinesOfMain' \in Nat
    BY <1>1, CountsAreNumbers DEF LinesOfMain, One
  <2> QED BY <1>1, <1>2, <2>2, <2>3, <2>4, CountsAreNumbers DEF TimeoutInv, LinesCounted
<1>5. cancelled' = cancelled \/ cancelled' = cancelled \cup {sockfd}
  BY DEF SendExit
<1> QED BY <1>3, <1>4, <1>5

\* A login that is answered has no thread yet (client.c:243-270).
LEMMA LoginIsCounted ==
  ASSUME TypeInv, TypeInv', LoginInv, TimeoutInv, isTimeout, LoginRecv \/ LoginRecvEnd
  PROVE  LinesCounted'
<1>1. /\ pc = "loginRecv" /\ pc' = "fgets" /\ UNCHANGED <<invited, cancelled, heard, late>>
      /\ sockfd \in Conn
      /\ thread' = thread \/ thread' = [thread EXCEPT ![sockfd] = "recv"]
  <2>1. CASE LoginRecv
    BY <2>1 DEF LoginRecv, inviteVars, history, LoginInv, LoginTypes, ThreadHasSocket, Conn
  <2>2. CASE LoginRecvEnd
    BY <2>2 DEF LoginRecvEnd, inviteVars, history, LoginInv, LoginTypes, ThreadHasSocket, Conn
  <2> QED BY <2>1, <2>2
<1>2. LinesOfMain' <= LinesOfMain
  <2>1. LineInHand => LineInHand'
    BY <1>1 DEF LineInHand
  <2> QED BY <1>1, <2>1, LinesAreKept
<1>3. Inviting' \subseteq Inviting
  <2> SUFFICES ASSUME NEW n \in Conn, n \in Inviting' PROVE n \in Inviting
    BY DEF Inviting
  <2>1. thread'[n] = thread[n]
    BY <1>1 DEF Inviting, LoginInv, LoginTypes
  <2>2. CASE thread[n] = "none"
    BY <2>1, <2>2 DEF Inviting
  <2>3. CASE thread[n] # "none"
    BY <1>1, <2>1, <2>3, OneIsCurrent DEF Inviting
  <2> QED BY <2>2, <2>3
<1> QED BY <1>1, <1>2, <1>3, NothingComes DEF TimeoutInv

\* The command loop.
LEMMA MainKeepsTimeout ==
  ASSUME TypeInv, TypeInv', LoginInv, TimeoutInv,
         (\E line \in Line : Fgets(line)) \/ Work \/ LoginRecv \/ LoginRecvEnd
  PROVE  TimeoutInv'
<1>1. isTimeout => LinesCounted'
  BY TypingIsCounted, WorkIsCounted, LogoutIsCounted, LoginIsCounted
<1>2. /\ isTimeout' = isTimeout /\ heard' = heard /\ cancelled \subseteq cancelled'
      /\ AnswersInvitation' /\ (~isTimeout => late' = late)
      /\ \A n \in Conn : thread[n] = "done" => thread'[n] = "done"
  BY MainGoesOn
<1>3. heard' > 0 => cancelled' # {}
  BY <1>2 DEF TimeoutInv
<1> QED BY <1>1, <1>2, <1>3 DEF TimeoutInv

\* A recv() after the TIMEOUT: a cancelled thread has taken that, and what is received
\* is counted, an invitation as well as a line it overwrites (client.c:75).
LEMMA RecvKeepsTimeout ==
  ASSUME TypeInv, TypeInv', LoginInv, TimeoutInv, NEW n \in Conn, Recv(n)
  PROVE  TimeoutInv'
<1>1. /\ thread[n] = "recv" /\ n \notin cancelled /\ sockfd = n
      /\ thread' = [thread EXCEPT ![n] = "parse"]
      /\ UNCHANGED <<pc, invited, isTimeout, cancelled, late>>
      /\ heard' = IF isTimeout THEN heard + 1 ELSE heard
  BY OneIsCurrent DEF Recv, ThreadAt, ThreadGoesTo, mainVars, inviteVars
<1>2. AnswersInvitation' /\ \A m \in Conn : thread[m] = "done" => thread'[m] = "done"
  BY <1>1 DEF TimeoutInv, AnswersInvitation, LoginInv, LoginTypes
<1>3. CASE ~isTimeout
  BY <1>1, <1>2, <1>3 DEF TimeoutInv
<1>4. CASE isTimeout
  <2>1. PICK m \in Conn : thread[m] = "done"
    BY <1>4 DEF TimeoutInv
  <2>2. m \in cancelled
    BY <1>1, <2>1, OneIsCurrent
  <2>3. LinesOfMain' + Cardinality(Inviting') <= LinesOfMain + Cardinality(Inviting) + 1
    <3>1. /\ One(invited)' = One(invited) /\ One(~LineInHand)' \in {0, 1}
          /\ (LineInHand => LineInHand') => One(~LineInHand)' <= One(~LineInHand)
      BY <1>1 DEF One
    <3>2. \A k \in Conn : k # n /\ thread'[k] = "parse" => k \in cancelled
      BY <1>1, OneIsCurrent DEF LoginInv, LoginTypes
    <3>3. CASE buff' = Blank
      <4>1. buff'.type # "INVITE"
        BY <3>3 DEF Blank, Text
      <4>2. Inviting' \subseteq Inviting
        BY <1>1, <3>2, <4>1 DEF Inviting, LoginInv, LoginTypes
      <4>3. Cardinality(Inviting') \in Nat /\ Cardinality(Inviting') <= Cardinality(Inviting)
        BY <4>2, CountsAreNumbers, LoginsAreFinite
      <4> QED BY <1>1, <3>1, <4>3, CountsAreNumbers DEF LinesOfMain
    <3>4. CASE buff' # Blank
      <4>1. LineInHand => LineInHand'
        BY <1>1, <3>4 DEF LineInHand
      <4>2. Inviting' \subseteq Inviting \cup {n} /\ Inviting \cup {n} \in SUBSET Conn
        BY <1>1, <3>2 DEF Inviting, LoginInv, LoginTypes
      <4>3. /\ Cardinality(Inviting') \in Nat
            /\ Cardinality(Inviting') <= Cardinality(Inviting \cup {n})
            /\ Cardinality(Inviting \cup {n}) \in Nat
        BY <4>2, LoginsAreFinite
      <4>4. Cardinality(Inviting \cup {n}) <= Cardinality(Inviting) + 1
        <5>1. Cardinality(Inviting \cup {n})
                = IF n \in Inviting THEN Cardinality(Inviting) ELSE Cardinality(Inviting) + 1
          BY CountsAreNumbers, OneThread
        <5> QED BY <5>1, CountsAreNumbers
      <4> QED BY <1>1, <3>1, <4>1, <4>3, <4>4, CountsAreNumbers DEF LinesOfMain
    <3> QED BY <3>3, <3>4
  <2>4. LinesOfMain' \in Nat /\ Cardinality(Inviting') \in Nat
    <3>1. Inviting' \in SUBSET Conn
      BY DEF Inviting
    <3>2. late' \in Nat /\ One(invited)' \in Nat /\ One(~LineInHand)' \in Nat
      BY DEF TypeInv, MainTyped, One
    <3> QED BY <3>1, <3>2, LoginsAreFinite DEF LinesOfMain
  <2>5. LinesCounted'
    BY <1>1, <1>4, <2>3, <2>4, CountsAreNumbers DEF TimeoutInv, LinesCounted
  <2> QED BY <1>1, <1>2, <1>4, <2>1, <2>2, <2>5 DEF TimeoutInv
<1> QED BY <1>3, <1>4

\* The TIMEOUT is taken: the thread that takes it leaves no invitation
\* (client.c:126-133).
LEMMA TakingKeepsTimeout ==
  ASSUME TypeInv, TypeInv', LoginInv, TimeoutInv, NEW n \in Conn, Parse(n), ~isTimeout, isTimeout'
  PROVE  TimeoutInv'
<1>1. /\ thread[n] = "parse" /\ thread' = [thread EXCEPT ![n] = "done"]
      /\ UNCHANGED <<pc, buff, invited, cancelled, late, heard>> /\ late = 0 /\ heard = 0
  BY DEF Parse, ThreadAt, ThreadGoesTo, inviteVars, history, TimeoutInv
<1>2. \A m \in Inviting' : m \in Conn /\ m # n /\ (m \notin cancelled => sockfd = m)
  BY <1>1, OneIsCurrent DEF Inviting, LoginInv, LoginTypes
<1>3. Cardinality(Inviting') <= Cardinality(cancelled) /\ Cardinality(Inviting') \in Nat
  <2>1. CASE n \in cancelled
    <3>1. CASE sockfd \in Conn
      <4>1. Inviting' \subseteq (cancelled \ {n}) \cup {sockfd}
        BY <1>2
      <4>2. (cancelled \ {n}) \cup {sockfd} \in SUBSET Conn /\ cancelled \ {n} \in SUBSET Conn
        BY <3>1, CountsAreNumbers
      <4>3. /\ Cardinality(Inviting') <= Cardinality((cancelled \ {n}) \cup {sockfd})
            /\ Cardinality(Inviting') \in Nat /\ Cardinality((cancelled \ {n}) \cup {sockfd}) \in Nat
        BY <4>1, <4>2, LoginsAreFinite
      <4>4. Cardinality(cancelled \ {n}) = Cardinality(cancelled) - 1
        BY <2>1, CountsAreNumbers, OneThread
      <4>5. Cardinality((cancelled \ {n}) \cup {sockfd}) <= Cardinality(cancelled \ {n}) + 1
        <5>1. Cardinality(cancelled \ {n}) \in Nat
          BY <4>2, LoginsAreFinite
        <5> QED BY <3>1, <4>2, <5>1, OneThread
      <4> QED BY <4>3, <4>4, <4>5, CountsAreNumbers
    <3>2. CASE sockfd \notin Conn
      BY <1>2, <3>2, CountsAreNumbers, LoginsAreFinite
    <3> QED BY <3>1, <3>2
  <2>2. CASE n \notin cancelled
    <3>1. Inviting' \subseteq cancelled
      BY <1>1, <1>2, <2>2, OneIsCurrent
    <3> QED BY <3>1, CountsAreNumbers, LoginsAreFinite
  <2> QED BY <2>1, <2>2
<1>4. LinesOfMain' <= 2 /\ LinesOfMain' \in Nat
  <2>1. One(invited)' \in {0, 1} /\ One(~LineInHand)' \in {0, 1}
    BY DEF One
  <2> QED BY <1>1, <2>1 DEF LinesOfMain
<1>5. LinesCounted'
  BY <1>1, <1>3, <1>4, CountsAreNumbers DEF LinesCounted
<1>6. thread'[n] = "done" /\ AnswersInvitation'
  BY <1>1 DEF TimeoutInv, AnswersInvitation, LoginInv, LoginTypes
<1> QED BY <1>1, <1>5, <1>6 DEF TimeoutInv

\* The other steps of a receiving thread: it ends, parses what is in buff, or leaves
\* its invitation for main() to offer (client.c:82-137).
LEMMA ReceiverKeepsTimeout ==
  ASSUME TypeInv, TypeInv', LoginInv, TimeoutInv, NEW n \in Conn, Receiver(n)
  PROVE  TimeoutInv'
<1>1. CASE Recv(n)
  BY <1>1, RecvKeepsTimeout
<1>2. CASE Parse(n) /\ ~isTimeout /\ isTimeout'
  BY <1>2, TakingKeepsTimeout
<1>3. CASE \/ RecvFails(n) \/ Cancelled(n) \/ Announce(n)
           \/ Parse(n) /\ isTimeout' = isTimeout
  <2>1. /\ UNCHANGED <<buff, invited, isTimeout, cancelled, late, heard>> /\ pc' \in {pc, "end"}
        /\ \/ thread' = thread
           \/ thread[n] # "done" /\ thread' = [thread EXCEPT ![n] = "done"]
           \/ thread[n] # "done" /\ thread' = [thread EXCEPT ![n] = "recv"]
           \/ thread[n] = "parse" /\ buff.type = "INVITE" /\ thread' = [thread EXCEPT ![n] = "lock"]
           \/ thread[n] = "lock" /\ thread' = [thread EXCEPT ![n] = "note"]
    BY <1>3 DEF RecvFails, Cancelled, Announce, Parse, ThreadAt, ThreadGoesTo, mainVars, inviteVars,
                threadVars, history
  <2>2. Inviting' \subseteq Inviting
    BY <2>1 DEF Inviting, LoginInv, LoginTypes
  <2>3. LinesOfMain' <= LinesOfMain
    <3>1. LineInHand => LineInHand'
      BY <2>1 DEF LineInHand
    <3> QED BY <2>1, <3>1, LinesAreKept
  <2>4. AnswersInvitation' /\ \A m \in Conn : thread[m] = "done" => thread'[m] = "done"
    BY <2>1 DEF TimeoutInv, AnswersInvitation, LoginInv, LoginTypes
  <2>5. isTimeout => LinesCounted'
    BY <2>1, <2>2, <2>3, NothingComes DEF TimeoutInv
  <2> QED BY <2>1, <2>4, <2>5 DEF TimeoutInv
<1>4. CASE Note(n)
  <2>1. /\ UNCHANGED <<pc, buff, isTimeout, cancelled, late, heard>> /\ invited'
        /\ thread[n] = "note" /\ thread' = [thread EXCEPT ![n] = "recv"]
    BY <1>4 DEF Note, ThreadAt, ThreadGoesTo, mainVars, history
  <2>2. AnswersInvitation' /\ \A m \in Conn : thread[m] = "done" => thread'[m] = "done"
    BY <2>1 DEF AnswersInvitation, LoginInv, LoginTypes
  <2>3. Inviting' = Inviting \ {n} /\ n \in Inviting
    BY <2>1 DEF Inviting, LoginInv, LoginTypes
  <2>4. Cardinality(Inviting') = Cardinality(Inviting) - 1
    BY <2>3, CountsAreNumbers, OneThread
  <2>5. LinesOfMain' <= LinesOfMain + 1 /\ LinesOfMain' \in Nat
    <3>1. LineInHand' = LineInHand
      BY <2>1 DEF LineInHand
    <3>2. /\ One(~LineInHand) \in {0, 1} /\ One(~LineInHand)' = One(~LineInHand)
          /\ One(invited) \in {0, 1} /\ One(invited)' = 1
      BY <2>1, <3>1 DEF One
    <3>3. late \in Nat /\ late' = late
      BY <2>1, CountsAreNumbers
    <3> QED BY <3>2, <3>3 DEF LinesOfMain
  <2>6. isTimeout => LinesCounted'
    BY <2>1, <2>4, <2>5, CountsAreNumbers DEF TimeoutInv, LinesCounted
  <2> QED BY <2>1, <2>2, <2>6 DEF TimeoutInv
<1>5. Parse(n) => isTimeout' = isTimeout \/ (~isTimeout /\ isTimeout')
  BY DEF Parse, TypeInv, ThreadsTyped
<1> QED BY <1>1, <1>2, <1>3, <1>4, <1>5 DEF Receiver

\* The server and a stutter change nothing that is counted.
LEMMA RestKeepsTimeout ==
  ASSUME TypeInv, TypeInv', TimeoutInv, vars' = vars \/ \E n \in Conn : Server(n)
  PROVE  TimeoutInv'
<1>1. UNCHANGED <<pc, buff, invited, isTimeout, thread, cancelled, late, heard>>
  BY DEF vars, Server, ServerAnswersLogin, ServerSends, ServerTimesOut, ServerEnds, mainVars,
         inviteVars, threadVars, history
<1>2. Inviting' = Inviting /\ AnswersInvitation' = AnswersInvitation
  BY <1>1 DEF Inviting, AnswersInvitation
<1>3. LinesOfMain' <= LinesOfMain
  <2>1. LineInHand => LineInHand'
    BY <1>1 DEF LineInHand
  <2> QED BY <1>1, <2>1, LinesAreKept
<1>4. isTimeout => LinesCounted'
  BY <1>1, <1>2, <1>3, NothingComes DEF TimeoutInv
<1> QED BY <1>1, <1>2, <1>4 DEF TimeoutInv

\* After the TIMEOUT every line that may still be typed is accounted for: by the last
\* one, a pending invitation, a thread that was cancelled, or something received since
\* (client.c:75-133, 541-569).
THEOREM LinesAreCounted == Spec => []TimeoutInv
<1>1. Init => TimeoutInv
  BY DEF Init, TimeoutInv, AnswersInvitation
<1>2. TypeInv /\ TypeInv' /\ LoginInv /\ TimeoutInv /\ [Next]_vars => TimeoutInv'
  BY MainKeepsTimeout, ReceiverKeepsTimeout, RestKeepsTimeout DEF Next
<1> QED BY <1>1, <1>2, TypeIsKept, LoginsAreKept, PTL DEF Spec

\* After a TIMEOUT the program ends with the second line typed, plus one for each
\* login that was ended before and one for each recv() that comes after it, for any
\* number of logins and of messages, though the server's other threads may send until
\* the connection is closed; without a login that was ended there is no such recv()
\* (client.c:75-133, 541-569, server.c:551-556).
THEOREM TimeoutEndsIt == Spec => []TimeoutEndsSoon
<1>1. TypeInv /\ TimeoutInv => TimeoutEndsSoon
  <2> SUFFICES ASSUME TypeInv, TimeoutInv PROVE late <= 2 + Cardinality(cancelled) + heard
    BY DEF TimeoutEndsSoon, TimeoutInv
  <2>1. late <= LinesOfMain
    BY CountsAreNumbers DEF LinesOfMain
  <2> QED BY <2>1, CountsAreNumbers DEF TimeoutInv, LinesCounted
<1> QED BY <1>1, TypeIsKept, LinesAreCounted, PTL

=============================================================================
