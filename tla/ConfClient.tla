----------------------------- MODULE ConfClient -----------------------------
(***************************************************************************)
(* The conferencing client, TextConferencing/client.c: the command loop of *)
(* main(), the thread msgRecv() that each login starts, and what a server  *)
(* may send them.  The two threads share sockfd, the buffer buff, the      *)
(* pending invitation and the flag is_timeout.                             *)
(*                                                                         *)
(* buff holds one text: a line that was typed, a request being sent, or    *)
(* what recv() found.  Every read and write of it by either thread is in a *)
(* step of its own, except that a command is looked up and its argument    *)
(* read in one step.  A login is numbered, and its number stands for its   *)
(* descriptor and its thread.  A server's message is a block of 1099 bytes *)
(* or more, a text and what fills the block up: the text, with the zero    *)
(* behind it, and pieces of the padding are the units of the stream, so    *)
(* that a recv() may end, and the next one begin, inside a block.          *)
(***************************************************************************)
EXTENDS Integers, FiniteSets, SequencesExt

CONSTANTS
  MaxLogins,      \* bound: connections the client makes
  MaxMsgs,        \* bound: messages and invitations the server sends
  MaxPieces       \* bound: pieces in which the padding of a block is received

ASSUME ConstantsAssumption ==
  MaxLogins \in Nat /\ MaxMsgs \in Nat /\ MaxPieces \in Nat

VARIABLES
  pc,             \* where main() is; "end" when the process has ended
  sockfd,         \* sockfd: the login's number, 0 for INVALID_SOCKET
  buff,           \* buff
  invited,        \* invited
  invitedSession, \* invited_session
  inviteLock,     \* invite_lock: Free, Main, or the thread that holds it
  isTimeout,      \* is_timeout
  thread,         \* where the receiving thread of each login is
  cancelled,      \* logins whose thread has been sent a pthread_cancel()
  proposal,       \* the session of the INVITE a thread handles
  inbound,        \* what is on its way to the client on each connection
  srv,            \* the server's end of each connection
  sent,           \* messages and invitations the server has sent
  announced,      \* the session of the last invitation printed (history)
  late,           \* lines typed since is_timeout was set (history)
  heard           \* recv()s since is_timeout was set (history)

mainVars   == <<pc, sockfd>>
inviteVars == <<invited, invitedSession, inviteLock>>
threadVars == <<thread, cancelled, proposal>>
netVars    == <<inbound, srv, sent>>
history    == <<announced, late, heard>>
vars == <<mainVars, buff, inviteVars, isTimeout, threadVars, netVars, history>>

Conn == 1 .. MaxLogins
Session == 1 .. MaxMsgs  \* the server's k-th invitation is to session k
NoArg == 0               \* no session, or none that matters
Free == -1
Main == 0

Text(type, data) == [type |-> type, data |-> data]
Blank == Text("", NoArg)      \* an empty line, or the padding of a block
Stack == Text("stack", NoArg) \* padding that need not be zeros, taken for no text

\* Lines by their first word; "Y" and "N" by their first character.
Words == {"", "Y", "N", "text", "/login", "/logout", "/joinsession", "/leavesession",
          "/createsession", "/list", "/invite", "/quit"}
Line == {Text(w, NoArg) : w \in Words}

\* REQUEST stands for the requests msgRecv() ignores when it finds one in buff.
Requests == {"REQUEST", "JOIN", "INVITE", "MESSAGE"}
Answers  == {"LO_ACK", "LO_NACK", "INVITE", "MESSAGE", "TIMEOUT", "stack"}

TypeOK ==
  /\ pc \in {"fgets", "look", "lock", "sendJoin", "command", "send", "sendExit",
             "loginRecv", "end"}
  /\ sockfd \in 0 .. MaxLogins
  /\ sockfd # 0 => srv[sockfd] # "none"
  /\ \/ buff \in Line
     \/ /\ buff.type \in Requests \cup Answers
        /\ buff.data \in Session \cup {NoArg}
  /\ {invited, isTimeout} \subseteq BOOLEAN
  /\ {invitedSession, announced} \subseteq Session \cup {NoArg}
  /\ inviteLock \in {Free, Main} \cup Conn
  /\ thread \in [Conn -> {"none", "recv", "parse", "lock", "note", "done"}]
  /\ cancelled \subseteq Conn
  /\ srv \in [Conn -> {"none", "login", "in", "ending", "over"}]
  /\ sent \in 0 .. MaxMsgs
  /\ late \in Nat /\ heard \in Nat

Init ==
  /\ pc = "fgets" /\ sockfd = 0
  /\ buff = Blank
  /\ invited = FALSE /\ invitedSession = NoArg /\ inviteLock = Free
  /\ isTimeout = FALSE
  /\ thread = [n \in Conn |-> "none"]
  /\ cancelled = {}
  /\ proposal = [n \in Conn |-> NoArg]
  /\ inbound = [n \in Conn |-> <<>>]
  /\ srv = [n \in Conn |-> "none"]
  /\ sent = 0
  /\ announced = NoArg /\ late = 0 /\ heard = 0

Running == pc # "end"

-----------------------------------------------------------------------------
(* The stream from the server *)

\* A text is sent with its padding, which is received in any number of pieces.  An
\* INVITE is sent as 4095 bytes of a buffer of 1100, which end with what lies behind
\* it on the stack.
Transmit(n, text) ==
  \E m \in 1 .. MaxPieces :
    LET piece == IF text.type = "INVITE" THEN Stack ELSE Blank
    IN  inbound' = [inbound EXCEPT ![n] = @ \o <<text>> \o [i \in 1 .. m |-> piece]]

\* The first k units of login n's connection fit into the 4095 bytes of a recv().
Fits(n, k) ==
  LET Texts == {i \in 1 .. k : inbound[n][i] \notin {Blank, Stack}} IN
  /\ Cardinality(Texts) <= 4
  /\ \A i, j \in Texts : inbound[n][i].type = "INVITE" => j <= i

\* recv() puts some of what has arrived into buff; only what it begins with is looked
\* at, which is an empty text even of the stack if it begins with a zero.
TakeFrom(n) ==
  \E k \in 1 .. Len(inbound[n]) :
    /\ Fits(n, k)
    /\ buff' = inbound[n][1] \/ (inbound[n][1] = Stack /\ buff' = Blank)
    /\ inbound' = [inbound EXCEPT ![n] = SubSeq(@, k + 1, Len(@))]

\* close() of login n's connection.
CloseConn(n) ==
  /\ sockfd' = 0
  /\ inbound' = [inbound EXCEPT ![n] = <<>>]
  /\ srv' = [srv EXCEPT ![n] = "over"]

\* send(): to a server that has closed the connection it may fail, which changes
\* nothing for the caller, or end the process with SIGPIPE.
SendAndGoto(next) ==
  \/ pc' = next
  \/ sockfd # 0 /\ srv[sockfd] = "over" /\ pc' = "end"

\* After a LO_NACK the server's thread closes the connection, in a later step.
ServerAnswersLogin(n) ==
  /\ Running /\ srv[n] = "login"
  /\ \E type \in {"LO_ACK", "LO_NACK"} :
       /\ Transmit(n, Text(type, NoArg))
       /\ srv' = [srv EXCEPT ![n] = IF type = "LO_ACK" THEN "in" ELSE "ending"]
  /\ UNCHANGED <<mainVars, buff, inviteVars, isTimeout, threadVars, sent, history>>

\* A message, which stands for every answer that is only printed, or an
\* invitation.  Another thread of the server sends it, so that it may come before
\* the answer to the login, to a descriptor that was another user's, or after a
\* TIMEOUT.
ServerSends(n) ==
  /\ Running /\ srv[n] \in {"login", "in", "ending"} /\ sent < MaxMsgs
  /\ sent' = sent + 1
  /\ \E text \in {Text("MESSAGE", NoArg)} \cup {Text("INVITE", sent + 1)} : Transmit(n, text)
  /\ UNCHANGED <<mainVars, buff, inviteVars, isTimeout, threadVars, srv, history>>

\* Ten minutes without a request, before or after the login.
ServerTimesOut(n) ==
  /\ Running /\ srv[n] \in {"login", "in"}
  /\ Transmit(n, Text("TIMEOUT", NoArg))
  /\ srv' = [srv EXCEPT ![n] = "ending"]
  /\ UNCHANGED <<mainVars, buff, inviteVars, isTimeout, threadVars, sent, history>>

\* The server's close(), after a TIMEOUT or a LO_NACK or without.
ServerEnds(n) ==
  /\ Running /\ srv[n] \in {"login", "in", "ending"}
  /\ srv' = [srv EXCEPT ![n] = "over"]
  /\ UNCHANGED <<mainVars, buff, inviteVars, isTimeout, threadVars, inbound, sent, history>>

-----------------------------------------------------------------------------
(* main(): a line and what is done with it *)

\* fgets(), on the terminal, writes the line into buff.
Fgets(line) ==
  /\ pc = "fgets"
  /\ buff' = line
  /\ pc' = "look"
  /\ late' = IF isTimeout /\ line # Blank THEN late + 1 ELSE late
  /\ UNCHANGED <<sockfd, inviteVars, isTimeout, threadVars, netVars, announced, heard>>

\* A blank line is skipped before anything else is tested; "invited" is read
\* without the lock.
Look ==
  /\ pc = "look"
  /\ pc' = IF buff = Blank THEN "fgets" ELSE IF invited THEN "lock" ELSE "command"
  /\ UNCHANGED <<sockfd, buff, inviteVars, isTimeout, threadVars, netVars, history>>

\* Without invite_lock.
AcceptReqMutant ==
  /\ pc = "lock"
  /\ buff.type = "Y"
  /\ buff' = Text("JOIN", invitedSession)
  /\ pc' = "sendJoin"
  /\ UNCHANGED <<sockfd, inviteVars, isTimeout, threadVars, netVars, history>>

\* Under invite_lock the line answers the invitation.  Whether a Y joins depends on
\* the byte behind the variable YorN, which strcmp() reads as well.
AcceptReq ==
  /\ pc = "lock" /\ inviteLock = Free
  /\ buff.type = "Y"
  /\ inviteLock' = Main
  /\ buff' = Text("JOIN", invitedSession)
  /\ pc' = "sendJoin"
  /\ UNCHANGED <<sockfd, invited, invitedSession, isTimeout, threadVars, netVars, history>>

\* Any line that does not join ends the invitation, whatever it says.
DropInvitation ==
  /\ pc = "lock" /\ inviteLock = Free
  /\ invited' = FALSE
  /\ pc' = "fgets"
  /\ UNCHANGED <<sockfd, buff, invitedSession, inviteLock, isTimeout, threadVars, netVars>>
  /\ UNCHANGED history

\* The end of acceptReq() and of the branch for invitations.
SendJoin ==
  /\ pc = "sendJoin"
  /\ SendAndGoto("fgets")
  /\ invited' = FALSE
  /\ inviteLock' = Free
  /\ UNCHANGED <<sockfd, buff, invitedSession, isTimeout, threadVars, netVars, history>>

\* quit() without the "break" behind it.
quitMutant ==
  /\ pc = "command"
  /\ isTimeout \/ buff.type = "/quit"
  /\ pc' = "fgets"
  /\ UNCHANGED <<sockfd, buff, inviteVars, isTimeout, threadVars, netVars, history>>

\* quit(), by /quit or after a TIMEOUT; main() ends whether it succeeds or not.
quit ==
  /\ pc = "command"
  /\ isTimeout \/ buff.type = "/quit"
  /\ pc' = "end"
  /\ UNCHANGED <<sockfd, buff, inviteVars, isTimeout, threadVars, netVars, history>>

\* The line in buff is the command w.
Typed(w) == pc = "command" /\ ~isTimeout /\ buff.type = w

\* The request is formatted into buff, from where it is sent, unless there is no
\* connection or the argument is missing, or is "all" for a session to be created.
Ask(request) ==
  /\ \/ /\ pc' = "fgets"
        /\ UNCHANGED buff
     \/ /\ sockfd # 0
        /\ buff' = request
        /\ pc' = "send"
  /\ UNCHANGED <<sockfd, inviteVars, isTimeout, threadVars, netVars, history>>

joinsession   == Typed("/joinsession") /\ Ask(Text("REQUEST", NoArg))
leavesession  == Typed("/leavesession") /\ Ask(Text("REQUEST", NoArg))
createsession == Typed("/createsession") /\ Ask(Text("REQUEST", NoArg))
list          == Typed("/list") /\ Ask(Text("REQUEST", NoArg))

\* invite() copies from its arguments without a look at them: a missing one ends
\* the process.
invite ==
  /\ Typed("/invite")
  /\ \/ /\ sockfd = 0
        /\ pc' = "fgets"
        /\ UNCHANGED buff
     \/ /\ sockfd # 0
        /\ buff' = Text("INVITE", NoArg)
        /\ pc' = "send"
     \/ /\ sockfd # 0
        /\ pc' = "end"
        /\ UNCHANGED buff
  /\ UNCHANGED <<sockfd, inviteVars, isTimeout, threadVars, netVars, history>>

\* strtok() finds no word in a buffer that has been emptied since it was looked at,
\* and strlen() is given NULL.
NoWord ==
  /\ Typed("")
  /\ pc' = "end"
  /\ UNCHANGED <<sockfd, buff, inviteVars, isTimeout, threadVars, netVars, history>>

\* Whatever else is in buff, a text of the server's if it came in between, is
\* sent as a message; a Y or N alone is not.
sendMsg ==
  /\ pc = "command" /\ ~isTimeout
  /\ buff.type \in {"Y", "N", "text"} \cup Requests \cup Answers
  /\ \/ /\ sockfd = 0
        /\ pc' = "fgets"
        /\ UNCHANGED buff
     \/ /\ sockfd # 0
        /\ buff' = Text("MESSAGE", NoArg)
        /\ pc' = "send"
  /\ UNCHANGED <<sockfd, inviteVars, isTimeout, threadVars, netVars, history>>

StrayAnswer ==
  /\ pc = "command" /\ ~isTimeout
  /\ buff.type \in {"Y", "N"}
  /\ pc' = "fgets"
  /\ UNCHANGED <<sockfd, buff, inviteVars, isTimeout, threadVars, netVars, history>>

\* The send() of joinsession() to invite(), with what buff holds by now.
Send ==
  /\ pc = "send"
  /\ SendAndGoto("fgets")
  /\ UNCHANGED <<sockfd, buff, inviteVars, isTimeout, threadVars, netVars, history>>

-----------------------------------------------------------------------------
(* main(): login and logout *)

\* A connection that fails leaves its descriptor in sockfd.
LoginMutant ==
  /\ Typed("/login") /\ sockfd = 0
  /\ \E n \in Conn :
       /\ srv[n] = "none" /\ \A m \in Conn : m < n => srv[m] # "none"
       /\ sockfd' = n
       /\ \/ buff' = Text("REQUEST", NoArg) /\ srv' = [srv EXCEPT ![n] = "login"] /\ pc' = "loginRecv"
          \/ UNCHANGED <<buff, srv>> /\ pc' = "fgets"
  /\ UNCHANGED <<inviteVars, isTimeout, threadVars, inbound, sent, history>>

\* login() up to the send() of its request.
Login ==
  /\ Typed("/login") /\ sockfd = 0
  /\ \E n \in Conn :
       /\ srv[n] = "none" /\ \A m \in Conn : m < n => srv[m] # "none"
       /\ sockfd' = n
       /\ srv' = [srv EXCEPT ![n] = "login"]
  /\ buff' = Text("REQUEST", NoArg)
  /\ pc' = "loginRecv"
  /\ UNCHANGED <<inviteVars, isTimeout, threadVars, inbound, sent, history>>

\* An incomplete command, a second login, or no server.
LoginFails ==
  /\ Typed("/login")
  /\ pc' = "fgets"
  /\ UNCHANGED <<sockfd, buff, inviteVars, isTimeout, threadVars, netVars, history>>

\* login() waits for its answer in recv(), without a timer.
LoginRecv ==
  /\ pc = "loginRecv" /\ inbound[sockfd] # <<>>
  /\ pc' = "fgets"
  /\ \E text \in {inbound[sockfd][1]} :
       \/ /\ text.type = "LO_ACK"
          /\ TakeFrom(sockfd)
          /\ thread' = [thread EXCEPT ![sockfd] = "recv"]
          /\ UNCHANGED <<sockfd, srv>>
       \/ /\ text.type # "LO_ACK"
          /\ buff' = text
          /\ CloseConn(sockfd)
          /\ UNCHANGED thread
  /\ UNCHANGED <<inviteVars, isTimeout, cancelled, proposal, sent, history>>

\* The connection has ended.  recv() returns -1 or 0; then the type of the answer
\* is what malloc() has left in it.
LoginRecvEnd ==
  /\ pc = "loginRecv" /\ inbound[sockfd] = <<>> /\ srv[sockfd] = "over"
  /\ pc' = "fgets"
  /\ \/ sockfd' = 0 /\ UNCHANGED <<buff, thread>>
     \/ sockfd' = 0 /\ buff' = Blank /\ UNCHANGED thread
     \/ /\ buff' = Blank
        /\ thread' = [thread EXCEPT ![sockfd] = "recv"]
        /\ UNCHANGED sockfd
  /\ UNCHANGED <<inviteVars, isTimeout, cancelled, proposal, netVars, history>>

\* logout() writes through a pointer it has not set, which may end the process.
Logout ==
  /\ Typed("/logout")
  /\ \/ pc' = "fgets" /\ sockfd = 0 /\ UNCHANGED buff
     \/ pc' = "end" /\ sockfd # 0 /\ UNCHANGED buff
     \/ pc' = "sendExit" /\ sockfd # 0 /\ buff' = Text("REQUEST", NoArg)
  /\ UNCHANGED <<sockfd, inviteVars, isTimeout, threadVars, netVars, history>>

\* pthread_cancel() forgotten.
SendExitMutant ==
  /\ pc = "sendExit"
  /\ CloseConn(sockfd)
  /\ SendAndGoto("fgets")
  /\ UNCHANGED <<buff, inviteVars, isTimeout, threadVars, sent, history>>

\* The send() of logout(); when it fails the client stays logged in.
SendExit ==
  /\ pc = "sendExit"
  /\ SendAndGoto("fgets")
  /\ \/ /\ srv[sockfd] = "over"
        /\ UNCHANGED <<sockfd, cancelled, inbound, srv>>
     \/ /\ CloseConn(sockfd)
        /\ cancelled' = cancelled \cup {sockfd}
  /\ UNCHANGED <<buff, inviteVars, isTimeout, thread, proposal, sent, history>>

-----------------------------------------------------------------------------
(* msgRecv(), the thread of login n *)

ThreadAt(n, l) == Running /\ thread[n] = l
ThreadGoesTo(n, l) == thread' = [thread EXCEPT ![n] = l]

\* recv() on sockfd, which is main()'s variable.
Recv(n) ==
  /\ ThreadAt(n, "recv") /\ n \notin cancelled
  /\ sockfd # 0 /\ inbound[sockfd] # <<>>
  /\ TakeFrom(sockfd)
  /\ ThreadGoesTo(n, "parse")
  /\ heard' = IF isTimeout THEN heard + 1 ELSE heard
  /\ UNCHANGED <<mainVars, inviteVars, isTimeout, cancelled, proposal, srv, sent>>
  /\ UNCHANGED <<announced, late>>

\* recv() returns -1.  When it returns 0 it is called again, for ever.
RecvFails(n) ==
  /\ ThreadAt(n, "recv") /\ n \notin cancelled
  /\ sockfd # 0 => inbound[sockfd] = <<>> /\ srv[sockfd] = "over"
  /\ ThreadGoesTo(n, "done")
  /\ UNCHANGED <<mainVars, buff, inviteVars, isTimeout, cancelled, proposal, netVars, history>>

\* The cancellation is acted on in recv() at the latest, and in any printf() that
\* writes, with invite_lock held or not.
Cancelled(n) ==
  /\ Running /\ n \in cancelled /\ thread[n] \in {"recv", "parse", "note"}
  /\ ThreadGoesTo(n, "done")
  /\ UNCHANGED <<mainVars, buff, inviteVars, isTimeout, cancelled, proposal, netVars, history>>

\* formatString() on what is in buff by now: a line, a request of main()'s or the
\* text received.  It returns NULL for three characters.
Parse(n) ==
  /\ ThreadAt(n, "parse")
  /\ \/ /\ buff.type = "INVITE"
        /\ proposal' = [proposal EXCEPT ![n] = buff.data]
        /\ ThreadGoesTo(n, "lock")
        /\ UNCHANGED <<pc, isTimeout>>
     \/ /\ buff.type = "TIMEOUT"
        /\ isTimeout' = TRUE
        /\ ThreadGoesTo(n, "done")
        /\ UNCHANGED <<pc, proposal>>
     \/ /\ buff.type \notin {"INVITE", "TIMEOUT"}
        /\ ThreadGoesTo(n, "recv")
        /\ UNCHANGED <<pc, isTimeout, proposal>>
     \/ /\ buff.type \in {"Y", "N", "text"}
        /\ pc' = "end"
        /\ UNCHANGED <<isTimeout, threadVars>>
  /\ UNCHANGED <<sockfd, buff, inviteVars, cancelled, netVars, history>>

\* Under invite_lock the invitation is printed, ...
Announce(n) ==
  /\ ThreadAt(n, "lock") /\ inviteLock = Free
  /\ inviteLock' = n
  /\ announced' = proposal[n]
  /\ ThreadGoesTo(n, "note")
  /\ UNCHANGED <<mainVars, buff, invited, invitedSession, isTimeout, cancelled, proposal>>
  /\ UNCHANGED <<netVars, late, heard>>

\* The lock kept.
NoteMutant(n) ==
  /\ ThreadAt(n, "note")
  /\ invitedSession' = proposal[n]
  /\ invited' = TRUE
  /\ proposal' = [proposal EXCEPT ![n] = NoArg]
  /\ ThreadGoesTo(n, "recv")
  /\ UNCHANGED <<mainVars, buff, inviteLock, isTimeout, cancelled, netVars, history>>

\* ... and then noted for main().
Note(n) ==
  /\ ThreadAt(n, "note")
  /\ invitedSession' = proposal[n]
  /\ invited' = TRUE
  /\ inviteLock' = Free
  /\ proposal' = [proposal EXCEPT ![n] = NoArg]
  /\ ThreadGoesTo(n, "recv")
  /\ UNCHANGED <<mainVars, buff, isTimeout, cancelled, netVars, history>>

-----------------------------------------------------------------------------

\* What main() does with a line, without waiting for the server.
Work ==
  \/ Look \/ AcceptReq \/ DropInvitation \/ SendJoin \/ quit
  \/ joinsession \/ leavesession \/ createsession \/ list \/ invite
  \/ NoWord \/ sendMsg \/ StrayAnswer \/ Send \/ Login \/ LoginFails \/ Logout \/ SendExit

Receiver(n) ==
  \/ Recv(n) \/ RecvFails(n) \/ Cancelled(n) \/ Parse(n) \/ Announce(n) \/ Note(n)

Server(n) ==
  ServerAnswersLogin(n) \/ ServerSends(n) \/ ServerTimesOut(n) \/ ServerEnds(n)

Next ==
  \/ \E line \in Line : Fgets(line)
  \/ Work \/ LoginRecv \/ LoginRecvEnd
  \/ \E n \in Conn : Receiver(n) \/ Server(n)

Spec == Init /\ [][Next]_vars

\* main() keeps running, and so does a thread that holds invite_lock.  Nothing is owed
\* by the user or by the server.
FairSpec ==
  /\ Spec
  /\ WF_vars(Work)
  /\ WF_vars(\E n \in Conn : Note(n))

-----------------------------------------------------------------------------

\* The answer to a login is read by login(), never by the receiving thread of an
\* earlier one, though both read main()'s sockfd (client.c:75, 243, 291).
ReplyNotStolen ==
  [][\A n \in Conn : thread[n] = "recv" /\ thread'[n] = "parse" =>
       buff'.type \notin {"LO_ACK", "LO_NACK"}]_vars

\* The JOIN that answers an invitation names the session of the one printed last,
\* though main() tests "invited" without the lock and buff is shared.  If it is no
\* longer the JOIN that is sent, the receiving thread has put one of the server's
\* texts over it, without the lock (client.c:59-61, 75, 112-118, 556-563).
YesJoinsAnnounced ==
  [][SendJoin => buff = Text("JOIN", announced) \/ buff.type \in Answers \cup {""}]_vars

\* After a TIMEOUT the program ends with the second line typed.  Another is needed for
\* each login that was ended, whose thread may leave an invitation, and for each
\* recv() to come, which brings an invitation or overwrites a line.  One comes only
\* if the thread of an ended login has taken the TIMEOUT (client.c:75-133, 541-569).
TimeoutEndsSoon ==
  /\ late <= 2 + Cardinality(cancelled) + heard
  /\ heard > 0 => cancelled # {}

\* invite_lock has died with its holder.
LockIsLost == \E n \in Conn : inviteLock = n /\ thread[n] = "done"

\* The command loop gets back to its prompt after every line, but for a login
\* without an answer, and for a thread cancelled in the printf() under
\* invite_lock (client.c:112-118, 291).
LineIsWorkedOff ==
  (pc \notin {"fgets", "loginRecv"}) ~> (pc \in {"fgets", "loginRecv", "end"} \/ LockIsLost)

-----------------------------------------------------------------------------
(* What the program and its documentation say, and the code does not do *)

\* "Session Timeout, hit Enter to quit the program" (client.c:130).
EnterQuits ==
  [][Look /\ buff = Blank /\ isTimeout => pc' = "end"]_vars

=============================================================================
