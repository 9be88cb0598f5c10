----------------------------- MODULE ConfServer -----------------------------
(***************************************************************************)
(* The conferencing server, TextConferencing/server.c with the list        *)
(* operations of message.h: main() accepts connections and gives each one  *)
(* a thread that runs message_handler(); the threads share user_list,      *)
(* session_list and userCount.                                             *)
(*                                                                         *)
(* A step is what a thread does between two points where another thread    *)
(* can matter: it receives a request and makes its first, unlocked, look   *)
(* at a list in one step; it takes a lock and walks to the tail of a list  *)
(* in another; it links its node and answers in a third.  Removals are one *)
(* step under their lock.  printUsers and printSessions are left out.      *)
(*                                                                         *)
(* A node of a list is <<owner, number, name, sockfd>>: the thread it was  *)
(* copied from, a number that tells it from the owner's other nodes, and   *)
(* the two fields the list operations compare.  A session that is not in   *)
(* "sessions" any more has been freed, and so has a node that is in no     *)
(* list; a thread may still hold a pointer to it.                          *)
(***************************************************************************)
EXTENDS Integers, FiniteSets, SequencesExt

CONSTANTS
  Thread,         \* connections in the order of accept, each with its thread
  Account,        \* ids of the accounts, server.c:612-626
  SessName,       \* names a client may give a session
  Fd,             \* file descriptors left for connections
  MaxNodes,       \* bound: memberships at a time, a double one counted twice
  NoOne,          \* no thread, no account, no pointer
  Overlap,        \* the requests of several connections may interleave
  SharedAccounts, \* connections that may log in to an account in use
  Resets          \* connections that may be reset by their peers

Node == Thread \X Nat \X Account \X Fd

ASSUME ConstantsAssumption ==
  /\ Thread \subseteq Nat /\ IsFiniteSet(Thread)
  /\ Fd \subseteq Nat
  /\ MaxNodes \in Nat
  /\ NoOne \notin Thread \cup Account \cup SessName \cup Node \cup (SessName \X Nat)
  /\ Overlap \in BOOLEAN
  /\ SharedAccounts \subseteq Thread /\ Resets \subseteq Thread

VARIABLES
  server,    \* "up", "closed" by main, "exited" by exit(1), "crashed"
  userCount, \* userCount, accepted connections not yet counted down
  holder,    \* which thread's connection an open descriptor is
  usersLock, \* the thread that holds users_lock
  sessLock,  \* the thread that holds sessions_lock
  userList,  \* user_list: nodes, in order
  sessions,  \* session_list: [id, users], in order
  pc,        \* where each thread is
  fd,        \* newUser->sockfd
  name,      \* newUser->name, NoOne before the login
  link,      \* what the peer did to the connection
  arg,       \* the session name of the request
  sess,      \* session_found, as a session's id
  ptr,       \* ptr, nominee or the tail of the list being extended: a node
  rest,      \* nodes linked behind ptr in a session freed during a broadcast
  due,       \* history: members at a broadcast's start it was not yet sent to
  raced      \* history: listed names of sessions that two threads made at once

shared == <<userCount, holder, usersLock, sessLock, userList, sessions, raced>>
locals == <<fd, name, link, arg, sess, ptr, rest, due>>
vars   == <<server, shared, pc, locals>>

Busy == {"loginWalk", "loginLink", "joinWalk", "joinLink", "leave", "left",
         "leaveFind", "leaveAll", "newLink", "broadcast", "invite", "close", "unlist",
         "purgeFind", "purge", "uncount"}

TypeOK ==
  /\ server \in {"up", "closed", "exited", "crashed"}
  /\ userCount \in 0 .. Cardinality(Thread)
  /\ holder \in [Fd -> Thread \cup {NoOne}]
  /\ {usersLock, sessLock} \subseteq Thread \cup {NoOne}
  /\ userList \in Seq(Node)
  /\ \A i \in DOMAIN sessions :
       sessions[i] \in [id : SessName \X Nat, users : Seq(Node)]
  /\ pc \in [Thread -> {"idle", "recv", "leaked", "end"} \cup Busy]
  /\ fd \in [Thread -> Fd \cup {NoOne}]
  /\ name \in [Thread -> Account \cup {NoOne}]
  /\ link \in [Thread -> {"open", "fin", "reset"}]
  /\ arg \in [Thread -> SessName \cup {NoOne}]
  /\ sess \in [Thread -> (SessName \X Nat) \cup {NoOne}]
  /\ ptr \in [Thread -> Node \cup {NoOne}]
  /\ rest \in [Thread -> Seq(Node)]
  /\ due \in [Thread -> SUBSET Thread]
  /\ raced \subseteq SessName

Init ==
  /\ server = "up"
  /\ userCount = 0
  /\ holder = [f \in Fd |-> NoOne]
  /\ usersLock = NoOne /\ sessLock = NoOne
  /\ userList = <<>> /\ sessions = <<>>
  /\ pc = [t \in Thread |-> "idle"]
  /\ fd = [t \in Thread |-> NoOne]
  /\ name = [t \in Thread |-> NoOne]
  /\ link = [t \in Thread |-> "open"]
  /\ arg = [t \in Thread |-> NoOne]
  /\ sess = [t \in Thread |-> NoOne]
  /\ ptr = [t \in Thread |-> NoOne]
  /\ rest = [t \in Thread |-> <<>>]
  /\ due = [t \in Thread |-> {}]
  /\ raced = {}

-----------------------------------------------------------------------------
(* The list operations of message.h *)

Owner(node)  == node[1]
Number(node) == node[2]
NameOf(node) == node[3]
FdOf(node)   == node[4]

\* A number that nothing in use has.
Fresh(used) == CHOOSE n \in 1 .. Cardinality(used) + 1 :
                 n \notin used /\ \A m \in 1 .. n - 1 : m \in used

\* Is there room for one more membership?
Room == FoldSeq(LAMBDA e, n : Len(e.users) + n, 0, sessions) < MaxNodes

\* A node like no other of t in the list, and none a pointer still leads to.
NewNode(t, users) ==
  LET inUse == ToSet(users) \cup {ptr[u] : u \in {v \in Thread : ptr[v] # NoOne}}
  IN  <<t, Fresh({Number(n) : n \in {m \in inUse : Owner(m) = t}}), name[t], fd[t]>>
UserNode(t) == <<t, 0, name[t], fd[t]>>

\* A session is named by its id; the number tells it from others of the name.
Named(id) == id[1]
NewSessId(s) ==
  LET inUse == {sessions[i].id : i \in DOMAIN sessions}
                 \cup {sess[u] : u \in {v \in Thread : sess[v] # NoOne}}
  IN  <<s, Fresh({id[2] : id \in {d \in inUse : Named(d) = s}})>>

\* The last node of a list, NULL for the empty list.
LastNode(users) == IF users = <<>> THEN NoOne ELSE users[Len(users)]

\* addUser from the walk on: what follows the node the walk ended at is lost,
\* and so is the new node if that node is gone.
addUser(users, tail, node) ==
  LET i == SelectInSeq(users, LAMBDA n : n = tail)
  IN  CASE tail = NoOne          -> <<node>>
        [] tail # NoOne /\ i > 0 -> Append(SubSeq(users, 1, i), node)
        [] OTHER                 -> users

\* findUser: is there a node with t's descriptor?
findUser(users, t) == \E i \in DOMAIN users : FdOf(users[i]) = fd[t]

\* Indices into session_list, 0 for NULL.
findSession(s)    == SelectInSeq(sessions, LAMBDA e : Named(e.id) = s)
findSessUser(t)   == SelectInSeq(sessions, LAMBDA e : findUser(e.users, t))
SessionWithId(id) == SelectInSeq(sessions, LAMBDA e : e.id = id)

Ids(list)         == {list[i].id : i \in DOMAIN list}

\* Is there a session at index i with t's descriptor in it?
HasUser(i, t) == i # 0 /\ findUser(sessions[i].users, t)

\* findUserName: the first node of the user list with this name.
findUserName(a) == SelectInSeq(userList, LAMBDA n : NameOf(n) = a)

\* The list's head taken for a dummy that is never removed.
removeUserMutant(users, a) ==
  IF users = <<>> THEN users
  ELSE <<Head(users)>>
         \o RemoveFirstMatch(Tail(users), LAMBDA n : NameOf(n) = a)

\* removeUser: the first node with this name.
removeUser(users, a) == RemoveFirstMatch(users, LAMBDA n : NameOf(n) = a)

\* The session kept when its last user has left.
removeSessUserMutant(i, a) ==
  [sessions EXCEPT ![i].users = removeUser(@, a)]

\* removeSessUser on the i-th session: an empty session goes, by its name.
removeSessUser(i, a) ==
  LET left == [sessions EXCEPT ![i].users = removeUser(@, a)]
  IN  IF left[i].users # <<>> THEN left
      ELSE RemoveFirstMatch(left, LAMBDA e : Named(e.id) = Named(sessions[i].id))

\* The nodes linked behind ptr[t]: none if its node has been removed.
Ahead(t) ==
  LET i == SessionWithId(sess[t])
      j == SelectInSeq(sessions[i].users, LAMBDA n : n = ptr[t])
  IN  CASE i = 0           -> rest[t]
        [] i # 0 /\ j = 0 -> <<>>
        [] OTHER           -> SubSeq(sessions[i].users, j + 1, Len(sessions[i].users))

\* The nodes behind ptr[t] in a freed session after a removal by name from it.
Without(t, a) ==
  IF rest[t] = <<>> \/ NameOf(ptr[t]) = a THEN <<>> ELSE removeUser(rest[t], a)

-----------------------------------------------------------------------------
(* Steps shared by the handlers *)

AtRest(t) == pc[t] \in {"idle", "recv", "leaked", "end"}

\* Without Overlap a connection has its turn when every other one waits for a
\* request that its peer has still to send.
Turn(t) ==
  Overlap \/ \A u \in Thread \ {t} : AtRest(u) /\ (pc[u] = "recv" => link[u] = "open")

Goto(t, l) == pc' = [pc EXCEPT ![t] = l]

\* recv() returns a request.
Receive(t) ==
  /\ server = "up"
  /\ pc[t] = "recv" /\ link[t] = "open" /\ Turn(t)

LoggedIn(t) == name[t] # NoOne

At(t, l) == server = "up" /\ pc[t] = l

\* send() to t's own client.  If the peer has reset the connection, or does so
\* before the send, it fails, or SIGPIPE ends the process.  A failure is logged
\* and the thread goes on, or ends the process or the thread, as "failure" says.
Answer(t, next, failure) ==
  \/ /\ link[t] # "reset"
     /\ Goto(t, next)
     /\ UNCHANGED <<server, link>>
  \/ /\ t \in Resets
     /\ link' = [link EXCEPT ![t] = "reset"]
     /\ \/ server' = "crashed" /\ UNCHANGED pc
        \/ failure = "exit(1)" /\ server' = "exited" /\ UNCHANGED pc
        \/ failure = "log" /\ Goto(t, next) /\ UNCHANGED server
        \/ failure = "return" /\ Goto(t, "leaked") /\ UNCHANGED server

\* removeSessUser under sessions_lock.  A broadcast goes on along the nodes of a
\* session that this takes off the list.  On a session freed since it was found
\* the removal crashes, does nothing, or still takes a node out of it.
RemoveFound(t, next) ==
  LET i == SessionWithId(sess[t])
  IN  /\ sessLock = NoOne
      /\ \/ /\ i # 0
            /\ sessions' = removeSessUser(i, name[t])
            /\ rest' = [u \in Thread |-> IF sess[u] \in Ids(sessions') THEN rest[u]
                                          ELSE Ahead(u)]
            /\ raced' = {s \in raced : \E id \in Ids(sessions') : Named(id) = s}
            /\ UNCHANGED server
         \/ /\ i = 0
            /\ server' \in {"up", "crashed"}
            /\ rest' \in {rest, [u \in Thread |-> IF sess[u] # sess[t] THEN rest[u]
                                                ELSE Without(u, name[t])]}
            /\ UNCHANGED <<sessions, raced>>
      /\ sess' = [sess EXCEPT ![t] = NoOne]
      /\ Goto(t, next)
      /\ UNCHANGED <<userCount, holder, usersLock, sessLock, userList>>
      /\ UNCHANGED <<fd, name, link, arg, ptr, due>>

-----------------------------------------------------------------------------
(* main(): the accept loop *)

FreeFds == {f \in Fd : holder[f] = NoOne}

\* accept() gives the lowest free descriptor; the connection is counted before
\* its thread starts.
Accept(t) ==
  /\ At(t, "idle") /\ Turn(t)
  /\ \A u \in Thread : u < t => pc[u] # "idle"
  /\ \E f \in FreeFds :
       /\ \A g \in FreeFds : f <= g
       /\ fd' = [fd EXCEPT ![t] = f]
       /\ holder' = [holder EXCEPT ![f] = t]
  /\ userCount' = userCount + 1
  /\ Goto(t, "recv")
  /\ UNCHANGED <<server, usersLock, sessLock, userList, sessions, raced>>
  /\ UNCHANGED <<name, link, arg, sess, ptr, rest, due>>

\* accept() times out and the server is closed whoever is connected.
AcceptTimeoutMutant ==
  /\ server = "up"
  /\ server' = "closed"
  /\ UNCHANGED <<shared, pc, locals>>

\* accept() times out: with nobody counted the server closes, and the process
\* ends with every thread in it; otherwise main accepts again.
AcceptTimeout ==
  /\ server = "up"
  /\ userCount = 0
  /\ server' = "closed"
  /\ UNCHANGED <<shared, pc, locals>>

-----------------------------------------------------------------------------
(* message_handler(): logging in *)

\* A login with the right password.
LoginRequest(t, a) ==
  /\ Receive(t) /\ ~LoggedIn(t)
  /\ t \in SharedAccounts \/ \A u \in Thread : name[u] # a
  /\ name' = [name EXCEPT ![t] = a]
  /\ Goto(t, "loginWalk")
  /\ UNCHANGED <<server, shared, fd, link, arg, sess, ptr, rest, due>>

\* addUser called without users_lock.
LoginWalkMutant(t) ==
  /\ At(t, "loginWalk")
  /\ usersLock' = t
  /\ ptr' = [ptr EXCEPT ![t] = LastNode(userList)]
  /\ Goto(t, "loginLink")
  /\ UNCHANGED <<server, userCount, holder, sessLock, userList, sessions, raced>>
  /\ UNCHANGED <<fd, name, link, arg, sess, rest, due>>

LoginWalk(t) ==
  /\ At(t, "loginWalk") /\ usersLock = NoOne
  /\ usersLock' = t
  /\ ptr' = [ptr EXCEPT ![t] = LastNode(userList)]
  /\ Goto(t, "loginLink")
  /\ UNCHANGED <<server, userCount, holder, sessLock, userList, sessions, raced>>
  /\ UNCHANGED <<fd, name, link, arg, sess, rest, due>>

LoginLink(t) ==
  /\ At(t, "loginLink")
  /\ userList' = addUser(userList, ptr[t], UserNode(t))
  /\ usersLock' = NoOne
  /\ ptr' = [ptr EXCEPT ![t] = NoOne]
  /\ Answer(t, "recv", "log")
  /\ UNCHANGED <<userCount, holder, sessLock, sessions, raced>>
  /\ UNCHANGED <<fd, name, arg, sess, rest, due>>

\* A wrong password, or any other request before the login: LO_NACK and out.
RefuseLogin(t) ==
  /\ Receive(t) /\ ~LoggedIn(t)
  /\ \E failure \in {"log", "exit(1)"} : Answer(t, "close", failure)
  /\ UNCHANGED <<shared, fd, name, arg, sess, ptr, rest, due>>

-----------------------------------------------------------------------------
(* message_handler(): sessions *)

\* JOIN looks the session up without the lock and does not look for a
\* membership the user already has.
JoinRequest(t, s) ==
  /\ Receive(t) /\ LoggedIn(t)
  /\ \/ /\ findSession(s) = 0
        /\ Answer(t, "recv", "log")
        /\ UNCHANGED <<arg, sess>>
     \/ /\ findSession(s) # 0 /\ Room
        /\ sess' = [sess EXCEPT ![t] = sessions[findSession(s)].id]
        /\ arg' = [arg EXCEPT ![t] = s]
        /\ Goto(t, "joinWalk")
        /\ UNCHANGED <<server, link>>
  /\ UNCHANGED <<shared, fd, name, ptr, rest, due>>

\* Two threads that add to a session at the same time.
JoinWalkMutant(t) ==
  LET i == SessionWithId(sess[t])
  IN  /\ At(t, "joinWalk")
      /\ sessLock' = t
      /\ ptr' = [ptr EXCEPT ![t] = IF i = 0 THEN NoOne ELSE LastNode(sessions[i].users)]
      /\ Goto(t, "joinLink")
      /\ UNCHANGED <<server, userCount, holder, usersLock, userList, sessions, raced>>
      /\ UNCHANGED <<fd, name, link, arg, sess, rest, due>>

\* addUser on the session found; the walk through a freed one may crash.
JoinWalk(t) ==
  LET i == SessionWithId(sess[t])
  IN  /\ At(t, "joinWalk") /\ sessLock = NoOne
      /\ sessLock' = t
      /\ \/ /\ i # 0
            /\ ptr' = [ptr EXCEPT ![t] = LastNode(sessions[i].users)]
            /\ UNCHANGED server
         \/ /\ i = 0
            /\ server' \in {"up", "crashed"}
            /\ UNCHANGED ptr
      /\ Goto(t, "joinLink")
      /\ UNCHANGED <<userCount, holder, usersLock, userList, sessions, raced>>
      /\ UNCHANGED <<fd, name, link, arg, sess, rest, due>>

\* The node of a freed session is in no session, but a broadcast may come by it.
JoinLink(t) ==
  LET i == SessionWithId(sess[t])
  IN  /\ At(t, "joinLink")
      /\ \/ /\ i # 0
            /\ sessions' = [sessions EXCEPT ![i].users =
                              addUser(@, ptr[t], NewNode(t, @))]
            /\ UNCHANGED rest
         \/ /\ i = 0
            /\ rest' \in {rest, [u \in Thread |->
                 IF pc[u] = "broadcast" /\ sess[u] = sess[t]
                 THEN Append(rest[u], NewNode(t, rest[u])) ELSE rest[u]]}
            /\ UNCHANGED sessions
      /\ sessLock' = NoOne
      /\ ptr' = [ptr EXCEPT ![t] = NoOne]
      /\ sess' = [sess EXCEPT ![t] = NoOne]
      /\ arg' = [arg EXCEPT ![t] = NoOne]
      /\ Answer(t, "recv", "log")
      /\ UNCHANGED <<userCount, holder, usersLock, userList, raced>>
      /\ UNCHANGED <<fd, name, due>>

\* LEAVE_SESS of one session: the session by name, the membership by descriptor.
LeaveRequest(t, s) ==
  LET i == findSession(s)
  IN  /\ Receive(t) /\ LoggedIn(t)
      /\ \/ /\ ~HasUser(i, t)
            /\ Answer(t, "recv", "log")
            /\ UNCHANGED <<arg, sess>>
         \/ /\ HasUser(i, t)
            /\ sess' = [sess EXCEPT ![t] = sessions[i].id]
            /\ arg' = [arg EXCEPT ![t] = s]
            /\ Goto(t, "leave")
            /\ UNCHANGED <<server, link>>
      /\ UNCHANGED <<shared, fd, name, ptr, rest, due>>

Leave(t) ==
  /\ At(t, "leave")
  /\ RemoveFound(t, "left")

\* LS_ACK, whatever the removal has found.
AnswerLeave(t) ==
  /\ At(t, "left")
  /\ arg' = [arg EXCEPT ![t] = NoOne]
  /\ Answer(t, "recv", "log")
  /\ UNCHANGED <<shared, fd, name, sess, ptr, rest, due>>

\* LEAVE_SESS of "all" alternates findSessUser and removeSessUser.
LeaveAllRequest(t) ==
  /\ Receive(t) /\ LoggedIn(t)
  /\ Goto(t, "leaveFind")
  /\ UNCHANGED <<server, shared, fd, name, link, arg, sess, ptr, rest, due>>

LeaveFind(t) ==
  LET i == findSessUser(t)
  IN  /\ At(t, "leaveFind")
      /\ \/ /\ i = 0
            /\ Answer(t, "recv", "log")
            /\ UNCHANGED sess
         \/ /\ i # 0
            /\ sess' = [sess EXCEPT ![t] = sessions[i].id]
            /\ Goto(t, "leaveAll")
            /\ UNCHANGED <<server, link>>
      /\ UNCHANGED <<shared, fd, name, arg, ptr, rest, due>>

LeaveAll(t) ==
  /\ At(t, "leaveAll")
  /\ RemoveFound(t, "leaveFind")

\* NEW_SESS without the test for an existing session.
NewRequestMutant(t, s) ==
  /\ Receive(t) /\ LoggedIn(t) /\ Room
  /\ arg' = [arg EXCEPT ![t] = s]
  /\ Goto(t, "newLink")
  /\ UNCHANGED <<server, shared, fd, name, link, sess, ptr, rest, due>>

\* NEW_SESS looks the name up without the lock, and adds the session later.
NewRequest(t, s) ==
  /\ Receive(t) /\ LoggedIn(t)
  /\ \/ /\ findSession(s) # 0
        /\ Answer(t, "recv", "log")
        /\ UNCHANGED arg
     \/ /\ findSession(s) = 0 /\ Room
        /\ arg' = [arg EXCEPT ![t] = s]
        /\ Goto(t, "newLink")
        /\ UNCHANGED <<server, link>>
  /\ UNCHANGED <<shared, fd, name, sess, ptr, rest, due>>

\* The session gets its creator as a user before it is listed.
NewLink(t) ==
  /\ At(t, "newLink") /\ sessLock = NoOne
  /\ sessions' = Append(sessions, [id |-> NewSessId(arg[t]),
                                   users |-> <<NewNode(t, <<>>)>>])
  /\ raced' = IF \E u \in Thread \ {t} : pc[u] = "newLink" /\ arg[u] = arg[t]
              THEN raced \cup {arg[t]} ELSE raced
  /\ arg' = [arg EXCEPT ![t] = NoOne]
  /\ Answer(t, "recv", "log")
  /\ UNCHANGED <<userCount, holder, usersLock, sessLock, userList>>
  /\ UNCHANGED <<fd, name, sess, ptr, rest, due>>

-----------------------------------------------------------------------------
(* message_handler(): messages, invitations, queries *)

\* A message without a text, or for a session the sender is not in, as its
\* descriptor tells, is answered with an error; otherwise the broadcast starts at
\* the first node.
MessageRequest(t, s) ==
  LET i == findSession(s)
  IN  /\ Receive(t) /\ LoggedIn(t)
      /\ \/ /\ Answer(t, "recv", "exit(1)")
            /\ UNCHANGED <<sess, ptr, due>>
         \/ /\ HasUser(i, t)
            /\ LET users == sessions[i].users
               IN  /\ ptr' = [ptr EXCEPT ![t] = users[1]]
                   /\ due' = [due EXCEPT ![t] =
                                {Owner(users[j]) : j \in DOMAIN users} \ {t}]
            /\ sess' = [sess EXCEPT ![t] = sessions[i].id]
            /\ Goto(t, "broadcast")
            /\ UNCHANGED <<server, link>>
      /\ UNCHANGED <<shared, fd, name, arg, rest>>

\* The message has gone to "to"; the walk goes on to the first of "nodes", or ends.
WalkOn(t, nodes, to) ==
  /\ ptr' = [ptr EXCEPT ![t] = IF nodes = <<>> THEN NoOne ELSE Head(nodes)]
  /\ sess' = [sess EXCEPT ![t] = IF nodes = <<>> THEN NoOne ELSE @]
  /\ rest' = [rest EXCEPT ![t] = IF @ = <<>> THEN @ ELSE Tail(@)]
  /\ due' = [due EXCEPT ![t] = IF nodes = <<>> THEN {} ELSE @ \ {to}]
  /\ Goto(t, IF nodes = <<>> THEN "recv" ELSE "broadcast")

\* The loop of the broadcast left at the sender's own node.
BroadcastMutant(t) ==
  LET f == FdOf(ptr[t])
      to == holder[f]
  IN  /\ At(t, "broadcast")
      /\ f = fd[t] \/ to # NoOne
      /\ WalkOn(t, IF f = fd[t] THEN <<>> ELSE Ahead(t), to)
      /\ UNCHANGED <<server, shared, fd, name, link, arg>>

\* One node of the broadcast, without the lock: the message goes to whoever
\* has the node's descriptor now; a send that fails ends the whole server.
Broadcast(t) ==
  LET f == FdOf(ptr[t])
      to == holder[f]
  IN  /\ At(t, "broadcast")
      /\ \/ /\ f = fd[t] \/ (to # NoOne /\ link[to] # "reset")
            /\ WalkOn(t, Ahead(t), to)
            /\ UNCHANGED server
         \/ /\ f # fd[t] /\ to = NoOne
            /\ server' = "exited"
            /\ UNCHANGED <<pc, sess, ptr, rest, due>>
         \/ /\ f # fd[t] /\ to # NoOne /\ link[to] = "reset"
            /\ server' \in {"exited", "crashed"}
            /\ UNCHANGED <<pc, sess, ptr, rest, due>>
      /\ UNCHANGED <<shared, fd, name, link, arg>>

\* INVITE looks up the user and the session without a lock.
InviteRequest(t, a, s) ==
  LET i == findUserName(a)
  IN  /\ Receive(t) /\ LoggedIn(t)
      /\ \/ /\ i = 0 \/ findSession(s) = 0
            /\ Answer(t, "recv", "return")
            /\ UNCHANGED ptr
         \/ /\ i # 0 /\ findSession(s) # 0
            /\ ptr' = [ptr EXCEPT ![t] = userList[i]]
            /\ Goto(t, "invite")
            /\ UNCHANGED <<server, link>>
      /\ UNCHANGED <<shared, fd, name, arg, sess, rest, due>>

\* The invitation goes to whoever has the nominee's descriptor now.  If the
\* send fails the thread returns at once: nothing it holds is given back.
Invite(t) ==
  LET to == holder[FdOf(ptr[t])]
  IN  /\ At(t, "invite")
      /\ ptr' = [ptr EXCEPT ![t] = NoOne]
      /\ \/ /\ to # NoOne /\ link[to] # "reset"
            /\ Goto(t, "recv")
            /\ UNCHANGED server
         \/ /\ to = NoOne
            /\ Goto(t, "leaked")
            /\ UNCHANGED server
         \/ /\ to # NoOne /\ link[to] = "reset"
            /\ Goto(t, "leaked")
            /\ server' \in {"up", "crashed"}
      /\ UNCHANGED <<shared, fd, name, link, arg, sess, rest, due>>

\* QUERY reads the lists without a lock and answers.
Query(t) ==
  /\ Receive(t) /\ LoggedIn(t)
  /\ Answer(t, "recv", "return")
  /\ UNCHANGED <<shared, fd, name, arg, sess, ptr, rest, due>>

-----------------------------------------------------------------------------
(* message_handler(): the end of a connection *)

\* The peer ends the connection: in order, or with a reset.
PeerCloses(t) ==
  /\ server = "up"
  /\ pc[t] \notin {"idle", "end"} /\ holder[fd[t]] = t
  /\ Overlap \/ \A u \in Thread : AtRest(u) /\ (pc[u] = "recv" => link[u] = "open")
  /\ \E l \in IF t \in Resets THEN {"fin", "reset"} ELSE {"fin"} :
       /\ link[t] = "open" \/ (link[t] = "fin" /\ l = "reset")
       /\ link' = [link EXCEPT ![t] = l]
  /\ UNCHANGED <<server, shared, pc, fd, name, arg, sess, ptr, rest, due>>

\* EXIT, from a client that is logged in.
ExitRequest(t) ==
  /\ Receive(t) /\ LoggedIn(t)
  /\ Goto(t, "close")
  /\ UNCHANGED <<server, shared, fd, name, link, arg, sess, ptr, rest, due>>

\* recv() returns 0: the empty text is no request of a user who is logged in, and
\* is refused to one who is not.
Disconnect(t) ==
  /\ At(t, "recv") /\ link[t] = "fin" /\ Turn(t)
  /\ \/ /\ LoggedIn(t)
        /\ Goto(t, "close")
        /\ UNCHANGED <<server, link>>
     \/ /\ ~LoggedIn(t)
        /\ \E failure \in {"log", "exit(1)"} : Answer(t, "close", failure)
  /\ UNCHANGED <<shared, fd, name, arg, sess, ptr, rest, due>>

\* recv() returns -1, after ten minutes or because of a reset; the TIMEOUT
\* message is then sent on a connection that is no more.
RecvFails(t) ==
  /\ At(t, "recv") /\ link[t] # "fin" /\ Turn(t)
  /\ Answer(t, "close", "log")
  /\ UNCHANGED <<shared, fd, name, arg, sess, ptr, rest, due>>

\* The thread frees newUser and returns.
End(t) ==
  /\ Goto(t, "end")
  /\ fd' = [fd EXCEPT ![t] = NoOne]
  /\ name' = [name EXCEPT ![t] = NoOne]

\* The count taken back as soon as the descriptor is closed, and again later.
CloseMutant(t) ==
  /\ At(t, "close")
  /\ holder' = [holder EXCEPT ![fd[t]] = NoOne]
  /\ userCount' = userCount - 1
  /\ link' = [link EXCEPT ![t] = "open"]
  /\ \/ LoggedIn(t) /\ Goto(t, "unlist") /\ UNCHANGED <<fd, name>>
     \/ ~LoggedIn(t) /\ End(t)
  /\ UNCHANGED <<server, usersLock, sessLock, userList, sessions, raced, arg, sess,
                 ptr, rest, due>>

\* close(): the descriptor is free for the next accept while the lists still
\* hold it.  A thread that never logged in ends here.
Close(t) ==
  /\ At(t, "close")
  /\ holder' = [holder EXCEPT ![fd[t]] = NoOne]
  /\ link' = [link EXCEPT ![t] = "open"]
  /\ \/ LoggedIn(t) /\ Goto(t, "unlist") /\ UNCHANGED <<fd, name>>
     \/ ~LoggedIn(t) /\ End(t)
  /\ UNCHANGED <<server, userCount, usersLock, sessLock, userList, sessions, raced>>
  /\ UNCHANGED <<arg, sess, ptr, rest, due>>

\* The sessions of the user forgotten.
UnlistMutant(t) ==
  /\ At(t, "unlist") /\ usersLock = NoOne
  /\ userList' = removeUser(userList, name[t])
  /\ Goto(t, "uncount")
  /\ UNCHANGED <<server, userCount, holder, usersLock, sessLock, sessions, raced, locals>>

Unlist(t) ==
  /\ At(t, "unlist") /\ usersLock = NoOne
  /\ userList' = removeUser(userList, name[t])
  /\ Goto(t, "purgeFind")
  /\ UNCHANGED <<server, userCount, holder, usersLock, sessLock, sessions, raced, locals>>

PurgeFind(t) ==
  LET i == findSessUser(t)
  IN  /\ At(t, "purgeFind")
      /\ Goto(t, IF i = 0 THEN "uncount" ELSE "purge")
      /\ sess' = [sess EXCEPT ![t] = IF i = 0 THEN NoOne ELSE sessions[i].id]
      /\ UNCHANGED <<server, shared, fd, name, link, arg, ptr, rest, due>>

\* One session left, as if a user could only be in one.
PurgeMutant(t) ==
  /\ At(t, "purge")
  /\ RemoveFound(t, "uncount")

Purge(t) ==
  /\ At(t, "purge")
  /\ RemoveFound(t, "purgeFind")

Uncount(t) ==
  /\ At(t, "uncount")
  /\ userCount' = userCount - 1
  /\ End(t)
  /\ UNCHANGED <<server, holder, usersLock, sessLock, userList, sessions, raced>>
  /\ UNCHANGED <<link, arg, sess, ptr, rest, due>>

-----------------------------------------------------------------------------

\* What a client asks for.
Request(t) ==
  \/ RefuseLogin(t) \/ ExitRequest(t) \/ LeaveAllRequest(t) \/ Query(t)
  \/ \E a \in Account : LoginRequest(t, a)
  \/ \E s \in SessName : \/ JoinRequest(t, s) \/ LeaveRequest(t, s)
                         \/ NewRequest(t, s) \/ MessageRequest(t, s)
                         \/ \E a \in Account : InviteRequest(t, a, s)

\* What a thread does of its own accord.
Work(t) ==
  \/ LoginWalk(t) \/ LoginLink(t) \/ JoinWalk(t) \/ JoinLink(t)
  \/ Leave(t) \/ AnswerLeave(t) \/ LeaveFind(t) \/ LeaveAll(t)
  \/ NewLink(t) \/ Broadcast(t) \/ Invite(t) \/ Disconnect(t)
  \/ Close(t) \/ Unlist(t) \/ PurgeFind(t) \/ Purge(t) \/ Uncount(t)

Next ==
  \/ AcceptTimeout
  \/ \E t \in Thread : \/ Accept(t) \/ Request(t) \/ Work(t)
                       \/ PeerCloses(t) \/ RecvFails(t)

Spec == Init /\ [][Next]_vars

\* A thread that can run keeps running, and accept() times out in the end if
\* nobody connects.  Nothing is owed by the clients.
FairSpec ==
  /\ Spec
  /\ WF_vars(AcceptTimeout)
  /\ \A t \in Thread : WF_vars(Work(t))

-----------------------------------------------------------------------------
(* What holds however the threads interleave *)

Members(i) == {Owner(sessions[i].users[j]) : j \in DOMAIN sessions[i].users}
MemberOf(t, s) == \E i \in DOMAIN sessions : Named(sessions[i].id) = s /\ t \in Members(i)

\* "Session already exist" (server.c:276-311): a name has two sessions only when
\* two NEW_SESS of it were under way at once, each past its look at the list.
SessionNamesUnique ==
  \A i, j \in DOMAIN sessions :
    Named(sessions[i].id) = Named(sessions[j].id) => i = j \/ Named(sessions[i].id) \in raced

\* A session ends with its last user (message.h:280-287), however its users came
\* in (twice, perhaps) and went (one, all, disconnected), in whatever order: only
\* one made twice may stay behind empty, its namesake freed in its place.
SessionsHaveUsers ==
  \A i \in DOMAIN sessions : sessions[i].users # <<>> \/ Named(sessions[i].id) \in raced

\* Every node of every session belongs to a connection that is open, on the
\* descriptor the node holds, with its account still in user_list; or to one that
\* its thread has closed and is cleaning up (server.c:556-567).
MembersAreConnected ==
  server = "up" =>
    \A i \in DOMAIN sessions : \A n \in ToSet(sessions[i].users) :
      \/ pc[Owner(n)] \in {"unlist", "purgeFind", "purge"}
      \/ /\ holder[FdOf(n)] = Owner(n)
         /\ \E k \in DOMAIN userList : NameOf(userList[k]) = NameOf(n)

\* A client can believe its answers: with JN_ACK it is in a session of the name,
\* unless the one its thread had found was freed while it waited for the lock; with
\* NS_ACK it is in one; with the LS_ACK to "all" it is in none (server.c:178-325).
AnswersAreTrue ==
  [][\A t \in Thread, s \in SessName : pc'[t] = "recv" =>
       /\ pc[t] = "joinLink" /\ arg[t] = s /\ sess[t] \in Ids(sessions) => MemberOf(t, s)'
       /\ pc[t] = "newLink" /\ arg[t] = s => MemberOf(t, s)'
       /\ pc[t] = "leaveFind" => ~MemberOf(t, s)']_vars

Connected(u) == \E f \in Fd : holder[f] = u

\* Those who were in the session when the broadcast of t started, are in it still,
\* have stayed connected, and are not sent the message, if the walk ends now.
Missed(t) ==
  {u \in due[t] : /\ Connected(u) /\ holder[FdOf(ptr[t])] # u
                  /\ \E i \in DOMAIN sessions : sessions[i].id = sess[t] /\ u \in Members(i)}

\* A broadcast misses nobody, whoever joined, left or took over a descriptor in
\* the meantime (server.c:389-403), unless the very node it had come to was taken
\* out of the session: there the walk ends.
EveryMemberHears ==
  [][\A t \in Thread : pc[t] = "broadcast" /\ pc'[t] = "recv" /\ Missed(t) # {} =>
         \A i \in DOMAIN sessions :
           sessions[i].id = sess[t] => ptr[t] \notin ToSet(sessions[i].users)]_vars

\* No connection is alive uncounted (server.c:569-571, 704-706).
CountCoversConnections ==
  userCount >= Cardinality({t \in Thread : pc[t] \notin {"idle", "end"}})

\* When main closes the server, nobody is connected any more (server.c:696).
ClosedOnlyWhenIdle ==
  server = "closed" => \A t \in Thread : pc[t] \in {"idle", "end"}

\* The login of t is in effect: after its node is linked, before it is unlinked.
InEffect(t) == LoggedIn(t) /\ pc[t] \notin {"loginWalk", "loginLink", "purgeFind",
                                            "purge", "uncount"}

\* user_list is the "list for every users currently logged in" (server.c:35): of
\* every account it has as many nodes as there are logins in effect.  No insertion
\* is lost to another one, and no removal, by name though it is, takes too many.
UserListIsLoggedIn ==
  server = "up" =>
    \A a \in Account :
      Cardinality({k \in DOMAIN userList : NameOf(userList[k]) = a})
        = Cardinality({t \in Thread : name[t] = a /\ InEffect(t)})

\* A thread that has cleaned up has left no node in any session: nobody can be
\* sent a message through it (server.c:561-567).  A thread that leaves by "return"
\* after a failed send (pc "leaked") cleans up nothing and is not spoken of.
EndedLeavesNothing ==
  \A t \in Thread : pc[t] \in {"uncount", "end"} =>
    \A i \in DOMAIN sessions : t \notin Members(i)

-----------------------------------------------------------------------------
(* What holds when requests do not interleave *)

\* Every request, and every ending, is worked off: the loops of LEAVE_SESS and
\* of the clean-up (server.c:231-236, 562-567) come to an end.
EveryRequestFinishes ==
  (\E t \in Thread : ~AtRest(t)) ~> ((\A t \in Thread : AtRest(t)) \/ server # "up")

-----------------------------------------------------------------------------
(* What the documentation says and the code does not do *)

\* "LS_ACK, //successful leaving" (Design and Implementation.txt:44).
LeaveMeansLeft ==
  [][\A t \in Thread, s \in SessName :
       pc[t] = "left" /\ pc'[t] = "recv" /\ arg[t] = s => ~MemberOf(t, s)']_vars

\* "When no client is using the server for 10 minutes straight the server will
\* close." (Design and Implementation.txt:17)
IdleServerCloses ==
  (<>[]\A t \in Thread : pc[t] \in {"idle", "end"}) => <>(server = "closed")

=============================================================================
