--------------------------- MODULE ConfServerMembers ---------------------------
(***************************************************************************)
(* Who is in a session, who is in user_list and who has which descriptor,  *)
(* what a client may believe of its answers and whom a broadcast reaches,  *)
(* however the threads of the conferencing server interleave.              *)
(***************************************************************************)
EXTENDS ConfServerProofs

-----------------------------------------------------------------------------
(* What one step may do *)

\* A step of the thread t, or of the peer at its other end.
Step(t) == Accept(t) \/ Request(t) \/ Work(t) \/ PeerCloses(t) \/ RecvFails(t)

\* Nothing that belongs to another thread moves.
OnlyMoves(t) ==
  /\ server = "up"
  /\ \A u \in Thread \ {t} :
       /\ pc'[u] = pc[u] /\ fd'[u] = fd[u] /\ name'[u] = name[u] /\ link'[u] = link[u]
       /\ arg'[u] = arg[u] /\ sess'[u] = sess[u] /\ ptr'[u] = ptr[u]
       /\ due'[u] = due[u]

\* The threads whose descriptors are open and their own.
Holding ==
  {t \in Thread : pc[t] \notin {"idle", "end", "unlist", "purgeFind", "purge", "uncount"}}

\* No connection begins or ends, and no login.
KeepsLogins(t) ==
  /\ UNCHANGED <<holder, fd, name, userList>>
  /\ (t \in Holding' <=> t \in Holding)
  /\ InEffect(t)' <=> InEffect(t)
  /\ pc'[t] \in {"idle", "end"} => pc[t] \in {"idle", "end"}

\* A request moves the thread of its client (server.c:66-541).
LEMMA RequestsMoveOne ==
  ASSUME TypeInv, NEW t \in Thread, Request(t)
  PROVE  OnlyMoves(t) /\ (KeepsLogins(t) \/ \E a \in Account : LoginRequest(t, a))
<1>1. CASE RefuseLogin(t) \/ ExitRequest(t) \/ LeaveAllRequest(t) \/ Query(t)
  BY <1>1 DEF RefuseLogin, ExitRequest, LeaveAllRequest, Query, Receive, Answer, Goto, shared,
              OnlyMoves, KeepsLogins, Holding, InEffect, LoggedIn, TypeInv, PlacesTyped, LocalsTyped
<1>2. ASSUME NEW a \in Account, LoginRequest(t, a) PROVE OnlyMoves(t)
  BY <1>2 DEF LoginRequest, Receive, Goto, shared, OnlyMoves, TypeInv, PlacesTyped, LocalsTyped
<1>3. ASSUME NEW s \in SessName, JoinRequest(t, s) \/ LeaveRequest(t, s)
      PROVE  OnlyMoves(t) /\ KeepsLogins(t)
  BY <1>3 DEF JoinRequest, LeaveRequest, Receive, Answer, Goto, shared,
              OnlyMoves, KeepsLogins, Holding, InEffect, LoggedIn, TypeInv, PlacesTyped, LocalsTyped
<1>4. ASSUME NEW s \in SessName, NewRequest(t, s) \/ MessageRequest(t, s)
      PROVE  OnlyMoves(t) /\ KeepsLogins(t)
  BY <1>4 DEF NewRequest, MessageRequest, Receive, Answer, Goto, shared,
              OnlyMoves, KeepsLogins, Holding, InEffect, LoggedIn, TypeInv, PlacesTyped, LocalsTyped
<1>5. ASSUME NEW s \in SessName, NEW a \in Account, InviteRequest(t, a, s)
      PROVE  OnlyMoves(t) /\ KeepsLogins(t)
  BY <1>5 DEF InviteRequest, Receive, Answer, Goto, shared,
              OnlyMoves, KeepsLogins, Holding, InEffect, LoggedIn, TypeInv, PlacesTyped, LocalsTyped
<1> QED BY <1>1, <1>2, <1>3, <1>4, <1>5 DEF Request

\* So does all the rest, but that accept() starts a thread and that a thread links
\* its node, closes, takes its node out and ends (server.c:114-117, 556-581, 692-709).
LEMMA WorkMovesOne ==
  ASSUME TypeInv, NEW t \in Thread, Accept(t) \/ Work(t) \/ PeerCloses(t) \/ RecvFails(t)
  PROVE  /\ OnlyMoves(t)
         /\ \/ KeepsLogins(t) \/ Accept(t) \/ LoginLink(t) \/ Close(t) \/ Unlist(t) \/ Uncount(t)
<1>1. CASE LoginWalk(t) \/ JoinWalk(t) \/ JoinLink(t) \/ NewLink(t)
  BY <1>1 DEF LoginWalk, JoinWalk, JoinLink, NewLink, At, Answer, Goto,
              OnlyMoves, KeepsLogins, Holding, InEffect, LoggedIn, TypeInv, PlacesTyped, LocalsTyped
<1>2. CASE Leave(t) \/ LeaveAll(t) \/ Purge(t)
  <2>1. PICK next \in {"left", "leaveFind", "purgeFind"} :
          RemoveFound(t, next) /\ (next = "purgeFind" <=> pc[t] = "purge")
    BY <1>2 DEF Leave, LeaveAll, Purge, At
  <2>2. /\ pc[t] \in {"leave", "leaveAll", "purge"} /\ server = "up"
        /\ pc' = [pc EXCEPT ![t] = next]
        /\ sess' = [sess EXCEPT ![t] = NoOne]
        /\ UNCHANGED <<holder, userList, fd, name, link, arg, ptr, due>>
    BY <1>2, <2>1 DEF Leave, LeaveAll, Purge, At, RemoveFound, Goto
  <2>3. OnlyMoves(t)
    BY <2>2 DEF OnlyMoves, TypeInv, PlacesTyped, LocalsTyped
  <2>4. KeepsLogins(t)
    BY <2>1, <2>2 DEF KeepsLogins, Holding, InEffect, LoggedIn, TypeInv, PlacesTyped
  <2> QED BY <2>3, <2>4
<1>3. CASE AnswerLeave(t) \/ LeaveFind(t) \/ Disconnect(t) \/ RecvFails(t)
  BY <1>3 DEF AnswerLeave, LeaveFind, Disconnect, RecvFails, At, Answer, Goto, shared,
              OnlyMoves, KeepsLogins, Holding, InEffect, LoggedIn, TypeInv, PlacesTyped, LocalsTyped
<1>4. CASE Broadcast(t) \/ Invite(t)
  BY <1>4 DEF Broadcast, WalkOn, Invite, At, Goto, shared,
              OnlyMoves, KeepsLogins, Holding, InEffect, LoggedIn, TypeInv, PlacesTyped, LocalsTyped
<1>5. CASE PurgeFind(t) \/ PeerCloses(t)
  BY <1>5 DEF PurgeFind, PeerCloses, At, Goto, shared,
              OnlyMoves, KeepsLogins, Holding, InEffect, LoggedIn, TypeInv, PlacesTyped, LocalsTyped
<1>6. CASE Accept(t) \/ LoginLink(t) \/ Close(t) \/ Unlist(t) \/ Uncount(t)
  BY <1>6 DEF Accept, FreeFds, LoginLink, Close, Unlist, Uncount, End, At, Answer, Goto, locals,
              OnlyMoves, TypeInv, PlacesTyped, LocalsTyped
<1> QED BY <1>1, <1>2, <1>3, <1>4, <1>5, <1>6 DEF Work

\* Every step is one thread's, or main's accept() timing out, or none.
LEMMA StepsOfOne ==
  ASSUME [Next]_vars
  PROVE  vars' = vars \/ AcceptTimeout \/ \E t \in Thread : Step(t)
BY DEF Next, Step

-----------------------------------------------------------------------------
(* Descriptors *)

\* A thread that has not closed its connection has the descriptor to itself, and no
\* other thread has one.
HeldInv ==
  /\ \A t \in Thread : t \in Holding => holder[fd[t]] = t
  /\ \A f \in Fd : holder[f] # NoOne => holder[f] \in Holding /\ fd[holder[f]] = f

\* accept() gives away no descriptor in use, and close() no other than its thread's
\* (server.c:556, 694).
LEMMA StepsKeepHeld ==
  ASSUME TypeInv, HeldInv, NEW t \in Thread, Step(t)
  PROVE  HeldInv'
<1>1. /\ \A u \in Thread : u \in Holding => fd[u] \in Fd /\ holder[fd[u]] = u
      /\ \A f \in Fd : holder[f] # NoOne =>
           holder[f] \in Thread /\ holder[f] \in Holding /\ fd[holder[f]] = f
  BY DEF HeldInv, Holding, TypeInv, PlacesTyped, SharedTyped
<1>2. OnlyMoves(t)
  BY RequestsMoveOne, WorkMovesOne DEF Step
<1>3. \A u \in Thread \ {t} : (u \in Holding' <=> u \in Holding) /\ fd'[u] = fd[u]
  BY <1>2 DEF OnlyMoves, Holding
<1>4. CASE UNCHANGED holder /\ (t \in Holding' <=> t \in Holding) /\ (t \in Holding => fd'[t] = fd[t])
  BY <1>1, <1>3, <1>4, ConstantsAssumption DEF HeldInv
<1>5. CASE KeepsLogins(t)
  BY <1>4, <1>5 DEF KeepsLogins
<1>6. CASE \E a \in Account : LoginRequest(t, a)
  <2>1. UNCHANGED <<holder, fd>> /\ (t \in Holding' <=> t \in Holding)
    BY <1>6 DEF LoginRequest, Receive, Goto, shared, Holding, TypeInv, PlacesTyped
  <2> QED BY <1>4, <2>1
<1>7. CASE Accept(t)
  <2>1. PICK f \in FreeFds : fd' = [fd EXCEPT ![t] = f] /\ holder' = [holder EXCEPT ![f] = t]
    BY <1>7 DEF Accept
  <2>2. f \in Fd /\ holder[f] = NoOne
    BY <2>1 DEF FreeFds
  <2>3. t \notin Holding /\ t \in Holding'
    BY <1>7 DEF Accept, At, Goto, Holding, TypeInv, PlacesTyped
  <2>4. \A u \in Thread : u \in Holding' => holder'[fd'[u]] = u
    <3> TAKE u \in Thread
    <3> HAVE u \in Holding'
    <3>1. CASE u = t
      BY <2>1, <2>2, <3>1 DEF TypeInv, SharedTyped, LocalsTyped
    <3>2. CASE u # t
      <4>1. fd'[u] = fd[u] /\ fd[u] \in Fd /\ holder[fd[u]] = u
        BY <1>1, <1>3, <3>2
      <4>2. fd[u] # f
        BY <2>2, <4>1, ConstantsAssumption
      <4> QED BY <2>1, <4>1, <4>2 DEF TypeInv, SharedTyped
    <3> QED BY <3>1, <3>2
  <2>5. ASSUME NEW g \in Fd, holder'[g] # NoOne
        PROVE  holder'[g] \in Holding' /\ fd'[holder'[g]] = g
    <3>1. CASE g = f
      BY <2>1, <2>3, <3>1 DEF TypeInv, SharedTyped, LocalsTyped
    <3>2. CASE g # f
      <4>1. holder'[g] = holder[g]
        BY <2>1, <3>2 DEF TypeInv, SharedTyped
      <4> QED BY <1>1, <1>3, <2>3, <2>5, <4>1
    <3> QED BY <3>1, <3>2
  <2> QED BY <2>4, <2>5 DEF HeldInv
<1>8. CASE Close(t)
  <2>1. pc[t] = "close" /\ holder' = [holder EXCEPT ![fd[t]] = NoOne] /\ pc'[t] \in {"unlist", "end"}
    BY <1>8 DEF Close, End, At, Goto, TypeInv, PlacesTyped
  <2>2. t \in Holding /\ t \notin Holding' /\ fd[t] \in Fd
    BY <1>1, <2>1 DEF Holding
  <2>3. \A u \in Thread : u \in Holding' => holder'[fd'[u]] = u
    <3> TAKE u \in Thread
    <3> HAVE u \in Holding'
    <3>1. u # t /\ u \in Holding /\ fd'[u] = fd[u]
      BY <1>3, <2>2
    <3>2. fd[u] \in Fd /\ holder[fd[u]] = u /\ fd[u] # fd[t]
      BY <1>1, <2>2, <3>1
    <3> QED BY <2>1, <3>1, <3>2 DEF TypeInv, SharedTyped
  <2>4. ASSUME NEW g \in Fd, holder'[g] # NoOne
        PROVE  holder'[g] \in Holding' /\ fd'[holder'[g]] = g
    <3>1. g # fd[t] /\ holder'[g] = holder[g]
      BY <2>1, <2>2, <2>4 DEF TypeInv, SharedTyped
    <3> QED BY <1>1, <1>3, <2>4, <3>1
  <2> QED BY <2>3, <2>4 DEF HeldInv
<1>9. CASE LoginLink(t) \/ Unlist(t) \/ Uncount(t)
  <2>1. UNCHANGED holder /\ (t \in Holding' <=> t \in Holding) /\ (t \in Holding => fd'[t] = fd[t])
    BY <1>9 DEF LoginLink, Unlist, Uncount, End, At, Answer, Goto, locals, Holding,
                TypeInv, PlacesTyped
  <2> QED BY <1>4, <2>1
<1> QED BY <1>5, <1>6, <1>7, <1>8, <1>9, RequestsMoveOne, WorkMovesOne DEF Step

\* No two connections that are open share a descriptor, for any number of them and
\* of descriptors, however they interleave: what is sent to the descriptor of a
\* thread that has not closed it goes to the peer of that thread (server.c:393-402,
\* 443-449, 556).
THEOREM DescriptorsAreTheirs == Spec => []HeldInv
<1>1. Init => HeldInv
  BY ConstantsAssumption DEF Init, HeldInv, Holding
<1>2. TypeInv /\ HeldInv /\ [Next]_vars => HeldInv'
  <2> SUFFICES ASSUME TypeInv, HeldInv, [Next]_vars PROVE HeldInv'
    OBVIOUS
  <2>1. CASE vars' = vars \/ AcceptTimeout
    BY <2>1 DEF vars, shared, locals, AcceptTimeout, HeldInv, Holding
  <2> QED BY <2>1, StepsOfOne, StepsKeepHeld
<1> QED BY <1>1, <1>2, TypeIsKept, PTL DEF Spec

-----------------------------------------------------------------------------
(* The users in the list *)

\* An account belongs to one thread, and to none that has ended.
OneLoginEach ==
  /\ \A t, u \in Thread : LoggedIn(t) /\ name[t] = name[u] => t = u
  /\ \A t \in Thread : pc[t] \in {"idle", "end"} => ~LoggedIn(t)

\* Every login in effect has its node in user_list.
LoginsAreListed == \A t \in Thread : InEffect(t) => UserNode(t) \in ToSet(userList)

\* And every node is that of a login in effect, with its name and descriptor.
NodesAreLogins ==
  server = "up" => \A n \in ToSet(userList) : InEffect(Owner(n)) /\ n = UserNode(Owner(n))

ListInv == OneLoginEach /\ LoginsAreListed /\ NodesAreLogins

\* The owners of nodes are threads.
LEMMA ListedAreThreads ==
  ASSUME TypeInv, NEW n \in ToSet(userList)
  PROVE  n \in Node /\ Owner(n) \in Thread
<1>1. n \in Node
  BY DEF TypeInv, SharedTyped, ToSet
<1> QED BY <1>1 DEF Node, Owner

\* A login takes an account that nobody has, and an end gives it back.
LEMMA StepsKeepOneLogin ==
  ASSUME SharedAccounts = {}, TypeInv, OneLoginEach, NEW t \in Thread, Step(t)
  PROVE  OneLoginEach'
<1>1. OnlyMoves(t)
  BY RequestsMoveOne, WorkMovesOne DEF Step
<1>2. CASE KeepsLogins(t)
  BY <1>1, <1>2 DEF OnlyMoves, KeepsLogins, OneLoginEach, LoggedIn
<1>3. ASSUME NEW a \in Account, LoginRequest(t, a) PROVE OneLoginEach'
  <2>1. name' = [name EXCEPT ![t] = a] /\ \A u \in Thread : name[u] # a
    BY <1>3 DEF LoginRequest
  <2>2. pc'[t] = "loginWalk" /\ \A u \in Thread \ {t} : pc'[u] = pc[u]
    BY <1>1, <1>3 DEF LoginRequest, Goto, OnlyMoves, TypeInv, PlacesTyped
  <2> QED BY <2>1, <2>2 DEF OneLoginEach, LoggedIn, TypeInv, LocalsTyped
<1>4. CASE Accept(t) \/ LoginLink(t) \/ Unlist(t)
  <2>1. UNCHANGED name /\ (pc'[t] \in {"idle", "end"} => pc[t] \in {"idle", "end"})
    BY <1>4 DEF Accept, LoginLink, Unlist, Answer, At, Goto, locals, TypeInv, PlacesTyped
  <2> QED BY <1>1, <2>1 DEF OnlyMoves, OneLoginEach, LoggedIn
<1>5. CASE Close(t) \/ Uncount(t)
  <2>1. \/ name' = [name EXCEPT ![t] = NoOne]
        \/ UNCHANGED name /\ pc'[t] = "unlist"
    BY <1>5 DEF Close, Uncount, End, Goto, TypeInv, PlacesTyped
  <2> QED BY <1>1, <2>1 DEF OnlyMoves, OneLoginEach, LoggedIn, TypeInv, LocalsTyped
<1> QED BY <1>2, <1>3, <1>4, <1>5, RequestsMoveOne, WorkMovesOne DEF Step

\* A step that leaves the list and the logins in effect alone keeps the two in
\* accord.
LEMMA ApartKeepsList ==
  ASSUME TypeInv, ListInv, NEW t \in Thread, OnlyMoves(t), OneLoginEach',
         UNCHANGED userList,
         InEffect(t)' <=> InEffect(t),
         InEffect(t) => fd'[t] = fd[t] /\ name'[t] = name[t]
  PROVE  ListInv'
<1>1. \A u \in Thread : InEffect(u)' <=> InEffect(u)
  BY DEF OnlyMoves, InEffect, LoggedIn
<1>2. \A u \in Thread : InEffect(u) => UserNode(u)' = UserNode(u)
  BY DEF OnlyMoves, UserNode
<1>3. LoginsAreListed'
  BY <1>1, <1>2 DEF ListInv, LoginsAreListed
<1>4. NodesAreLogins'
  BY <1>1, <1>2, ListedAreThreads DEF ListInv, NodesAreLogins, OnlyMoves
<1> QED BY <1>3, <1>4 DEF ListInv

\* The node of a login comes into the list with its login (server.c:114-117).
LEMMA LinkKeepsList ==
  ASSUME TypeInv, UsersInv, ListInv, NEW t \in Thread, LoginLink(t), OneLoginEach'
  PROVE  ListInv'
<1> DEFINE node == UserNode(t)
<1>1. /\ server = "up" /\ pc[t] = "loginLink" /\ UNCHANGED <<name, fd>>
      /\ (server' # "up" /\ pc' = pc) \/ (server' = "up" /\ pc' = [pc EXCEPT ![t] = "recv"])
  BY DEF LoginLink, At, Answer, Goto
<1>2. node \in Node /\ Owner(node) = t
  BY <1>1 DEF TypeInv, PlacesTyped, UserNode, Node, Owner, Inside, Busy
<1>3. userList' = Append(userList, node)
  BY <1>1, <1>2, LinkAppends DEF LoginLink, UsersInv
<1>4. UserNode(t)' = node /\ \A u \in Thread : UserNode(u)' = UserNode(u)
  BY <1>1 DEF UserNode
<1> HIDE DEF node
<1>5. ToSet(userList') = ToSet(userList) \cup {node}
  <2>1. /\ DOMAIN userList' = 1 .. Len(userList) + 1 /\ DOMAIN userList = 1 .. Len(userList)
        /\ \A i \in 1 .. Len(userList) : userList'[i] = userList[i]
        /\ userList'[Len(userList) + 1] = node
    BY <1>2, <1>3 DEF TypeInv, SharedTyped
  <2>2. Len(userList) \in Nat
    BY DEF TypeInv, SharedTyped
  <2> QED BY <2>1, <2>2 DEF ToSet
<1>6. \A u \in Thread \ {t} : InEffect(u)' <=> InEffect(u)
  BY <1>1 DEF InEffect, LoggedIn, TypeInv, PlacesTyped
<1>7. LoginsAreListed'
  BY <1>4, <1>5, <1>6 DEF ListInv, LoginsAreListed
<1>8. NodesAreLogins'
  <2> SUFFICES ASSUME server' = "up", NEW n \in ToSet(userList')
               PROVE  InEffect(Owner(n))' /\ n = UserNode(Owner(n))'
    BY DEF NodesAreLogins
  <2>1. CASE n = node
    <3>1. InEffect(t)'
      BY <1>1, ConstantsAssumption DEF InEffect, LoggedIn, TypeInv, PlacesTyped, Inside, Busy
    <3> QED BY <1>2, <1>4, <2>1, <3>1
  <2>2. CASE n \in ToSet(userList)
    <3>1. InEffect(Owner(n)) /\ n = UserNode(Owner(n)) /\ Owner(n) \in Thread
      BY <1>1, <2>2, ListedAreThreads DEF ListInv, NodesAreLogins
    <3>2. Owner(n) # t
      BY <1>1, <3>1 DEF InEffect
    <3> QED BY <1>4, <1>6, <3>1, <3>2
  <2> QED BY <1>5, <2>1, <2>2
<1> QED BY <1>7, <1>8 DEF ListInv

\* With an account in one hand a removal by name takes the right node
\* (server.c:558-560).
LEMMA UnlistKeepsList ==
  ASSUME TypeInv, UsersInv, ListInv, NEW t \in Thread, Unlist(t), OneLoginEach'
  PROVE  ListInv'
<1> DEFINE I == {i \in 1 .. Len(userList) : NameOf(userList[i]) = name[t]}
           m == Min(I)
<1>1. /\ server = "up" /\ server' = "up" /\ pc[t] = "unlist"
      /\ userList' = removeUser(userList, name[t])
      /\ pc' = [pc EXCEPT ![t] = "purgeFind"]
      /\ UNCHANGED <<name, fd>>
  BY DEF Unlist, At, Goto, locals
<1>2. userList \in Seq(Node) /\ Len(userList) \in Nat /\ DOMAIN userList = 1 .. Len(userList)
  BY DEF TypeInv, SharedTyped
<1>3. InEffect(t)
  BY <1>1, ConstantsAssumption DEF InEffect, LoggedIn, TypeInv, PlacesTyped, Inside, Busy
<1>4. PICK k \in 1 .. Len(userList) : userList[k] = UserNode(t)
  BY <1>2, <1>3 DEF ListInv, LoginsAreListed, ToSet
<1>5. k \in I
  BY <1>4 DEF UserNode, NameOf
<1>6. m \in I
  <2>1. I \in SUBSET Nat
    OBVIOUS
  <2> HIDE DEF I
  <2> QED BY <1>5, <2>1, LeastIsFound
<1>7. userList' = RemoveAt(userList, m)
  BY <1>1, <1>5, Zenon DEF removeUser, RemoveFirstMatch, SelectInSeq
<1>8. m \in 1 .. Len(userList) /\ NameOf(userList[m]) = name[t]
  BY <1>6
<1> HIDE DEF I, m
<1>9. \A i \in DOMAIN userList :
        Owner(userList[i]) \in Thread /\ InEffect(Owner(userList[i]))
          /\ userList[i] = UserNode(Owner(userList[i]))
  BY <1>1, ListedAreThreads DEF ListInv, NodesAreLogins, ToSet
<1>10. Owner(userList[m]) = t
  <2>1. userList[m] = UserNode(Owner(userList[m])) /\ Owner(userList[m]) \in Thread
    BY <1>2, <1>8, <1>9
  <2>2. NameOf(userList[m]) = name[Owner(userList[m])]
    BY <2>1 DEF UserNode, NameOf
  <2> QED BY <1>3, <1>8, <2>1, <2>2 DEF ListInv, OneLoginEach, InEffect
<1>11. \A i \in DOMAIN userList : i # m => Owner(userList[i]) # t
  BY <1>1, <1>2, <1>8, <1>10 DEF UsersInv, OneNodeEach
<1>12. /\ DOMAIN userList' = 1 .. Len(userList) - 1
       /\ \A j \in 1 .. Len(userList) - 1 :
            userList'[j] = IF j < m THEN userList[j] ELSE userList[j + 1]
  BY <1>2, <1>7, <1>8, RemoveAtShifts
<1>13. \A u \in Thread : /\ UserNode(u)' = UserNode(u)
                         /\ u # t => (InEffect(u)' <=> InEffect(u))
  BY <1>1 DEF UserNode, InEffect, LoggedIn, TypeInv, PlacesTyped
<1>14. LoginsAreListed'
  <2> SUFFICES ASSUME NEW u \in Thread, InEffect(u)' PROVE UserNode(u)' \in ToSet(userList')
    BY DEF LoginsAreListed
  <2>1. u # t
    BY <1>1 DEF InEffect, TypeInv, PlacesTyped
  <2>2. PICK i \in 1 .. Len(userList) : userList[i] = UserNode(u)
    BY <1>2, <1>13, <2>1 DEF ListInv, LoginsAreListed, ToSet
  <2>3. i # m
    BY <1>10, <2>1, <2>2 DEF UserNode, Owner
  <2> DEFINE j == IF i < m THEN i ELSE i - 1
  <2>4. j \in DOMAIN userList' /\ userList'[j] = userList[i]
    BY <1>2, <1>8, <1>12, <2>3
  <2> HIDE DEF j
  <2>5. userList'[j] \in ToSet(userList')
    BY <2>4 DEF ToSet
  <2> QED BY <1>13, <2>2, <2>4, <2>5
<1>15. NodesAreLogins'
  <2> SUFFICES ASSUME NEW n \in ToSet(userList')
               PROVE  InEffect(Owner(n))' /\ n = UserNode(Owner(n))'
    BY DEF NodesAreLogins
  <2>0. PICK j \in 1 .. Len(userList) - 1 : n = userList'[j]
    BY <1>12 DEF ToSet
  <2> DEFINE i == IF j < m THEN j ELSE j + 1
  <2>1. i \in DOMAIN userList /\ i # m /\ n = userList[i]
    BY <1>2, <1>8, <1>12, <2>0
  <2> HIDE DEF i
  <2>2. Owner(n) \in Thread \ {t} /\ InEffect(Owner(n)) /\ n = UserNode(Owner(n))
    BY <1>9, <1>11, <2>1
  <2> QED BY <1>13, <2>2
<1> QED BY <1>14, <1>15 DEF ListInv

\* The other steps leave the list alone, and the name and the descriptor of a login
\* in effect.
LEMMA StepsKeepList ==
  ASSUME SharedAccounts = {}, TypeInv, UsersInv, ListInv, NEW t \in Thread, Step(t)
  PROVE  ListInv'
<1>1. OnlyMoves(t)
  BY RequestsMoveOne, WorkMovesOne DEF Step
<1>2. OneLoginEach'
  BY StepsKeepOneLogin DEF ListInv
<1>3. CASE KeepsLogins(t)
  BY <1>1, <1>2, <1>3, ApartKeepsList DEF KeepsLogins
<1>4. ASSUME NEW a \in Account, LoginRequest(t, a) PROVE ListInv'
  <2>1. ~InEffect(t) /\ ~InEffect(t)' /\ UNCHANGED userList
    BY <1>4 DEF LoginRequest, Receive, Goto, shared, InEffect, TypeInv, PlacesTyped
  <2> QED BY <1>1, <1>2, <2>1, ApartKeepsList
<1>5. CASE Accept(t)
  <2>1. ~LoggedIn(t) /\ UNCHANGED <<name, userList>>
    BY <1>5 DEF Accept, At, ListInv, OneLoginEach
  <2>2. ~InEffect(t) /\ ~InEffect(t)'
    BY <2>1 DEF InEffect, LoggedIn
  <2> QED BY <1>1, <1>2, <2>1, <2>2, ApartKeepsList
<1>6. CASE Close(t)
  <2>1. \/ /\ LoggedIn(t) /\ UNCHANGED <<fd, name, userList>>
           /\ pc[t] = "close" /\ pc'[t] = "unlist"
        \/ ~LoggedIn(t) /\ name'[t] = NoOne /\ UNCHANGED userList
    BY <1>6 DEF Close, End, At, Goto, TypeInv, PlacesTyped, LocalsTyped
  <2>2. InEffect(t)' <=> InEffect(t)
    BY <2>1 DEF InEffect, LoggedIn
  <2>3. InEffect(t) => fd'[t] = fd[t] /\ name'[t] = name[t]
    BY <2>1 DEF InEffect
  <2> QED BY <1>1, <1>2, <2>1, <2>2, <2>3, ApartKeepsList
<1>7. CASE Uncount(t)
  <2>1. pc[t] = "uncount" /\ name'[t] = NoOne /\ UNCHANGED userList
    BY <1>7 DEF Uncount, End, At, TypeInv, LocalsTyped
  <2>2. ~InEffect(t) /\ ~InEffect(t)'
    BY <2>1 DEF InEffect, LoggedIn
  <2> QED BY <1>1, <1>2, <2>1, <2>2, ApartKeepsList
<1> QED
  BY <1>2, <1>3, <1>4, <1>5, <1>6, <1>7, RequestsMoveOne, WorkMovesOne, LinkKeepsList,
     UnlistKeepsList DEF Step

\* Where no account is used twice, user_list holds the very logins in effect, each
\* with its own name and descriptor, however the connections interleave, end or are
\* reset: INVITE finds the user it names (server.c:35, 114-117, 558-560).
THEOREM UsersAreListed == ASSUME SharedAccounts = {} PROVE Spec => []ListInv
<1>1. Init => ListInv
  BY DEF Init, ListInv, OneLoginEach, LoginsAreListed, NodesAreLogins, InEffect, LoggedIn, ToSet
<1>2. TypeInv /\ UsersInv /\ ListInv /\ [Next]_vars => ListInv'
  <2> SUFFICES ASSUME TypeInv, UsersInv, ListInv, [Next]_vars PROVE ListInv'
    OBVIOUS
  <2>1. CASE vars' = vars \/ AcceptTimeout
    <3>1. UNCHANGED <<pc, fd, name, userList>> /\ (server' = "up" => server = "up")
      BY <2>1 DEF vars, shared, locals, AcceptTimeout
    <3> QED
      BY <3>1 DEF ListInv, OneLoginEach, LoginsAreListed, NodesAreLogins, InEffect, LoggedIn, UserNode
  <2> QED BY <2>1, StepsOfOne, StepsKeepList
<1> QED BY <1>1, <1>2, TypeIsKept, UsersAreKept, PTL DEF Spec

-----------------------------------------------------------------------------
(* Members that are connected *)

\* For any number of connections and accounts, shared ones and resets included, and
\* however the threads interleave: a session has no ghosts. Who is in one is connected,
\* on the descriptor its node holds, with its account in user_list, unless its thread
\* is cleaning up (server.c:178-325, 556-571; message.h:199-278).
THEOREM MembersStayConnected == Spec => []MembersAreConnected
<1>1. TypeInv /\ LeftInv /\ HeldInv /\ UsersInv => MembersAreConnected
  <2> SUFFICES ASSUME TypeInv, LeftInv, HeldInv, UsersInv, server = "up",
                      NEW i \in DOMAIN sessions, NEW n \in ToSet(sessions[i].users),
                      pc[Owner(n)] \notin {"unlist", "purgeFind", "purge"}
               PROVE  /\ holder[FdOf(n)] = Owner(n)
                      /\ \E k \in DOMAIN userList : NameOf(userList[k]) = NameOf(n)
    BY DEF MembersAreConnected
  <2> DEFINE u == Owner(n)
             a == NameOf(n)
  <2>1. n \in Nodes(sessions)
    BY DEF Nodes
  <2>2. /\ u \in Thread /\ a \in Account /\ a = name[u] /\ FdOf(n) = fd[u] /\ LoggedIn(u)
        /\ pc[u] \notin Outside
    BY <2>1, OwnersAreThreads DEF LeftInv
  <2>3. holder[FdOf(n)] = u
    BY <2>2 DEF HeldInv, Holding, Outside
  <2>4. u \in LoginsOf(a)
    BY <2>2 DEF LoginsOf, InEffect, Outside
  <2>5. NodesOf(a) # {}
    <3>1. IsFiniteSet(LoginsOf(a))
      BY ConstantsAssumption, FS_Subset DEF LoginsOf
    <3>2. Cardinality(LoginsOf(a)) # 0
      BY <2>4, <3>1, FS_EmptySet
    <3>3. Cardinality(NodesOf(a)) = Cardinality(LoginsOf(a))
      BY <2>2 DEF UsersInv, Balanced
    <3> QED BY <3>2, <3>3, FS_EmptySet
  <2> QED BY <2>3, <2>5 DEF NodesOf, PlacesOf
<1> QED BY <1>1, TypeIsKept, LeftIsKept, DescriptorsAreTheirs, UsersAreKept, PTL

-----------------------------------------------------------------------------
(* The lists of the sessions *)

\* No two sessions are the same, and no two places of a session hold the same node.
ListsInv ==
  /\ \A i, k \in DOMAIN sessions : sessions[i].id = sessions[k].id => i = k
  /\ \A i \in DOMAIN sessions : \A j, k \in DOMAIN sessions[i].users :
       sessions[i].users[j] = sessions[i].users[k] => j = k

\* What becomes of a list of users: nodes go, the others keep their order, and one to
\* which no pointer leads comes behind them.
Follows(new, old) ==
  \E f \in [DOMAIN new -> 1 .. Len(old) + 1] :
    /\ \A j, k \in DOMAIN new : k < j => f[k] < f[j]
    /\ \A j \in DOMAIN new :
         \/ f[j] \in DOMAIN old /\ new[j] = old[f[j]]
         \/ /\ f[j] \notin DOMAIN old
            /\ new[j] \notin ToSet(old) /\ \A u \in Thread : ptr[u] # new[j]

\* What becomes of the list of sessions: some go, some users go or come, and a session
\* to which no pointer leads may come, with one user.
SessionsFollow ==
  \E at \in [DOMAIN sessions' -> 1 .. Len(sessions) + 1] :
    /\ \A k, l \in DOMAIN sessions' : at[k] = at[l] => k = l
    /\ \A k \in DOMAIN sessions' :
         \/ /\ at[k] \in DOMAIN sessions
            /\ sessions'[k].id = sessions[at[k]].id
            /\ Follows(sessions'[k].users, sessions[at[k]].users)
         \/ /\ at[k] \notin DOMAIN sessions
            /\ sessions'[k].id \notin Ids(sessions)
            /\ \A u \in Thread : sess[u] # sessions'[k].id
            /\ Len(sessions'[k].users) = 1

\* A JOIN has the session it looked for, and once it has the lock, the end of its list.
JoinInv ==
  server = "up" =>
    \A t \in Thread :
      /\ pc[t] \in {"joinWalk", "joinLink"} => Named(sess[t]) = arg[t]
      /\ pc[t] = "joinLink" =>
           /\ sessLock = t
           /\ \A i \in DOMAIN sessions :
                sessions[i].id = sess[t] => ptr[t] = LastNode(sessions[i].users)

\* The users of a listed session are a list of nodes.
LEMMA UsersAreNodes ==
  ASSUME TypeInv, NEW i \in DOMAIN sessions
  PROVE  /\ sessions[i].users \in Seq(Node)
         /\ DOMAIN sessions[i].users = 1 .. Len(sessions[i].users)
         /\ Len(sessions[i].users) \in Nat
         /\ DOMAIN sessions = 1 .. Len(sessions) /\ Len(sessions) \in Nat
         /\ i # 0
<1>1. sessions[i] \in Session /\ DOMAIN sessions = 1 .. Len(sessions) /\ Len(sessions) \in Nat
  BY DEF TypeInv, SharedTyped
<1>2. sessions[i].users \in Seq(Node)
  BY <1>1 DEF Session
<1> QED BY <1>1, <1>2

\* A list that stays, and one that a removal by name has thinned, follow.
LEMMA ThinnedFollows ==
  ASSUME NEW old \in Seq(Node), NEW new,
         new = old \/ \E a : new = removeUser(old, a)
  PROVE  Follows(new, old)
<1>1. DOMAIN old = 1 .. Len(old) /\ Len(old) \in Nat
  OBVIOUS
<1>2. \E f \in [DOMAIN new -> DOMAIN old] :
        /\ \A j \in DOMAIN new : new[j] = old[f[j]]
        /\ \A j, k \in DOMAIN new : k < j => f[k] < f[j]
  <2>1. CASE new = old
    <3> DEFINE f == [j \in DOMAIN old |-> j]
    <3>1. f \in [DOMAIN new -> DOMAIN old] /\ \A j \in DOMAIN old : f[j] = j
      BY <2>1
    <3> QED BY <2>1, <3>1
  <2>2. CASE \E a : new = removeUser(old, a)
    BY <2>2, removeUserThins
  <2> QED BY <2>1, <2>2
<1>3. PICK f \in [DOMAIN new -> DOMAIN old] :
        /\ \A j \in DOMAIN new : new[j] = old[f[j]]
        /\ \A j, k \in DOMAIN new : k < j => f[k] < f[j]
  BY <1>2
<1>4. f \in [DOMAIN new -> 1 .. Len(old) + 1]
  BY <1>1, <1>3
<1> QED BY <1>3, <1>4 DEF Follows

\* So does a list with a new node behind the others.
LEMMA AppendedFollows ==
  ASSUME NEW old \in Seq(Node), NEW node \in Node, node \notin ToSet(old),
         \A u \in Thread : ptr[u] # node
  PROVE  Follows(Append(old, node), old)
<1> DEFINE new == Append(old, node)
           f == [j \in DOMAIN new |-> j]
<1>1. /\ DOMAIN old = 1 .. Len(old) /\ Len(old) \in Nat
      /\ DOMAIN new = 1 .. Len(old) + 1
      /\ \A j \in DOMAIN old : new[j] = old[j]
      /\ new[Len(old) + 1] = node
  OBVIOUS
<1> HIDE DEF new
<1>2. f \in [DOMAIN new -> 1 .. Len(old) + 1] /\ \A j \in DOMAIN new : f[j] = j
  BY <1>1
<1> HIDE DEF f
<1>3. ASSUME NEW j \in DOMAIN new
      PROVE  \/ f[j] \in DOMAIN old /\ new[j] = old[f[j]]
             \/ /\ f[j] \notin DOMAIN old
                /\ new[j] \notin ToSet(old) /\ \A u \in Thread : ptr[u] # new[j]
  <2>1. CASE j \in DOMAIN old
    BY <1>1, <1>2, <2>1
  <2>2. CASE j \notin DOMAIN old
    <3>1. j = Len(old) + 1
      BY <1>1, <2>2
    <3> QED BY <1>1, <1>2, <2>2, <3>1
  <2> QED BY <2>1, <2>2
<1>4. \A j, k \in DOMAIN new : k < j => f[k] < f[j]
  BY <1>2
<1>5. Follows(new, old)
  BY <1>2, <1>3, <1>4 DEF Follows
<1> QED BY <1>5 DEF new

\* With one session of an id, the search for it ends there.
LEMMA SessionIsFound ==
  ASSUME TypeInv, ListsInv, NEW i \in DOMAIN sessions
  PROVE  SessionWithId(sessions[i].id) = i /\ i # 0
<1> DEFINE id == sessions[i].id
           I == {k \in 1 .. Len(sessions) : sessions[k].id = id}
<1>1. SessionWithId(id) = IF I # {} THEN Min(I) ELSE 0
  BY DEF SessionWithId, SelectInSeq
<1>2. DOMAIN sessions = 1 .. Len(sessions) /\ Len(sessions) \in Nat
  BY DEF TypeInv, SharedTyped
<1>3. I = {i}
  BY <1>2 DEF ListsInv
<1>4. i \in Nat /\ i # 0
  BY <1>2
<1>5. Min({i}) \in {i}
  BY <1>4, LeastIsFound
<1> HIDE DEF I
<1> QED BY <1>1, <1>3, <1>4, <1>5

\* JOIN puts its node behind the others (server.c:202-208).
LEMMA JoinAppends ==
  ASSUME TypeInv, ListsInv, JoinInv, NEW t \in Thread, JoinLink(t),
         NEW i, NEW users, NEW new, NEW longer, Joins(t, i, users, new, longer)
  PROVE  longer = Append(users, new) /\ sessions[i].id = sess[t]
<1>1. pc[t] = "joinLink" /\ server = "up"
  BY DEF JoinLink, At
<1>2. i \in DOMAIN sessions /\ users = sessions[i].users /\ new \in Node
      /\ longer = addUser(users, ptr[t], new) /\ i = SessionWithId(sess[t])
  BY DEF Joins
<1>3. sessions[i].id = sess[t]
  <2> DEFINE I == {k \in 1 .. Len(sessions) : sessions[k].id = sess[t]}
  <2>1. SessionWithId(sess[t]) = IF I # {} THEN Min(I) ELSE 0
    BY DEF SessionWithId, SelectInSeq
  <2>2. I \in SUBSET (1 .. Len(sessions)) /\ Len(sessions) \in Nat /\ i # 0
    BY <1>2, UsersAreNodes
  <2>3. i \in I
    <3> HIDE DEF I
    <3> QED BY <1>2, <2>1, <2>2, FoundIsListed
  <2> QED BY <2>3
<1>4. ptr[t] = LastNode(users)
  BY <1>1, <1>2, <1>3 DEF JoinInv
<1>5. users \in Seq(Node) /\ DOMAIN users = 1 .. Len(users) /\ Len(users) \in Nat
  BY <1>2, UsersAreNodes
<1>6. \A j \in DOMAIN users : users[j] = LastNode(users) => j = Len(users)
  BY <1>2, <1>5 DEF LastNode, ListsInv
<1> QED BY <1>2, <1>3, <1>4, <1>5, <1>6, addUserAppends

\* JOIN only makes one list longer.
LEMMA JoinFollows ==
  ASSUME TypeInv, ListsInv, JoinInv, NEW t \in Thread, JoinLink(t)
  PROVE  sessions' = sessions \/ SessionsFollow
<1>1. CASE SessionWithId(sess[t]) = 0
  BY <1>1 DEF JoinLink
<1>2. CASE SessionWithId(sess[t]) # 0
  <2>1. PICK i, users, new, longer : Joins(t, i, users, new, longer)
    BY <1>2, JoinLinkIs
  <2>2. longer = Append(users, new)
    BY <2>1, JoinAppends
  <2>3. Follows(longer, users)
    BY <2>1, <2>2, AppendedFollows DEF Joins
  <2> DEFINE at == [k \in DOMAIN sessions |-> k]
  <2>4. DOMAIN sessions' = DOMAIN sessions /\ DOMAIN sessions = 1 .. Len(sessions)
        /\ Len(sessions) \in Nat
    BY <2>1 DEF Joins, TypeInv, SharedTyped
  <2>5. at \in [DOMAIN sessions' -> 1 .. Len(sessions) + 1] /\ \A k \in DOMAIN sessions : at[k] = k
    BY <2>4
  <2> HIDE DEF at
  <2>6. ASSUME NEW k \in DOMAIN sessions
        PROVE  sessions'[k].id = sessions[k].id /\ Follows(sessions'[k].users, sessions[k].users)
    <3>1. CASE k = i
      BY <2>1, <2>3, <3>1 DEF Joins
    <3>2. CASE k # i
      <4>1. Follows(sessions[k].users, sessions[k].users)
        BY UsersAreNodes, ThinnedFollows
      <4> QED BY <2>1, <3>2, <4>1 DEF Joins
    <3> QED BY <3>1, <3>2
  <2> QED BY <2>4, <2>5, <2>6 DEF SessionsFollow
<1> QED BY <1>1, <1>2

\* NEW_SESS lists a session behind the others (server.c:282-303).
LEMMA NewFollows ==
  ASSUME TypeInv, NEW t \in Thread, NewLink(t)
  PROVE  SessionsFollow
<1> DEFINE new == NewNode(t, <<>>)
           id == NewSessId(arg[t])
           n == Len(sessions) + 1
           at == [k \in DOMAIN sessions' |-> k]
<1>1. /\ id \notin Ids(sessions) /\ \A u \in Thread : sess[u] # id
      /\ DOMAIN sessions = 1 .. Len(sessions) /\ Len(sessions) \in Nat
      /\ DOMAIN sessions' = 1 .. n
      /\ \A k \in DOMAIN sessions : sessions'[k] = sessions[k]
      /\ sessions'[n].id = id /\ sessions'[n].users = <<new>>
  BY NewLinkIs
<1>2. Len(<<new>>) = 1
  OBVIOUS
<1> HIDE DEF new, id
<1>3. at \in [DOMAIN sessions' -> 1 .. Len(sessions) + 1] /\ \A k \in DOMAIN sessions' : at[k] = k
  BY <1>1
<1> HIDE DEF at
<1>4. ASSUME NEW k \in DOMAIN sessions
      PROVE  sessions'[k].id = sessions[k].id /\ Follows(sessions'[k].users, sessions[k].users)
  BY <1>1, UsersAreNodes, ThinnedFollows
<1>5. \A k \in DOMAIN sessions' : k \in DOMAIN sessions \/ (k = n /\ k \notin DOMAIN sessions)
  BY <1>1
<1>6. /\ n \notin DOMAIN sessions
      /\ sessions'[n].id \notin Ids(sessions) /\ \A u \in Thread : sess[u] # sessions'[n].id
      /\ Len(sessions'[n].users) = 1
  BY <1>1, <1>2
<1> HIDE DEF n
<1>7. \A k, l \in DOMAIN sessions' : at[k] = at[l] => k = l
  BY <1>3
<1>8. ASSUME NEW k \in DOMAIN sessions'
      PROVE  \/ /\ at[k] \in DOMAIN sessions
                /\ sessions'[k].id = sessions[at[k]].id
                /\ Follows(sessions'[k].users, sessions[at[k]].users)
             \/ /\ at[k] \notin DOMAIN sessions
                /\ sessions'[k].id \notin Ids(sessions)
                /\ \A u \in Thread : sess[u] # sessions'[k].id
                /\ Len(sessions'[k].users) = 1
  BY <1>3, <1>4, <1>5, <1>6
<1> QED BY <1>3, <1>7, <1>8 DEF SessionsFollow

\* A removal thins one list, or takes it and its session away (message.h:280-287).
LEMMA RemovalFollows ==
  ASSUME TypeInv, NEW t \in Thread, NEW next, RemoveFound(t, next)
  PROVE  sessions' = sessions \/ SessionsFollow
<1> DEFINE i == SessionWithId(sess[t])
           a == name[t]
<1>1. CASE i = 0
  BY <1>1 DEF RemoveFound
<1>2. CASE i # 0
  <2>1. sessions' = removeSessUser(i, a) /\ i \in DOMAIN sessions
    BY <1>2, FindSessionWithId DEF RemoveFound, TypeInv, SharedTyped
  <2>0. sessions \in Seq(Session)
    BY DEF TypeInv, SharedTyped
  <2> HIDE DEF i, a
  <2>2. PICK at \in [DOMAIN sessions' -> DOMAIN sessions] :
           /\ \A k, l \in DOMAIN sessions' : at[k] = at[l] => k = l
           /\ \A k \in DOMAIN sessions' :
                /\ sessions'[k].id = sessions[at[k]].id
                /\ sessions'[k].users = IF at[k] = i THEN removeUser(sessions[i].users, a)
                                        ELSE sessions[at[k]].users
                /\ at[k] = i /\ sessions'[k].users = <<>> =>
                     \E m \in DOMAIN sessions \ {i} : Named(sessions[m].id) = Named(sessions[i].id)
    BY <2>1, <2>0, removeSessUserIs
  <2>3. DOMAIN sessions = 1 .. Len(sessions) /\ Len(sessions) \in Nat
    BY DEF TypeInv, SharedTyped
  <2>4. at \in [DOMAIN sessions' -> 1 .. Len(sessions) + 1]
    BY <2>2, <2>3
  <2>5. ASSUME NEW k \in DOMAIN sessions'
        PROVE  Follows(sessions'[k].users, sessions[at[k]].users)
    <3>1. at[k] \in DOMAIN sessions
      BY <2>2
    <3>2. sessions[at[k]].users \in Seq(Node)
      BY <3>1, UsersAreNodes
    <3>3. \/ sessions'[k].users = sessions[at[k]].users
          \/ sessions'[k].users = removeUser(sessions[at[k]].users, a)
      BY <2>2
    <3> QED BY <3>2, <3>3, ThinnedFollows
  <2> QED BY <2>2, <2>4, <2>5 DEF SessionsFollow
<1> QED BY <1>1, <1>2

\* The steps that change the list of sessions.
Lists(t) == JoinLink(t) \/ NewLink(t) \/ Leave(t) \/ LeaveAll(t) \/ Purge(t)

\* They do it under the lock.
LEMMA ListsFollow ==
  ASSUME TypeInv, ListsInv, JoinInv, NEW t \in Thread, Lists(t)
  PROVE  /\ sessions' = sessions \/ SessionsFollow
         /\ server = "up" /\ sessLock' = NoOne
         /\ \/ pc[t] = "joinLink" /\ sessLock = t
            \/ pc[t] \in {"newLink", "leave", "leaveAll", "purge"} /\ sessLock = NoOne
         /\ pc'[t] \notin {"joinWalk", "broadcast"} /\ (pc'[t] = "joinLink" => server' # "up")
<1>1. CASE JoinLink(t)
  BY <1>1, JoinFollows DEF JoinLink, JoinInv, At, Answer, Goto, TypeInv, PlacesTyped
<1>2. CASE NewLink(t)
  BY <1>2, NewFollows DEF NewLink, At, Answer, Goto, TypeInv, PlacesTyped
<1>3. CASE Leave(t) \/ LeaveAll(t) \/ Purge(t)
  <2>1. PICK next \in {"left", "leaveFind", "purgeFind"} : RemoveFound(t, next)
    BY <1>3 DEF Leave, LeaveAll, Purge
  <2>2. pc[t] \in {"leave", "leaveAll", "purge"} /\ server = "up"
    BY <1>3 DEF Leave, LeaveAll, Purge, At
  <2>3. sessLock = NoOne /\ sessLock' = NoOne /\ pc' = [pc EXCEPT ![t] = next]
    BY <2>1 DEF RemoveFound, Goto
  <2>4. pc'[t] \notin {"joinWalk", "joinLink", "broadcast"}
    BY <2>3 DEF TypeInv, PlacesTyped
  <2> QED BY <2>1, <2>2, <2>3, <2>4, RemovalFollows
<1> QED BY <1>1, <1>2, <1>3 DEF Lists

\* The other steps leave the list alone, and all but JOIN the lock.
LEMMA OthersKeepLists ==
  ASSUME TypeInv, NEW t \in Thread, Step(t), ~Lists(t)
  PROVE  sessions' = sessions /\ (sessLock' = sessLock \/ JoinWalk(t))
<1>1. CASE Accept(t) \/ RecvFails(t) \/ PeerCloses(t)
  BY <1>1 DEF Accept, RecvFails, PeerCloses, shared
<1>2. CASE Request(t)
  BY <1>2 DEF Request, RefuseLogin, ExitRequest, LeaveAllRequest, Query, LoginRequest, JoinRequest,
              LeaveRequest, NewRequest, MessageRequest, InviteRequest, shared
<1>3. CASE Work(t)
  <2>1. CASE LoginWalk(t) \/ LoginLink(t) \/ JoinWalk(t) \/ Invite(t) \/ Broadcast(t)
    BY <2>1 DEF LoginWalk, LoginLink, JoinWalk, Invite, Broadcast, shared
  <2>2. CASE AnswerLeave(t) \/ LeaveFind(t) \/ Disconnect(t) \/ PurgeFind(t)
    BY <2>2 DEF AnswerLeave, LeaveFind, Disconnect, PurgeFind, shared
  <2>3. CASE Close(t) \/ Unlist(t) \/ Uncount(t)
    BY <2>3 DEF Close, Unlist, Uncount
  <2> QED BY <1>3, <2>1, <2>2, <2>3 DEF Work, Lists
<1> QED BY <1>1, <1>2, <1>3 DEF Step

\* What follows lists without doubles has none.
LEMMA FollowingKeepsLists ==
  ASSUME TypeInv, TypeInv', ListsInv, SessionsFollow
  PROVE  ListsInv'
<1>1. PICK at \in [DOMAIN sessions' -> 1 .. Len(sessions) + 1] :
        /\ \A k, l \in DOMAIN sessions' : at[k] = at[l] => k = l
        /\ \A k \in DOMAIN sessions' :
             \/ /\ at[k] \in DOMAIN sessions
                /\ sessions'[k].id = sessions[at[k]].id
                /\ Follows(sessions'[k].users, sessions[at[k]].users)
             \/ /\ at[k] \notin DOMAIN sessions
                /\ sessions'[k].id \notin Ids(sessions)
                /\ \A u \in Thread : sess[u] # sessions'[k].id
                /\ Len(sessions'[k].users) = 1
  BY DEF SessionsFollow
<1>2. DOMAIN sessions = 1 .. Len(sessions) /\ Len(sessions) \in Nat
  BY DEF TypeInv, SharedTyped
<1>3. ASSUME NEW k \in DOMAIN sessions', NEW l \in DOMAIN sessions',
             sessions'[k].id = sessions'[l].id
      PROVE  k = l
  <2>1. CASE at[k] \in DOMAIN sessions /\ at[l] \in DOMAIN sessions
    BY <1>1, <1>3, <2>1 DEF ListsInv
  <2>2. CASE at[k] \notin DOMAIN sessions /\ at[l] \notin DOMAIN sessions
    <3>1. at[k] = Len(sessions) + 1 /\ at[l] = Len(sessions) + 1
      BY <1>1, <1>2, <2>2
    <3> QED BY <1>1, <3>1
  <2>3. CASE at[k] \in DOMAIN sessions /\ at[l] \notin DOMAIN sessions
    <3>1. sessions'[k].id \in Ids(sessions) /\ sessions'[l].id \notin Ids(sessions)
      BY <1>1, <2>3 DEF Ids
    <3> QED BY <1>3, <3>1
  <2>4. CASE at[k] \notin DOMAIN sessions /\ at[l] \in DOMAIN sessions
    <3>1. sessions'[l].id \in Ids(sessions) /\ sessions'[k].id \notin Ids(sessions)
      BY <1>1, <2>4 DEF Ids
    <3> QED BY <1>3, <3>1
  <2> QED BY <2>1, <2>2, <2>3, <2>4
<1>4. ASSUME NEW m \in DOMAIN sessions'
      PROVE  \A j, k \in DOMAIN sessions'[m].users :
               sessions'[m].users[j] = sessions'[m].users[k] => j = k
  <2> DEFINE new == sessions'[m].users
  <2>0. DOMAIN new = 1 .. Len(new) /\ Len(new) \in Nat
    <3>1. sessions'[m] \in Session
      BY DEF TypeInv, SharedTyped
    <3>2. new \in Seq(Node)
      BY <3>1 DEF Session
    <3> HIDE DEF new
    <3> QED BY <3>2
  <2>1. CASE at[m] \notin DOMAIN sessions
    <3>1. Len(new) = 1
      BY <1>1, <2>1
    <3> QED BY <2>0, <3>1
  <2>2. CASE at[m] \in DOMAIN sessions
    <3> DEFINE old == sessions[at[m]].users
    <3>1. DOMAIN old = 1 .. Len(old) /\ Len(old) \in Nat
      BY <2>2, UsersAreNodes
    <3>2. PICK f \in [DOMAIN new -> 1 .. Len(old) + 1] :
            /\ \A j, k \in DOMAIN new : k < j => f[k] < f[j]
            /\ \A j \in DOMAIN new :
                 \/ f[j] \in DOMAIN old /\ new[j] = old[f[j]]
                 \/ /\ f[j] \notin DOMAIN old
                    /\ new[j] \notin ToSet(old) /\ \A u \in Thread : ptr[u] # new[j]
      BY <1>1, <2>2 DEF Follows
    <3>3. \A j, k \in DOMAIN old : old[j] = old[k] => j = k
      BY <2>2 DEF ListsInv
    <3> HIDE DEF new, old
    <3>4. ASSUME NEW j \in DOMAIN new, NEW k \in DOMAIN new, k < j PROVE new[j] # new[k]
      <4>1. f[k] < f[j] /\ f[k] \in DOMAIN old /\ f[j] \in Nat
        BY <3>1, <3>2, <3>4
      <4>2. new[k] = old[f[k]] /\ new[k] \in ToSet(old)
        BY <3>2, <4>1 DEF ToSet
      <4>3. CASE f[j] \in DOMAIN old
        <5>1. new[j] = old[f[j]]
          BY <3>2, <4>3
        <5> QED BY <3>3, <4>1, <4>2, <4>3, <5>1
      <4>4. CASE f[j] \notin DOMAIN old
        BY <3>2, <4>2, <4>4
      <4> QED BY <4>3, <4>4
    <3>5. DOMAIN new = 1 .. Len(new) /\ Len(new) \in Nat
      BY <2>0 DEF new
    <3>6. \A j, k \in DOMAIN new : new[j] = new[k] => j = k
      BY <3>4, <3>5
    <3> QED BY <3>6, Zenon DEF new
  <2> QED BY <2>1, <2>2
<1>5. \A i, k \in DOMAIN sessions' : sessions'[i].id = sessions'[k].id => i = k
  BY <1>3
<1>6. \A i \in DOMAIN sessions' : \A j, k \in DOMAIN sessions'[i].users :
        sessions'[i].users[j] = sessions'[i].users[k] => j = k
  BY <1>4, Zenon
<1> QED BY <1>5, <1>6, Zenon DEF ListsInv

-----------------------------------------------------------------------------
(* What a JOIN has found *)

\* A session is found by its name (message.h:132-146).
LEMMA SessionIsNamed ==
  ASSUME TypeInv, NEW s, findSession(s) # 0
  PROVE  findSession(s) \in DOMAIN sessions /\ Named(sessions[findSession(s)].id) = s
<1> DEFINE I == {i \in 1 .. Len(sessions) : Named(sessions[i].id) = s}
<1>1. findSession(s) = IF I # {} THEN Min(I) ELSE 0
  BY DEF findSession, SelectInSeq
<1>2. I \in SUBSET (1 .. Len(sessions)) /\ Len(sessions) \in Nat
  BY DEF TypeInv, SharedTyped
<1>3. findSession(s) \in I
  <2> HIDE DEF I
  <2> QED BY <1>1, <1>2, FoundIsListed
<1> QED BY <1>3 DEF TypeInv, SharedTyped

\* No other step comes to a JOIN or to a broadcast, or goes on with one.
LEMMA OthersComeToRest ==
  ASSUME TypeInv, NEW t \in Thread, Step(t), server' = "up",
         ~PeerCloses(t), ~Lists(t),
         ~(JoinWalk(t) \/ \E s \in SessName : JoinRequest(t, s)),
         ~(Broadcast(t) \/ \E s \in SessName : MessageRequest(t, s))
  PROVE  pc'[t] \notin {"joinWalk", "joinLink", "broadcast"}
<1>1. CASE Accept(t) \/ RecvFails(t)
  BY <1>1 DEF Accept, RecvFails, At, Answer, Goto, TypeInv, PlacesTyped
<1>2. CASE Request(t)
  <2>1. CASE RefuseLogin(t) \/ ExitRequest(t) \/ LeaveAllRequest(t) \/ Query(t)
    BY <2>1 DEF RefuseLogin, ExitRequest, LeaveAllRequest, Query, Receive, Answer, Goto,
                TypeInv, PlacesTyped
  <2>2. ASSUME NEW a \in Account, LoginRequest(t, a)
        PROVE  pc'[t] \notin {"joinWalk", "joinLink", "broadcast"}
    BY <2>2 DEF LoginRequest, Goto, TypeInv, PlacesTyped
  <2>3. ASSUME NEW s \in SessName, LeaveRequest(t, s) \/ NewRequest(t, s)
        PROVE  pc'[t] \notin {"joinWalk", "joinLink", "broadcast"}
    BY <2>3 DEF LeaveRequest, NewRequest, Receive, Answer, Goto, TypeInv, PlacesTyped
  <2>4. ASSUME NEW s \in SessName, NEW a \in Account, InviteRequest(t, a, s)
        PROVE  pc'[t] \notin {"joinWalk", "joinLink", "broadcast"}
    BY <2>4 DEF InviteRequest, Receive, Answer, Goto, TypeInv, PlacesTyped
  <2> QED BY <1>2, <2>1, <2>2, <2>3, <2>4 DEF Request
<1>3. CASE Work(t)
  <2>1. CASE LoginWalk(t) \/ LoginLink(t) \/ Invite(t)
    BY <2>1 DEF LoginWalk, LoginLink, Invite, At, Answer, Goto, TypeInv, PlacesTyped
  <2>2. CASE AnswerLeave(t) \/ LeaveFind(t) \/ Disconnect(t)
    BY <2>2 DEF AnswerLeave, LeaveFind, Disconnect, At, Answer, Goto, TypeInv, PlacesTyped
  <2>3. CASE Close(t) \/ Unlist(t) \/ PurgeFind(t) \/ Uncount(t)
    BY <2>3 DEF Close, Unlist, PurgeFind, Uncount, End, Goto, TypeInv, PlacesTyped
  <2> QED BY <1>3, <2>1, <2>2, <2>3 DEF Work, Lists
<1> QED BY <1>1, <1>2, <1>3 DEF Step

\* JOIN looks its session up by name, and walks its list under the lock
\* (server.c:182-208).
LEMMA JoinFinds ==
  ASSUME TypeInv, ListsInv, JoinInv, NEW t \in Thread, server' = "up",
         JoinWalk(t) \/ \E s \in SessName : JoinRequest(t, s)
  PROVE  /\ pc'[t] \in {"joinWalk", "joinLink"} => Named(sess'[t]) = arg'[t]
         /\ pc'[t] = "joinLink" =>
              /\ sessLock' = t
              /\ \A i \in DOMAIN sessions' :
                   sessions'[i].id = sess'[t] => ptr'[t] = LastNode(sessions'[i].users)
<1>1. ASSUME NEW s \in SessName, JoinRequest(t, s)
      PROVE  pc'[t] = "recv" \/ (pc'[t] = "joinWalk" /\ Named(sess'[t]) = arg'[t])
  <2>1. CASE pc' = [pc EXCEPT ![t] = "recv"]
    BY <2>1 DEF TypeInv, PlacesTyped
  <2>2. CASE /\ findSession(s) # 0
             /\ sess' = [sess EXCEPT ![t] = sessions[findSession(s)].id]
             /\ arg' = [arg EXCEPT ![t] = s]
             /\ pc' = [pc EXCEPT ![t] = "joinWalk"]
    BY <2>2, SessionIsNamed DEF TypeInv, PlacesTyped, LocalsTyped
  <2> QED BY <1>1, <2>1, <2>2 DEF JoinRequest, Answer, Goto
<1>2. CASE JoinWalk(t)
  <2>1. /\ server = "up" /\ pc[t] = "joinWalk" /\ sessLock' = t
        /\ pc' = [pc EXCEPT ![t] = "joinLink"]
        /\ UNCHANGED <<sessions, arg, sess>>
        /\ SessionWithId(sess[t]) # 0 =>
             ptr' = [ptr EXCEPT ![t] = LastNode(sessions[SessionWithId(sess[t])].users)]
    BY <1>2 DEF JoinWalk, At, Goto
  <2>2. ASSUME NEW i \in DOMAIN sessions, sessions[i].id = sess[t]
        PROVE  ptr'[t] = LastNode(sessions[i].users)
    <3>1. SessionWithId(sess[t]) = i /\ i # 0
      BY <2>2, SessionIsFound
    <3> QED BY <2>1, <3>1 DEF TypeInv, LocalsTyped
  <2>3. \A i \in DOMAIN sessions' : sessions'[i].id = sess'[t] => ptr'[t] = LastNode(sessions'[i].users)
    BY <2>1, <2>2 DEF LastNode
  <2>4. Named(sess'[t]) = arg'[t]
    BY <2>1 DEF JoinInv
  <2> QED BY <2>1, <2>3, <2>4
<1> QED BY <1>1, <1>2

\* The lock keeps the list as the walk has found it.
LEMMA StepsKeepJoin ==
  ASSUME TypeInv, ListsInv, JoinInv, NEW t \in Thread, Step(t), server' = "up"
  PROVE  JoinInv'
<1>1. OnlyMoves(t)
  BY RequestsMoveOne, WorkMovesOne DEF Step
<1>2. ASSUME NEW u \in Thread \ {t}
      PROVE  /\ pc'[u] \in {"joinWalk", "joinLink"} => Named(sess'[u]) = arg'[u]
             /\ pc'[u] = "joinLink" =>
                  /\ sessLock' = u
                  /\ \A i \in DOMAIN sessions' :
                       sessions'[i].id = sess'[u] => ptr'[u] = LastNode(sessions'[i].users)
  <2>1. /\ pc'[u] = pc[u] /\ sess'[u] = sess[u] /\ arg'[u] = arg[u] /\ ptr'[u] = ptr[u]
        /\ server = "up"
    BY <1>1 DEF OnlyMoves
  <2>2. ASSUME pc[u] = "joinLink" PROVE sessLock' = u /\ sessions' = sessions
    <3>1. sessLock = u /\ u # NoOne
      BY <2>1, <2>2, ConstantsAssumption DEF JoinInv
    <3>2. ~Lists(t)
      BY <3>1, ListsFollow
    <3>3. ~JoinWalk(t)
      BY <3>1 DEF JoinWalk
    <3> QED BY <3>1, <3>2, <3>3, OthersKeepLists
  <2>3. pc[u] \in {"joinWalk", "joinLink"} => Named(sess[u]) = arg[u]
    BY <2>1 DEF JoinInv
  <2>4. pc[u] = "joinLink" => \A i \in DOMAIN sessions :
          sessions[i].id = sess[u] => ptr[u] = LastNode(sessions[i].users)
    BY <2>1 DEF JoinInv
  <2>5. ASSUME pc[u] = "joinLink", NEW i \in DOMAIN sessions', sessions'[i].id = sess'[u]
        PROVE  ptr'[u] = LastNode(sessions'[i].users)
    BY <2>1, <2>2, <2>4, <2>5
  <2> QED BY <2>1, <2>2, <2>3, <2>5, Zenon
<1>3. /\ pc'[t] \in {"joinWalk", "joinLink"} => Named(sess'[t]) = arg'[t]
      /\ pc'[t] = "joinLink" =>
           /\ sessLock' = t
           /\ \A i \in DOMAIN sessions' :
                sessions'[i].id = sess'[t] => ptr'[t] = LastNode(sessions'[i].users)
  <2>1. CASE JoinWalk(t) \/ \E s \in SessName : JoinRequest(t, s)
    BY <2>1, JoinFinds
  <2>2. CASE PeerCloses(t)
    <3>1. UNCHANGED <<pc, sess, arg, ptr, sessions, sessLock>> /\ server = "up"
      BY <2>2 DEF PeerCloses, shared
    <3> QED BY <3>1 DEF JoinInv, LastNode
  <2>3. CASE Lists(t)
    <3>1. pc'[t] \notin {"joinWalk", "joinLink"}
      BY <2>3, ListsFollow
    <3> QED BY <3>1
  <2>4. CASE Broadcast(t)
    <3>1. pc'[t] \in {"recv", "broadcast"}
      BY <2>4 DEF Broadcast, WalkOn, At, Goto, TypeInv, PlacesTyped
    <3> QED BY <3>1
  <2>5. CASE \E s \in SessName : MessageRequest(t, s)
    <3>1. pc'[t] \in {"recv", "broadcast"}
      BY <2>5 DEF MessageRequest, Receive, Answer, Goto, TypeInv, PlacesTyped
    <3> QED BY <3>1
  <2>6. CASE pc'[t] \notin {"joinWalk", "joinLink", "broadcast"}
    BY <2>6
  <2> QED BY <2>1, <2>2, <2>3, <2>4, <2>5, <2>6, OthersComeToRest
<1> QED BY <1>2, <1>3, Zenon DEF JoinInv

\* No step makes a double.
LEMMA StepsKeepLists ==
  ASSUME TypeInv, TypeInv', ListsInv, JoinInv, NEW t \in Thread, Step(t)
  PROVE  ListsInv'
<1>1. CASE Lists(t)
  <2>1. CASE SessionsFollow
    BY <2>1, FollowingKeepsLists
  <2>2. CASE sessions' = sessions
    BY <2>2 DEF ListsInv
  <2> QED BY <1>1, <2>1, <2>2, ListsFollow
<1>2. CASE ~Lists(t)
  <2>1. sessions' = sessions
    BY <1>2, OthersKeepLists
  <2> QED BY <2>1 DEF ListsInv
<1> QED BY <1>1, <1>2

\* The sessions and their users are lists without doubles, and a JOIN that has the
\* lock knows the end of its list, whatever the others do (server.c:182-208).
THEOREM ListsAreKept == Spec => [](ListsInv /\ JoinInv)
<1>1. Init => ListsInv /\ JoinInv
  BY DEF Init, ListsInv, JoinInv
<1>2. TypeInv /\ TypeInv' /\ ListsInv /\ JoinInv /\ [Next]_vars => ListsInv' /\ JoinInv'
  <2> SUFFICES ASSUME TypeInv, TypeInv', ListsInv, JoinInv, [Next]_vars
               PROVE  ListsInv' /\ JoinInv'
    OBVIOUS
  <2>1. CASE vars' = vars
    BY <2>1 DEF vars, shared, locals, ListsInv, JoinInv, LastNode
  <2>2. CASE AcceptTimeout
    BY <2>2 DEF AcceptTimeout, shared, ListsInv, JoinInv
  <2>3. ASSUME NEW t \in Thread, Step(t) PROVE ListsInv' /\ JoinInv'
    <3>1. ListsInv'
      BY <2>3, StepsKeepLists
    <3>2. JoinInv'
      <4>1. server' # "up" => JoinInv'
        BY DEF JoinInv
      <4> QED BY <2>3, <4>1, StepsKeepJoin
    <3> QED BY <3>1, <3>2
  <2> QED BY <2>1, <2>2, <2>3, StepsOfOne
<1> QED BY <1>1, <1>2, TypeIsKept, PTL DEF Spec

-----------------------------------------------------------------------------
(* What a client is told *)

\* JOIN puts the user into the session it has found, if that is still listed
\* (server.c:205-208).
LEMMA JoinJoins ==
  ASSUME TypeInv, ListsInv, JoinInv, NEW t \in Thread, NEW s, arg[t] = s, JoinLink(t),
         sess[t] \in Ids(sessions)
  PROVE  MemberOf(t, s)'
<1>1. pc[t] = "joinLink" /\ server = "up"
  BY DEF JoinLink, At
<1>2. SessionWithId(sess[t]) # 0
  BY SessionIsFound DEF Ids
<1>3. PICK i, users, new, longer : Joins(t, i, users, new, longer)
  BY <1>2, JoinLinkIs
<1>4. longer = Append(users, new) /\ sessions[i].id = sess[t]
  BY <1>3, JoinAppends
<1>5. /\ i \in DOMAIN sessions' /\ sessions'[i].users = longer
      /\ sessions'[i].id = sess[t]
      /\ users \in Seq(Node) /\ new \in Node /\ Owner(new) = t
  BY <1>3, <1>4 DEF Joins
<1>6. Len(users) + 1 \in DOMAIN longer /\ longer[Len(users) + 1] = new
  BY <1>4, <1>5
<1>7. Named(sess[t]) = s
  BY <1>1 DEF JoinInv
<1> QED BY <1>5, <1>6, <1>7 DEF MemberOf, Members

\* NEW_SESS lists a session with its creator in it (server.c:282-303).
LEMMA NewJoins ==
  ASSUME TypeInv, NEW t \in Thread, NEW s, arg[t] = s, NewLink(t)
  PROVE  MemberOf(t, s)'
<1> DEFINE new == NewNode(t, <<>>)
           id == NewSessId(arg[t])
           n == Len(sessions) + 1
<1>1. /\ Owner(new) = t /\ Named(id) = s /\ Len(sessions) \in Nat
      /\ DOMAIN sessions' = 1 .. n
      /\ sessions'[n].id = id /\ sessions'[n].users = <<new>>
  BY NewLinkIs
<1> HIDE DEF new, id
<1>2. 1 \in DOMAIN <<new>> /\ <<new>>[1] = new
  OBVIOUS
<1>3. n \in DOMAIN sessions'
  BY <1>1
<1> HIDE DEF n
<1> QED BY <1>1, <1>2, <1>3 DEF MemberOf, Members

\* LEAVE_SESS of "all" ends when no session has the descriptor any more, and so when
\* none has the user (server.c:231-240).
LEMMA LeaveAllLeaves ==
  ASSUME TypeInv, LeftInv, NEW t \in Thread, NEW s, LeaveFind(t), pc'[t] = "recv"
  PROVE  ~MemberOf(t, s)'
<1>1. findSessUser(t) = 0 /\ sessions' = sessions
  BY DEF LeaveFind, Goto, shared, TypeInv, PlacesTyped
<1>2. ASSUME NEW i \in DOMAIN sessions, NEW j \in DOMAIN sessions[i].users
      PROVE  Owner(sessions[i].users[j]) # t
  <2>1. FdOf(sessions[i].users[j]) # fd[t]
    BY <1>1, FindSessUser DEF TypeInv, SharedTyped, findUser
  <2>2. sessions[i].users[j] \in Nodes(sessions)
    BY DEF Nodes, ToSet
  <2> QED BY <2>1, <2>2 DEF LeftInv
<1> QED BY <1>1, <1>2 DEF MemberOf, Members

\* Which step takes a thread from its place to the next request.
LEMMA ReturnsByStep ==
  ASSUME TypeInv, [Next]_vars, NEW t \in Thread, pc'[t] = "recv",
         pc[t] \in {"joinLink", "newLink", "leaveFind", "broadcast"}
  PROVE  /\ pc[t] = "joinLink" => JoinLink(t)
         /\ pc[t] = "newLink" => NewLink(t)
         /\ pc[t] = "leaveFind" => LeaveFind(t)
         /\ pc[t] = "broadcast" => Broadcast(t)
         /\ Step(t)
<1>1. ~(vars' = vars \/ AcceptTimeout)
  BY DEF vars, AcceptTimeout
<1>2. PICK u \in Thread : Step(u)
  BY <1>1, StepsOfOne
<1>3. u = t
  BY <1>2, RequestsMoveOne, WorkMovesOne DEF Step, OnlyMoves
<1>4. Work(t)
  <2>1. ~Request(t)
    BY DEF Request, RefuseLogin, ExitRequest, LeaveAllRequest, Query, LoginRequest, JoinRequest,
           LeaveRequest, NewRequest, MessageRequest, InviteRequest, Receive
  <2>2. ~(Accept(t) \/ PeerCloses(t) \/ RecvFails(t))
    BY DEF Accept, PeerCloses, RecvFails, At
  <2> QED BY <1>2, <1>3, <2>1, <2>2 DEF Step
<1>5. JoinLink(t) \/ NewLink(t) \/ LeaveFind(t) \/ Broadcast(t)
  BY <1>4 DEF Work, LoginWalk, LoginLink, JoinWalk, Leave, AnswerLeave, LeaveAll, Invite,
              Disconnect, Close, Unlist, PurgeFind, Purge, Uncount, At
<1>6. /\ JoinLink(t) => pc[t] = "joinLink"
      /\ NewLink(t) => pc[t] = "newLink"
      /\ LeaveFind(t) => pc[t] = "leaveFind"
      /\ Broadcast(t) => pc[t] = "broadcast"
  BY DEF JoinLink, NewLink, LeaveFind, Broadcast, At
<1> QED BY <1>2, <1>3, <1>5, <1>6

\* A client can believe its answers, for any number of clients and sessions, shared
\* accounts and resets included, and however the threads interleave: with JN_ACK it is
\* in the session, unless that was freed between the look and the lock; with NS_ACK it
\* is in it; with the LS_ACK to "all" in none (server.c:178-236, 273-325).
THEOREM AnswersHold == Spec => AnswersAreTrue
<1>1. TypeInv /\ ListsInv /\ JoinInv /\ LeftInv /\ [Next]_vars
        => [\A t \in Thread, s \in SessName : pc'[t] = "recv" =>
              /\ pc[t] = "joinLink" /\ arg[t] = s /\ sess[t] \in Ids(sessions) => MemberOf(t, s)'
              /\ pc[t] = "newLink" /\ arg[t] = s => MemberOf(t, s)'
              /\ pc[t] = "leaveFind" => ~MemberOf(t, s)']_vars
  <2> SUFFICES ASSUME TypeInv, ListsInv, JoinInv, LeftInv, [Next]_vars,
                      NEW t \in Thread, NEW s \in SessName, pc'[t] = "recv"
               PROVE  /\ pc[t] = "joinLink" /\ arg[t] = s /\ sess[t] \in Ids(sessions)
                           => MemberOf(t, s)'
                      /\ pc[t] = "newLink" /\ arg[t] = s => MemberOf(t, s)'
                      /\ pc[t] = "leaveFind" => ~MemberOf(t, s)'
    OBVIOUS
  <2>1. CASE pc[t] = "joinLink"
    BY <2>1, ReturnsByStep, JoinJoins
  <2>2. CASE pc[t] = "newLink"
    BY <2>2, ReturnsByStep, NewJoins
  <2>3. CASE pc[t] = "leaveFind"
    BY <2>3, ReturnsByStep, LeaveAllLeaves
  <2> QED BY <2>1, <2>2, <2>3
<1> QED BY <1>1, TypeIsKept, ListsAreKept, LeftIsKept, PTL DEF Spec, AnswersAreTrue

-----------------------------------------------------------------------------
(* Whom a broadcast reaches *)

\* A broadcast that has come to a node of its session owes its message to no connected
\* member before that node.
Heard(t) ==
  pc[t] = "broadcast" =>
    \A i \in DOMAIN sessions : sessions[i].id = sess[t] =>
      \A j, k \in DOMAIN sessions[i].users :
        sessions[i].users[j] = ptr[t] /\ k < j =>
          Owner(sessions[i].users[k]) \notin due[t] \cap Holding

HeardInv == server = "up" => \A t \in Thread : Heard(t)

\* No member gets a descriptor that had none.
LEMMA OwnersHeld ==
  ASSUME TypeInv, LeftInv, NEW t \in Thread, Step(t), NEW n \in Nodes(sessions),
         Owner(n) \in Holding'
  PROVE  Owner(n) \in Holding
<1>1. Owner(n) \in Thread /\ pc[Owner(n)] \notin Outside
  BY OwnersAreThreads DEF LeftInv
<1>2. OnlyMoves(t)
  BY RequestsMoveOne, WorkMovesOne DEF Step
<1>3. CASE Owner(n) # t
  BY <1>1, <1>2, <1>3 DEF OnlyMoves, Holding
<1>4. CASE Owner(n) = t
  <2>1. ~Accept(t) /\ ~LoginLink(t) /\ ~Uncount(t)
    BY <1>1, <1>4 DEF Accept, LoginLink, Uncount, At, Outside
  <2>2. CASE KeepsLogins(t)
    BY <1>4, <2>2 DEF KeepsLogins
  <2>3. CASE \E a \in Account : LoginRequest(t, a)
    BY <1>4, <2>3 DEF LoginRequest, Receive, Holding
  <2>4. CASE Close(t) \/ Unlist(t)
    BY <1>4, <2>4 DEF Close, Unlist, End, At, Goto, Holding, TypeInv, PlacesTyped
  <2> QED BY <2>1, <2>2, <2>3, <2>4, RequestsMoveOne, WorkMovesOne DEF Step
<1> QED BY <1>3, <1>4

\* What the others do to the lists leaves nobody behind the walk unheard.
LEMMA FollowingKeepsHeard ==
  ASSUME TypeInv, LeftInv, NEW t \in Thread, Step(t),
         sessions' = sessions \/ SessionsFollow,
         NEW u \in Thread, Heard(u), pc[u] = "broadcast",
         sess'[u] = sess[u], ptr'[u] = ptr[u], due'[u] = due[u]
  PROVE  Heard(u)'
<1> SUFFICES ASSUME NEW i \in DOMAIN sessions', sessions'[i].id = sess[u],
                    NEW j \in DOMAIN sessions'[i].users, NEW k \in DOMAIN sessions'[i].users,
                    sessions'[i].users[j] = ptr[u], k < j
             PROVE  Owner(sessions'[i].users[k]) \notin due[u] \cap Holding'
  BY DEF Heard
<1> DEFINE new == sessions'[i].users
<1>1. \E m \in DOMAIN sessions : \E p, q \in DOMAIN sessions[m].users :
        /\ sessions[m].id = sess[u]
        /\ sessions[m].users[p] = ptr[u] /\ q < p
        /\ sessions[m].users[q] = new[k]
  <2>1. CASE sessions' = sessions
    BY <2>1
  <2>2. CASE SessionsFollow
    <3>1. PICK at \in [DOMAIN sessions' -> 1 .. Len(sessions) + 1] :
            \A l \in DOMAIN sessions' :
              \/ /\ at[l] \in DOMAIN sessions
                 /\ sessions'[l].id = sessions[at[l]].id
                 /\ Follows(sessions'[l].users, sessions[at[l]].users)
              \/ /\ at[l] \notin DOMAIN sessions
                 /\ sessions'[l].id \notin Ids(sessions)
                 /\ \A v \in Thread : sess[v] # sessions'[l].id
                 /\ Len(sessions'[l].users) = 1
      BY <2>2 DEF SessionsFollow
    <3> DEFINE m == at[i]
               old == sessions[m].users
    <3>2. m \in DOMAIN sessions /\ sessions[m].id = sess[u] /\ Follows(new, old)
      BY <3>1
    <3>3. DOMAIN old = 1 .. Len(old) /\ Len(old) \in Nat
      BY <3>2, UsersAreNodes
    <3>4. PICK f \in [DOMAIN new -> 1 .. Len(old) + 1] :
            /\ \A b, c \in DOMAIN new : c < b => f[c] < f[b]
            /\ \A b \in DOMAIN new :
                 \/ f[b] \in DOMAIN old /\ new[b] = old[f[b]]
                 \/ /\ f[b] \notin DOMAIN old
                    /\ new[b] \notin ToSet(old) /\ \A v \in Thread : ptr[v] # new[b]
      BY <3>2 DEF Follows
    <3>5. j \in DOMAIN new /\ k \in DOMAIN new /\ new[j] = ptr[u] /\ k < j
      OBVIOUS
    <3> HIDE DEF m, old, new
    <3>6. f[j] \in DOMAIN old /\ new[j] = old[f[j]]
      BY <3>4, <3>5
    <3>7. f[k] < f[j] /\ f[k] \in DOMAIN old
      BY <3>3, <3>4, <3>5, <3>6
    <3>8. new[k] = old[f[k]]
      BY <3>4, <3>5, <3>7
    <3>9. old = sessions[m].users
      BY DEF old
    <3> QED BY <3>2, <3>5, <3>6, <3>7, <3>8, <3>9
  <2> QED BY <2>1, <2>2
<1> HIDE DEF new
<1>2. PICK m \in DOMAIN sessions : \E p, q \in DOMAIN sessions[m].users :
        /\ sessions[m].id = sess[u]
        /\ sessions[m].users[p] = ptr[u] /\ q < p
        /\ sessions[m].users[q] = new[k]
  BY <1>1
<1>3. PICK p, q \in DOMAIN sessions[m].users :
        /\ sessions[m].id = sess[u]
        /\ sessions[m].users[p] = ptr[u] /\ q < p
        /\ sessions[m].users[q] = new[k]
  BY <1>2
<1>4. Owner(new[k]) \notin due[u] \cap Holding
  BY <1>3 DEF Heard
<1>5. new[k] \in Nodes(sessions)
  BY <1>3 DEF Nodes, ToSet
<1>6. Owner(new[k]) \in Holding' => Owner(new[k]) \in Holding
  BY <1>5, OwnersHeld
<1> QED BY <1>4, <1>6 DEF new

\* A broadcast begins at the head of the list (server.c:389-392).
LEMMA MessageStartsAtHead ==
  ASSUME TypeInv, ListsInv, NEW t \in Thread, NEW s \in SessName, MessageRequest(t, s)
  PROVE  Heard(t)'
<1> DEFINE i == findSession(s)
           users == sessions[i].users
<1>1. pc[t] = "recv" /\ sessions' = sessions
  BY DEF MessageRequest, Receive, shared
<1>2. CASE pc' = pc \/ pc' = [pc EXCEPT ![t] = "recv"]
  BY <1>1, <1>2 DEF Heard, TypeInv, PlacesTyped
<1>3. CASE /\ HasUser(i, t)
           /\ ptr' = [ptr EXCEPT ![t] = users[1]]
           /\ sess' = [sess EXCEPT ![t] = sessions[i].id]
  <2>1. i \in DOMAIN sessions
    BY <1>3, SessionIsNamed DEF HasUser
  <2>2. DOMAIN users = 1 .. Len(users) /\ Len(users) \in Nat
    BY <2>1, UsersAreNodes
  <2>3. 1 \in DOMAIN users
    <3>1. PICK j \in DOMAIN users : FdOf(users[j]) = fd[t]
      BY <1>3 DEF HasUser, findUser
    <3> QED BY <2>2, <3>1
  <2>4. sess'[t] = sessions[i].id /\ ptr'[t] = users[1]
    BY <1>3 DEF TypeInv, LocalsTyped
  <2> HIDE DEF i
  <2>5. ASSUME NEW m \in DOMAIN sessions, sessions[m].id = sess'[t],
               NEW j \in DOMAIN sessions[m].users, sessions[m].users[j] = ptr'[t],
               NEW k \in DOMAIN sessions[m].users
        PROVE  ~(k < j)
    <3>1. m = i
      BY <2>1, <2>4, <2>5 DEF ListsInv
    <3>2. j = 1
      BY <2>1, <2>3, <2>4, <2>5, <3>1 DEF ListsInv
    <3> QED BY <2>2, <2>5, <3>1, <3>2
  <2> QED BY <1>1, <2>5 DEF Heard
<1> QED BY <1>2, <1>3 DEF MessageRequest, Answer, Goto

\* Where the walk goes from a node of a listed session: behind it, to the next one
\* (server.c:402).
LEMMA NextIsAhead ==
  ASSUME TypeInv, ListsInv, NEW t \in Thread,
         NEW i \in DOMAIN sessions, sessions[i].id = sess[t],
         NEW users, users = sessions[i].users
  PROVE  /\ ptr[t] \notin ToSet(users) => Ahead(t) = <<>>
         /\ \A j \in DOMAIN users : users[j] = ptr[t] =>
              \/ j = Len(users) /\ Ahead(t) = <<>>
              \/ /\ j + 1 \in DOMAIN users
                 /\ Ahead(t) # <<>> /\ Head(Ahead(t)) = users[j + 1]
<1> DEFINE I == {k \in 1 .. Len(users) : users[k] = ptr[t]}
           j == IF I # {} THEN Min(I) ELSE 0
<1>1. SessionWithId(sess[t]) = i /\ i # 0
  BY SessionIsFound
<1>2. users \in Seq(Node) /\ DOMAIN users = 1 .. Len(users) /\ Len(users) \in Nat
  BY UsersAreNodes
<1>3. Ahead(t) = IF j = 0 THEN <<>> ELSE SubSeq(users, j + 1, Len(users))
  <2>1. SelectInSeq(users, LAMBDA n : n = ptr[t]) = j
    BY DEF SelectInSeq
  <2>2. Ahead(t) = CASE i = 0           -> rest[t]
                     [] i # 0 /\ j = 0 -> <<>>
                     [] OTHER           -> SubSeq(users, j + 1, Len(users))
    BY <1>1, <2>1, Zenon DEF Ahead
  <2> HIDE DEF j
  <2> QED BY <1>1, <2>2
<1>4. ASSUME ptr[t] \notin ToSet(users) PROVE Ahead(t) = <<>>
  <2>1. I = {}
    BY <1>2, <1>4 DEF ToSet
  <2> QED BY <1>3, <2>1
<1>5. ASSUME NEW k \in DOMAIN users, users[k] = ptr[t]
      PROVE  \/ k = Len(users) /\ Ahead(t) = <<>>
             \/ /\ k + 1 \in DOMAIN users
                /\ Ahead(t) # <<>> /\ Head(Ahead(t)) = users[k + 1]
  <2>1. I = {k}
    BY <1>2, <1>5 DEF ListsInv
  <2>2. Min({k}) \in {k}
    <3>1. k \in Nat
      BY <1>2
    <3> HIDE DEF I, j
    <3> QED BY <3>1, LeastIsFound
  <2>3. j = k
    <3>1. Min(I) = k /\ I # {}
      <4> HIDE DEF I
      <4> QED BY <2>1, <2>2
    <3> HIDE DEF I
    <3> QED BY <3>1
  <2> HIDE DEF I, j
  <2>4. Ahead(t) = SubSeq(users, k + 1, Len(users)) /\ k \in 1 .. Len(users)
    BY <1>2, <1>3, <2>3
  <2> DEFINE ahead == SubSeq(users, k + 1, Len(users))
  <2>5. /\ ahead \in Seq(Node) /\ Len(ahead) = Len(users) - k
        /\ k # Len(users) => ahead[1] = users[k + 1]
    <3>1. k \in Nat /\ Len(users) \in Nat /\ k <= Len(users)
      BY <1>2, <2>4
    <3> QED BY <1>2, <3>1
  <2> HIDE DEF ahead
  <2>6. CASE k = Len(users)
    <3>1. Len(ahead) = 0
      BY <1>2, <2>5, <2>6
    <3>2. ahead = <<>>
      BY <2>5, <3>1
    <3> QED BY <2>4, <2>6, <3>2 DEF ahead
  <2>7. CASE k # Len(users)
    <3>1. k + 1 \in DOMAIN users /\ Len(ahead) # 0
      BY <1>2, <2>4, <2>5, <2>7
    <3>2. ahead # <<>> /\ Head(ahead) = ahead[1]
      BY <2>5, <3>1
    <3> QED BY <2>4, <2>5, <2>7, <3>1, <3>2 DEF ahead
  <2> QED BY <2>6, <2>7
<1> QED BY <1>4, <1>5

\* A node of a connected member leads to that member (server.c:393-399).
LEMMA NodeLeadsToMember ==
  ASSUME TypeInv, LeftInv, HeldInv, NEW n \in Nodes(sessions), Owner(n) \in Holding
  PROVE  holder[FdOf(n)] = Owner(n)
BY OwnersAreThreads DEF LeftInv, HeldInv, Holding

\* A node of the broadcast: its owner has heard, and the walk is one node on
\* (server.c:393-402).
LEMMA BroadcastGoesOn ==
  ASSUME TypeInv, ListsInv, LeftInv, HeldInv, NEW t \in Thread, Heard(t), Broadcast(t)
  PROVE  Heard(t)'
<1> DEFINE to == holder[FdOf(ptr[t])]
<1>1. /\ server = "up" /\ pc[t] = "broadcast"
      /\ UNCHANGED <<sessions, holder>>
      /\ \/ UNCHANGED <<pc, sess, ptr, due>>
         \/ WalkOn(t, Ahead(t), to)
  BY DEF Broadcast, At, shared
<1>2. Holding' \subseteq Holding
  <2>1. pc' = pc \/ \E l : pc' = [pc EXCEPT ![t] = l]
    BY <1>1, Zenon DEF WalkOn, Goto
  <2> QED BY <1>1, <2>1 DEF Holding, TypeInv, PlacesTyped
<1>3. CASE UNCHANGED <<pc, sess, ptr, due>>
  BY <1>1, <1>2, <1>3 DEF Heard
<1>4. CASE WalkOn(t, Ahead(t), to) /\ Ahead(t) = <<>>
  <2>1. pc'[t] = "recv"
    BY <1>4 DEF WalkOn, Goto, TypeInv, PlacesTyped
  <2> QED BY <2>1 DEF Heard
<1>5. CASE WalkOn(t, Ahead(t), to) /\ Ahead(t) # <<>>
  <2>1. sess'[t] = sess[t] /\ ptr'[t] = Head(Ahead(t)) /\ due'[t] = due[t] \ {to}
    BY <1>5 DEF WalkOn, TypeInv, LocalsTyped
  <2> SUFFICES ASSUME NEW i \in DOMAIN sessions, sessions[i].id = sess[t],
                      NEW j \in DOMAIN sessions[i].users, NEW k \in DOMAIN sessions[i].users,
                      sessions[i].users[j] = Head(Ahead(t)), k < j
               PROVE  Owner(sessions[i].users[k]) \notin (due[t] \ {to}) \cap Holding
    BY <1>1, <1>2, <2>1 DEF Heard
  <2> DEFINE users == sessions[i].users
  <2>2. DOMAIN users = 1 .. Len(users) /\ Len(users) \in Nat
    BY UsersAreNodes
  <2>3. PICK l \in DOMAIN users : users[l] = ptr[t]
    BY <1>5, NextIsAhead DEF ToSet
  <2>4. l + 1 \in DOMAIN users /\ Head(Ahead(t)) = users[l + 1]
    BY <1>5, <2>3, NextIsAhead
  <2>5. j = l + 1
    BY <2>4 DEF ListsInv
  <2>6. CASE k = l
    <3>1. users[k] \in Nodes(sessions) /\ users[k] = ptr[t]
      BY <2>3, <2>6 DEF Nodes, ToSet
    <3>2. Owner(users[k]) \in Holding => to = Owner(users[k])
      BY <3>1, NodeLeadsToMember
    <3> QED BY <3>2
  <2>7. CASE k # l
    <3>1. k < l
      BY <2>2, <2>5, <2>7
    <3>2. Owner(users[k]) \notin due[t] \cap Holding
      BY <1>1, <2>3, <3>1 DEF Heard
    <3> QED BY <3>2
  <2> QED BY <2>6, <2>7
<1> QED BY <1>1, <1>3, <1>4, <1>5

\* No step leaves a member behind a walk unheard.
LEMMA StepsKeepHeard ==
  ASSUME TypeInv, ListsInv, JoinInv, LeftInv, HeldInv, HeardInv, NEW t \in Thread, Step(t),
         server' = "up"
  PROVE  HeardInv'
<1>1. OnlyMoves(t) /\ server = "up"
  BY RequestsMoveOne, WorkMovesOne DEF Step, OnlyMoves
<1>2. sessions' = sessions \/ SessionsFollow
  BY ListsFollow, OthersKeepLists
<1>3. ASSUME NEW u \in Thread \ {t} PROVE Heard(u)'
  <2>1. CASE pc[u] = "broadcast"
    BY <1>1, <1>2, <2>1, FollowingKeepsHeard DEF OnlyMoves, HeardInv
  <2>2. CASE pc[u] # "broadcast"
    BY <1>1, <2>2 DEF OnlyMoves, Heard
  <2> QED BY <2>1, <2>2
<1>4. Heard(t)'
  <2>1. CASE pc'[t] # "broadcast"
    BY <2>1 DEF Heard
  <2>2. CASE PeerCloses(t)
    <3>1. UNCHANGED <<pc, sessions, sess, ptr, due>>
      BY <2>2 DEF PeerCloses, shared
    <3> QED BY <1>1, <3>1 DEF Heard, HeardInv, Holding
  <2>3. CASE Broadcast(t)
    BY <1>1, <2>3, BroadcastGoesOn DEF HeardInv
  <2>4. CASE \E s \in SessName : MessageRequest(t, s)
    BY <2>4, MessageStartsAtHead
  <2>5. CASE Lists(t)
    BY <2>1, <2>5, ListsFollow
  <2>6. CASE JoinWalk(t) \/ \E s \in SessName : JoinRequest(t, s)
    <3>1. pc'[t] # "broadcast"
      BY <2>6 DEF JoinWalk, JoinRequest, Receive, Answer, Goto, TypeInv, PlacesTyped
    <3> QED BY <2>1, <3>1
  <2> QED BY <2>1, <2>2, <2>3, <2>4, <2>5, <2>6, OthersComeToRest
<1> QED BY <1>3, <1>4 DEF HeardInv

\* What a broadcast still owes lies ahead of it.
THEOREM HeardIsKept == Spec => []HeardInv
<1>1. Init => HeardInv
  BY DEF Init, HeardInv, Heard
<1>2. /\ TypeInv /\ ListsInv /\ JoinInv /\ LeftInv /\ HeldInv /\ HeardInv /\ [Next]_vars
      => HeardInv'
  <2> SUFFICES ASSUME TypeInv, ListsInv, JoinInv, LeftInv, HeldInv, HeardInv, [Next]_vars,
                      server' = "up"
               PROVE  HeardInv'
    BY DEF HeardInv
  <2>1. CASE vars' = vars
    BY <2>1 DEF vars, shared, locals, HeardInv, Heard, Holding
  <2>2. CASE AcceptTimeout
    BY <2>2 DEF AcceptTimeout
  <2> QED BY <2>1, <2>2, StepsOfOne, StepsKeepHeard
<1> QED
  BY <1>1, <1>2, TypeIsKept, ListsAreKept, LeftIsKept, DescriptorsAreTheirs, PTL DEF Spec

\* A broadcast that has gone along its session to the end has reached every other user
\* who was in it at the start and has stayed in it and connected, for any number of
\* users however often each has joined, and whoever else joins, leaves, ends or takes
\* over a descriptor meanwhile (server.c:389-403).
THEOREM MembersHear == Spec => EveryMemberHears
<1>1. TypeInv /\ ListsInv /\ LeftInv /\ HeldInv /\ HeardInv /\ [Next]_vars
        => [\A t \in Thread : pc[t] = "broadcast" /\ pc'[t] = "recv" /\ Missed(t) # {} =>
              \A i \in DOMAIN sessions :
                sessions[i].id = sess[t] => ptr[t] \notin ToSet(sessions[i].users)]_vars
  <2> SUFFICES ASSUME TypeInv, ListsInv, LeftInv, HeldInv, HeardInv, [Next]_vars,
                      NEW t \in Thread, pc[t] = "broadcast", pc'[t] = "recv",
                      NEW i \in DOMAIN sessions, sessions[i].id = sess[t],
                      ptr[t] \in ToSet(sessions[i].users),
                      NEW u \in Missed(t)
               PROVE  FALSE
    OBVIOUS
  <2> DEFINE users == sessions[i].users
  <2>1. Broadcast(t) /\ server = "up"
    BY ReturnsByStep DEF Broadcast, At
  <2>2. Ahead(t) = <<>>
    <3>1. WalkOn(t, Ahead(t), holder[FdOf(ptr[t])])
      BY <2>1 DEF Broadcast
    <3> QED BY <3>1 DEF WalkOn, Goto, TypeInv, PlacesTyped
  <2>3. PICK j \in DOMAIN users : users[j] = ptr[t]
    BY DEF ToSet
  <2>4. j = Len(users)
    BY <2>2, <2>3, NextIsAhead
  <2>5. /\ u \in due[t] /\ Connected(u) /\ holder[FdOf(ptr[t])] # u
        /\ \E m \in DOMAIN sessions : sessions[m].id = sess[t] /\ u \in Members(m)
    BY DEF Missed
  <2>6. u \in Members(i)
    BY <2>5 DEF ListsInv
  <2>7. PICK k \in DOMAIN users : u = Owner(users[k])
    BY <2>6 DEF Members
  <2>8. u \in Holding
    <3>1. u \in Thread
      BY <2>5 DEF TypeInv, LocalsTyped
    <3> QED BY <2>5, <3>1, ConstantsAssumption DEF Connected, HeldInv
  <2>9. k < j
    <3>1. k # j
      <4>1. users[j] \in Nodes(sessions)
        BY DEF Nodes, ToSet
      <4> QED BY <2>3, <2>5, <2>7, <2>8, <4>1, NodeLeadsToMember
    <3>2. DOMAIN users = 1 .. Len(users) /\ Len(users) \in Nat
      BY UsersAreNodes
    <3> QED BY <2>4, <3>1, <3>2
  <2> QED BY <2>1, <2>3, <2>5, <2>7, <2>8, <2>9 DEF HeardInv, Heard
<1> QED
  BY <1>1, TypeIsKept, ListsAreKept, LeftIsKept, DescriptorsAreTheirs, HeardIsKept, PTL
     DEF Spec, EveryMemberHears

=============================================================================
