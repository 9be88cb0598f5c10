--------------------------- MODULE ConfServerProofs ---------------------------
(***************************************************************************)
(* What holds of the conferencing server for any number of connections,    *)
(* accounts, sessions and descriptors, however their requests interleave.  *)
(***************************************************************************)
EXTENDS ConfServerTypes

-----------------------------------------------------------------------------
(* The count of connections *)

\* The connections whose thread is alive.
Active == {t \in Thread : pc[t] \notin {"idle", "end"}}

\* The connections that have been accepted.
Accepted == {t \in Thread : pc[t] # "idle"}

CountInv ==
  /\ pc \in [Thread -> Places]
  /\ userCount \in 0 .. Cardinality(Accepted)
  /\ CountCoversConnections
  /\ ClosedOnlyWhenIdle

\* A step of the living thread t that moves nothing but t, and counts nothing.
Moves(t) ==
  /\ server = "up" /\ server' # "closed"
  /\ userCount' = userCount
  /\ pc[t] \notin {"idle", "end"}
  /\ pc' = pc \/ \E l \in Places \ {"idle"} : pc' = [pc EXCEPT ![t] = l]

\* Sets of threads are finite.
LEMMA ThreadsAreFinite ==
  ASSUME NEW S \in SUBSET Thread
  PROVE  IsFiniteSet(S) /\ Cardinality(S) \in Nat
BY ConstantsAssumption, FS_Subset, FS_CardinalityType

\* A thread that is alive may end, but none comes to life (server.c:569-571).
LEMMA MovesKeepsCount ==
  ASSUME CountInv, NEW t \in Thread, Moves(t)
  PROVE  CountInv'
<1>1. Active' \subseteq Active /\ Accepted' = Accepted
  BY DEF CountInv, Moves, Active, Accepted
<1>2. Cardinality(Active') <= Cardinality(Active)
  BY <1>1, ThreadsAreFinite, FS_Subset DEF Active
<1>3. Cardinality(Active') \in Nat /\ Cardinality(Active) \in Nat
  BY ThreadsAreFinite DEF Active
<1>4. CountCoversConnections'
  <2>1. userCount >= Cardinality(Active)
    BY DEF CountInv, CountCoversConnections, Active
  <2>2. userCount' >= Cardinality(Active')
    BY <1>2, <1>3, <2>1 DEF Moves, CountInv
  <2> QED BY <2>2 DEF CountCoversConnections, Active
<1>5. ClosedOnlyWhenIdle'
  BY DEF Moves, ClosedOnlyWhenIdle
<1>6. pc' \in [Thread -> Places] /\ userCount' \in 0 .. Cardinality(Accepted')
  BY <1>1 DEF CountInv, Moves
<1> QED BY <1>4, <1>5, <1>6 DEF CountInv

\* accept() counts the connection that its thread is started for (server.c:704-706).
LEMMA AcceptKeepsCount ==
  ASSUME CountInv, NEW t \in Thread, Accept(t)
  PROVE  CountInv'
<1>1. /\ Active' = Active \cup {t} /\ t \notin Active
      /\ Accepted' = Accepted \cup {t} /\ t \notin Accepted
  BY DEF CountInv, Accept, At, Goto, Active, Accepted
<1>2. Cardinality(Active') = Cardinality(Active) + 1 /\ Cardinality(Active) \in Nat
  BY <1>1, ThreadsAreFinite, FS_AddElement DEF Active
<1>3. Cardinality(Accepted') = Cardinality(Accepted) + 1 /\ Cardinality(Accepted) \in Nat
  BY <1>1, ThreadsAreFinite, FS_AddElement DEF Accepted
<1>4. CountCoversConnections'
  <2>1. userCount >= Cardinality(Active)
    BY DEF CountInv, CountCoversConnections, Active
  <2>2. userCount' >= Cardinality(Active')
    BY <1>2, <2>1 DEF CountInv, Accept
  <2> QED BY <2>2 DEF CountCoversConnections, Active
<1>5. ClosedOnlyWhenIdle'
  BY DEF Accept, At, ClosedOnlyWhenIdle
<1>6. pc' \in [Thread -> Places] /\ userCount' \in 0 .. Cardinality(Accepted')
  BY <1>3 DEF CountInv, Accept, Goto, Places
<1> QED BY <1>4, <1>5, <1>6 DEF CountInv

\* The thread that counts down was alive, and is not any more (server.c:569-571).
LEMMA UncountKeepsCount ==
  ASSUME CountInv, NEW t \in Thread, Uncount(t)
  PROVE  CountInv'
<1>1. Active' = Active \ {t} /\ t \in Active /\ Accepted' = Accepted
  BY DEF CountInv, Uncount, At, End, Goto, Active, Accepted
<1>2. /\ Cardinality(Active') = Cardinality(Active) - 1
      /\ Cardinality(Active) \in Nat /\ Cardinality(Active') \in Nat
  BY <1>1, ThreadsAreFinite, FS_RemoveElement DEF Active
<1>3. Cardinality(Accepted) \in Nat
  BY ThreadsAreFinite DEF Accepted
<1>4. userCount' >= Cardinality(Active')
  <2>1. userCount >= Cardinality(Active)
    BY DEF CountInv, CountCoversConnections, Active
  <2> QED BY <1>2, <2>1 DEF CountInv, Uncount
<1>5. CountCoversConnections'
  BY <1>4 DEF CountCoversConnections, Active
<1>6. ClosedOnlyWhenIdle'
  BY DEF Uncount, At, ClosedOnlyWhenIdle
<1>7. pc' \in [Thread -> Places] /\ userCount' \in 0 .. Cardinality(Accepted')
  <2>1. pc' \in [Thread -> Places]
    BY DEF CountInv, Uncount, End, Goto, Places
  <2>2. userCount' \in 0 .. Cardinality(Accepted')
    BY <1>1, <1>2, <1>3, <1>4 DEF CountInv, Uncount
  <2> QED BY <2>1, <2>2
<1> QED BY <1>5, <1>6, <1>7 DEF CountInv

\* main closes the server with a count of 0, which covers no thread (server.c:696).
LEMMA TimeoutKeepsCount ==
  ASSUME CountInv, AcceptTimeout
  PROVE  CountInv'
<1>1. Active = {}
  <2>1. 0 >= Cardinality(Active)
    BY DEF CountInv, CountCoversConnections, AcceptTimeout, Active
  <2>2. Cardinality(Active) = 0
    BY <2>1, ThreadsAreFinite DEF Active
  <2> QED BY <2>2, ThreadsAreFinite, FS_EmptySet DEF Active
<1>2. UNCHANGED <<userCount, pc>>
  BY DEF AcceptTimeout, shared
<1>3. CountCoversConnections'
  BY <1>2 DEF CountInv, CountCoversConnections
<1>4. ClosedOnlyWhenIdle'
  BY <1>1, <1>2 DEF ClosedOnlyWhenIdle, Active
<1> QED BY <1>2, <1>3, <1>4 DEF CountInv, Accepted

\* What a client asks for moves its own thread only.
LEMMA RequestMoves ==
  ASSUME CountInv, NEW t \in Thread, Request(t)
  PROVE  Moves(t)
<1>1. CASE RefuseLogin(t) \/ ExitRequest(t) \/ LeaveAllRequest(t) \/ Query(t)
  BY <1>1 DEF RefuseLogin, ExitRequest, LeaveAllRequest, Query, Receive, Answer, Goto,
              shared, Moves, CountInv, Places, Busy
<1>2. ASSUME NEW a \in Account, LoginRequest(t, a) PROVE Moves(t)
  BY <1>2 DEF LoginRequest, Receive, Goto, shared, Moves, CountInv, Places, Busy
<1>3. ASSUME NEW s \in SessName, JoinRequest(t, s) \/ LeaveRequest(t, s) PROVE Moves(t)
  BY <1>3 DEF JoinRequest, LeaveRequest, Receive, Answer, Goto, shared, Moves, CountInv, Places, Busy
<1>4. ASSUME NEW s \in SessName, NewRequest(t, s) \/ MessageRequest(t, s) PROVE Moves(t)
  BY <1>4 DEF NewRequest, MessageRequest, Receive, Answer, Goto, shared, Moves, CountInv, Places, Busy
<1>5. ASSUME NEW s \in SessName, NEW a \in Account, InviteRequest(t, a, s) PROVE Moves(t)
  BY <1>5 DEF InviteRequest, Receive, Answer, Goto, shared, Moves, CountInv, Places, Busy
<1> QED BY <1>1, <1>2, <1>3, <1>4, <1>5 DEF Request

\* So does what the thread does of its own accord, the counting down excepted.
LEMMA WorkMoves ==
  ASSUME CountInv, NEW t \in Thread,
         Work(t) \/ PeerCloses(t) \/ RecvFails(t), ~Uncount(t)
  PROVE  Moves(t)
<1>1. CASE LoginWalk(t) \/ LoginLink(t) \/ JoinWalk(t) \/ JoinLink(t)
  BY <1>1 DEF LoginWalk, LoginLink, JoinWalk, JoinLink, At, Answer, Goto, Moves, CountInv, Places, Busy
<1>2. CASE Leave(t) \/ LeaveAll(t) \/ Purge(t)
  BY <1>2 DEF Leave, LeaveAll, Purge, RemoveFound, At, Goto, Moves, CountInv, Places, Busy
<1>3. CASE AnswerLeave(t) \/ LeaveFind(t) \/ NewLink(t) \/ Disconnect(t) \/ RecvFails(t)
  BY <1>3 DEF AnswerLeave, LeaveFind, NewLink, Disconnect, RecvFails, At, Answer, Goto,
              shared, Moves, CountInv, Places, Busy
<1>4. CASE Broadcast(t) \/ Invite(t)
  BY <1>4 DEF Broadcast, WalkOn, Invite, At, Goto, shared, Moves, CountInv, Places, Busy
<1>5. CASE Close(t) \/ Unlist(t) \/ PurgeFind(t) \/ PeerCloses(t)
  BY <1>5 DEF Close, End, Unlist, PurgeFind, PeerCloses, At, Goto, shared, Moves, CountInv, Places, Busy
<1> QED BY <1>1, <1>2, <1>3, <1>4, <1>5 DEF Work

\* userCount lies between the connections that are alive and those ever accepted,
\* whoever ends and however (server.c:569-571, 704-706).
THEOREM CountIsKept == Spec => []CountInv
<1>1. Init => CountInv
  <2> SUFFICES ASSUME Init PROVE CountInv
    OBVIOUS
  <2>1. Active = {}
    BY DEF Init, Active
  <2>2. userCount >= Cardinality(Active)
    BY <2>1, FS_EmptySet DEF Init
  <2>3. CountCoversConnections
    BY <2>2 DEF CountCoversConnections, Active
  <2>4. Cardinality(Accepted) \in Nat
    BY ThreadsAreFinite DEF Accepted
  <2> QED BY <2>3, <2>4 DEF Init, CountInv, ClosedOnlyWhenIdle, Places
<1>2. CountInv /\ [Next]_vars => CountInv'
  <2> SUFFICES ASSUME CountInv, [Next]_vars PROVE CountInv'
    OBVIOUS
  <2>1. CASE vars' = vars
    BY <2>1 DEF vars, shared, CountInv, CountCoversConnections, ClosedOnlyWhenIdle, Accepted
  <2>2. CASE AcceptTimeout
    BY <2>2, TimeoutKeepsCount
  <2>3. ASSUME NEW t \in Thread, Accept(t) PROVE CountInv'
    BY <2>3, AcceptKeepsCount
  <2>4. ASSUME NEW t \in Thread, Request(t) PROVE CountInv'
    BY <2>4, RequestMoves, MovesKeepsCount
  <2>5. ASSUME NEW t \in Thread, Work(t) \/ PeerCloses(t) \/ RecvFails(t) PROVE CountInv'
    BY <2>5, WorkMoves, MovesKeepsCount, UncountKeepsCount
  <2> QED BY <2>1, <2>2, <2>3, <2>4, <2>5 DEF Next
<1> QED BY <1>1, <1>2, PTL DEF Spec

\* userCount is never less than the number of connections that are alive, for any
\* number of them, so a server that counts nobody has nobody (server.c:569-571,
\* 704-706).
THEOREM NobodyIsUncounted == Spec => []CountCoversConnections
BY CountIsKept, PTL DEF CountInv

\* The process is ended by its accept timer only when no thread is at work
\* (server.c:694-712).
THEOREM NobodyIsCutOff == Spec => []ClosedOnlyWhenIdle
BY CountIsKept, PTL DEF CountInv

\* The types of the variables, for every value of the constants: no list operation
\* leaves anything in a list but a node of a thread, and the count stays within
\* the connections accepted (server.c:33-45).
THEOREM TypesAreKept == Spec => []TypeOK
<1>1. TypeInv /\ CountInv => TypeOK
  <2> SUFFICES ASSUME TypeInv, CountInv PROVE TypeOK
    OBVIOUS
  <2>1. userCount \in 0 .. Cardinality(Thread)
    <3>1. Cardinality(Accepted) <= Cardinality(Thread)
      BY ConstantsAssumption, FS_Subset DEF Accepted
    <3>2. Cardinality(Accepted) \in Nat /\ Cardinality(Thread) \in Nat
      BY ThreadsAreFinite DEF Accepted
    <3> QED BY <3>1, <3>2 DEF CountInv
  <2>2. \A i \in DOMAIN sessions : sessions[i] \in [id : SessName \X Nat, users : Seq(Node)]
    <3>1. \A i \in DOMAIN sessions : sessions[i] \in Session
      BY DEF TypeInv, SharedTyped
    <3> QED BY <3>1 DEF Session
  <2>3. {usersLock, sessLock} \subseteq Thread \cup {NoOne}
    BY DEF TypeInv, SharedTyped
  <2>4. pc \in [Thread -> {"idle", "recv", "leaked", "end"} \cup Busy]
    BY DEF TypeInv, PlacesTyped, Places
  <2>5. /\ server \in {"up", "closed", "exited", "crashed"}
        /\ holder \in [Fd -> Thread \cup {NoOne}] /\ userList \in Seq(Node)
    BY DEF TypeInv, PlacesTyped, SharedTyped
  <2>6. LocalsTyped
    BY DEF TypeInv
  <2>7. rest \in [Thread -> Seq(Node)] /\ raced \subseteq SessName
    BY DEF TypeInv, SharedTyped
  <2> QED BY <2>1, <2>2, <2>3, <2>4, <2>5, <2>6, <2>7 DEF TypeOK, LocalsTyped
<1> QED BY <1>1, TypeIsKept, CountIsKept, PTL

-----------------------------------------------------------------------------
(* What a thread leaves behind *)

\* The places where a thread has no node in a session.
Outside == {"idle", "loginWalk", "loginLink", "uncount", "end"}

\* Every node of every session is that of a login that has still to clean up: it has
\* the name of the login, and the descriptor by which the cleaning looks for it.
LeftInv ==
  \A n \in Nodes(sessions) :
    /\ FdOf(n) = fd[Owner(n)] /\ NameOf(n) = name[Owner(n)] /\ LoggedIn(Owner(n))
    /\ pc[Owner(n)] \notin Outside

\* A step of t that adds no node but one of its own, and does not end it.
Stays(t) ==
  /\ pc[t] \notin Outside
  /\ \A n \in Nodes(sessions') :
       \/ n \in Nodes(sessions)
       \/ Owner(n) = t /\ NameOf(n) = name[t] /\ FdOf(n) = fd[t] /\ LoggedIn(t)
  /\ UNCHANGED fd
  /\ \A u \in Thread : LoggedIn(u) => name'[u] = name[u]
  /\ pc' = pc \/ \E l \in Places \ Outside : pc' = [pc EXCEPT ![t] = l]

\* The owners of nodes are threads.
LEMMA OwnersAreThreads ==
  ASSUME TypeInv, NEW n \in Nodes(sessions)
  PROVE  Owner(n) \in Thread /\ NameOf(n) \in Account
<1>1. PICK i \in DOMAIN sessions : n \in ToSet(sessions[i].users)
  BY DEF Nodes
<1>2. sessions[i] \in Session
  BY DEF TypeInv, SharedTyped
<1>3. sessions[i].users \in Seq(Node)
  BY <1>2 DEF Session
<1>4. n \in Node
  BY <1>1, <1>3 DEF ToSet
<1> QED BY <1>4 DEF Node, Owner, NameOf

\* Such a step leaves every node with a login that cleans up.
LEMMA StaysKeepsLeft ==
  ASSUME TypeInv, LeftInv, NEW t \in Thread, Stays(t)
  PROVE  LeftInv'
<1> SUFFICES ASSUME NEW n \in Nodes(sessions')
             PROVE  /\ FdOf(n) = fd'[Owner(n)] /\ NameOf(n) = name'[Owner(n)]
                    /\ LoggedIn(Owner(n))'
                    /\ pc'[Owner(n)] \notin Outside
  BY DEF LeftInv
<1>1. /\ Owner(n) \in Thread /\ LoggedIn(Owner(n))
      /\ FdOf(n) = fd[Owner(n)] /\ NameOf(n) = name[Owner(n)]
  BY OwnersAreThreads DEF Stays, LeftInv
<1>2. pc[Owner(n)] \notin Outside
  BY DEF Stays, LeftInv
<1>3. pc'[Owner(n)] \notin Outside
  BY <1>1, <1>2 DEF Stays, TypeInv, PlacesTyped
<1> QED BY <1>1, <1>3 DEF Stays, LoggedIn

\* A thread that is logging in, begins or ends has no nodes to be forgotten.
LEMMA OutsideKeepsLeft ==
  ASSUME TypeInv, LeftInv, NEW t \in Thread, UNCHANGED sessions,
         pc[t] \in Outside \/ ~LoggedIn(t),
         \A u \in Thread \ {t} : pc'[u] = pc[u] /\ fd'[u] = fd[u] /\ name'[u] = name[u]
  PROVE  LeftInv'
<1>1. \A n \in Nodes(sessions) : Owner(n) \in Thread \ {t}
  BY OwnersAreThreads DEF LeftInv
<1> QED BY <1>1 DEF LeftInv, LoggedIn

\* The lists of the sessions only change in JOIN, NEW_SESS and removals, and a
\* thread adds its own node with its own descriptor (server.c:178-325).
LEMMA ListsKeepLeft ==
  ASSUME TypeInv, LeftInv, NEW t \in Thread,
         \/ JoinLink(t) \/ NewLink(t) \/ Leave(t) \/ LeaveAll(t) \/ Purge(t)
  PROVE  LeftInv'
<1>1. CASE JoinLink(t) \/ NewLink(t)
  <2>1. LoggedIn(t)
    BY <1>1, ConstantsAssumption DEF TypeInv, PlacesTyped, JoinLink, NewLink, At, Inside, Busy, LoggedIn
  <2>2. \A n \in Nodes(sessions') :
          \/ n \in Nodes(sessions)
          \/ Owner(n) = t /\ NameOf(n) = name[t] /\ FdOf(n) = fd[t] /\ LoggedIn(t)
    BY <1>1, <2>1, JoinLinkLists, NewLinkLists
  <2>3. pc[t] \in {"joinLink", "newLink"} /\ UNCHANGED <<fd, name>>
    BY <1>1 DEF JoinLink, NewLink, At
  <2>4. pc' = pc \/ pc' = [pc EXCEPT ![t] = "recv"]
    BY <1>1 DEF JoinLink, NewLink, Answer, Goto
  <2>5. Stays(t)
    BY <2>2, <2>3, <2>4 DEF Stays, Outside, Places
  <2> QED BY <2>5, StaysKeepsLeft
<1>2. CASE Leave(t) \/ LeaveAll(t) \/ Purge(t)
  <2> DEFINE i == SessionWithId(sess[t])
  <2>1. PICK next \in {"left", "leaveFind", "purgeFind"} : RemoveFound(t, next)
    BY <1>2 DEF Leave, LeaveAll, Purge
  <2>2. Nodes(sessions') \subseteq Nodes(sessions)
    <3>1. i # 0 => i \in DOMAIN sessions
      BY FindSessionWithId DEF TypeInv, SharedTyped
    <3>2. i # 0 => Nodes(removeSessUser(i, name[t])) \subseteq Nodes(sessions)
      BY <3>1, removeSessUserKeeps DEF TypeInv, SharedTyped
    <3>3. sessions' = sessions \/ (i # 0 /\ sessions' = removeSessUser(i, name[t]))
      BY <2>1 DEF RemoveFound
    <3> QED BY <3>2, <3>3
  <2>3. pc[t] \in {"leave", "leaveAll", "purge"}
    BY <1>2 DEF Leave, LeaveAll, Purge, At
  <2>4. pc' = [pc EXCEPT ![t] = next] /\ UNCHANGED <<fd, name>>
    BY <2>1 DEF RemoveFound, Goto
  <2>5. Stays(t)
    BY <2>2, <2>3, <2>4 DEF Stays, Outside, Places, Busy
  <2> QED BY <2>5, StaysKeepsLeft
<1> QED BY <1>1, <1>2

\* The other requests, and the work they start, leave the sessions alone.
LEMMA RequestsKeepLeft ==
  ASSUME TypeInv, LeftInv, NEW t \in Thread, Request(t)
  PROVE  LeftInv'
<1>1. CASE RefuseLogin(t) \/ ExitRequest(t) \/ LeaveAllRequest(t) \/ Query(t)
  <2>1. Stays(t)
    BY <1>1 DEF RefuseLogin, ExitRequest, LeaveAllRequest, Query, Receive, Answer, Goto,
                shared, Stays, Outside, Places, Busy
  <2> QED BY <2>1, StaysKeepsLeft
<1>2. ASSUME NEW a \in Account, LoginRequest(t, a) PROVE LeftInv'
  <2>1. /\ ~LoggedIn(t) /\ UNCHANGED sessions
        /\ \A u \in Thread \ {t} : pc'[u] = pc[u] /\ fd'[u] = fd[u] /\ name'[u] = name[u]
    BY <1>2 DEF LoginRequest, Goto, shared, TypeInv, PlacesTyped, LocalsTyped
  <2> QED BY <2>1, OutsideKeepsLeft
<1>3. ASSUME NEW s \in SessName, JoinRequest(t, s) \/ LeaveRequest(t, s) PROVE LeftInv'
  <2>1. Stays(t)
    BY <1>3 DEF JoinRequest, LeaveRequest, Receive, Answer, Goto, shared, Stays, Outside, Places, Busy
  <2> QED BY <2>1, StaysKeepsLeft
<1>4. ASSUME NEW s \in SessName, NewRequest(t, s) \/ MessageRequest(t, s) PROVE LeftInv'
  <2>1. Stays(t)
    BY <1>4 DEF NewRequest, MessageRequest, Receive, Answer, Goto, shared, Stays, Outside, Places, Busy
  <2> QED BY <2>1, StaysKeepsLeft
<1>5. ASSUME NEW s \in SessName, NEW a \in Account, InviteRequest(t, a, s) PROVE LeftInv'
  <2>1. Stays(t)
    BY <1>5 DEF InviteRequest, Receive, Answer, Goto, shared, Stays, Outside, Places, Busy
  <2> QED BY <2>1, StaysKeepsLeft
<1> QED BY <1>1, <1>2, <1>3, <1>4, <1>5 DEF Request

\* Neither does the work that changes no session.
LEMMA WorkKeepsLeft ==
  ASSUME TypeInv, LeftInv, NEW t \in Thread,
         \/ LoginWalk(t) \/ LoginLink(t) \/ JoinWalk(t) \/ AnswerLeave(t) \/ LeaveFind(t)
         \/ Broadcast(t) \/ Invite(t) \/ Disconnect(t) \/ RecvFails(t) \/ PeerCloses(t)
         \/ Unlist(t)
  PROVE  LeftInv'
<1>0. CASE LoginWalk(t) \/ LoginLink(t)
  <2>1. /\ pc[t] \in Outside /\ UNCHANGED sessions
        /\ \A u \in Thread \ {t} : pc'[u] = pc[u] /\ fd'[u] = fd[u] /\ name'[u] = name[u]
    BY <1>0 DEF LoginWalk, LoginLink, At, Answer, Goto, Outside, TypeInv, PlacesTyped
  <2> QED BY <2>1, OutsideKeepsLeft
<1>1. CASE JoinWalk(t) \/ AnswerLeave(t) \/ LeaveFind(t)
  <2>1. Stays(t)
    BY <1>1 DEF JoinWalk, AnswerLeave, LeaveFind, At, Answer, Goto,
                shared, Stays, Outside, Places, Busy
  <2> QED BY <2>1, StaysKeepsLeft
<1>2. CASE Broadcast(t) \/ Invite(t)
  <2>1. Stays(t)
    BY <1>2 DEF Broadcast, WalkOn, Invite, At, Goto, shared, Stays, Outside, Places, Busy
  <2> QED BY <2>1, StaysKeepsLeft
<1>3. CASE Disconnect(t) \/ RecvFails(t) \/ Unlist(t)
  <2>1. Stays(t)
    BY <1>3 DEF Disconnect, RecvFails, Unlist, At, Answer, Goto, shared, locals, Stays, Outside, Places, Busy
  <2> QED BY <2>1, StaysKeepsLeft
<1>4. CASE PeerCloses(t)
  BY <1>4 DEF PeerCloses, shared, LeftInv, LoggedIn
<1> QED BY <1>0, <1>1, <1>2, <1>3, <1>4

\* A thread gets its descriptor when it has no node, and leaves the clean-up only
\* when no node holds its descriptor (server.c:561-571).
LEMMA EndingKeepsLeft ==
  ASSUME TypeInv, LeftInv, NEW t \in Thread,
         Accept(t) \/ Close(t) \/ PurgeFind(t) \/ Uncount(t)
  PROVE  LeftInv'
<1>1. CASE PurgeFind(t)
  <2>1. CASE findSessUser(t) = 0
    <3>1. ASSUME NEW n \in Nodes(sessions) PROVE FdOf(n) # fd[t]
      BY <2>1, FindSessUser DEF TypeInv, SharedTyped, findUser, Nodes, ToSet
    <3>2. \A n \in Nodes(sessions) : Owner(n) # t
      BY <3>1 DEF LeftInv
    <3>3. pc' = [pc EXCEPT ![t] = "uncount"] /\ UNCHANGED <<sessions, fd, name>>
      BY <1>1, <2>1 DEF PurgeFind, Goto, shared
    <3> QED BY <3>2, <3>3, OwnersAreThreads DEF LeftInv, LoggedIn, TypeInv, PlacesTyped
  <2>2. CASE findSessUser(t) # 0
    <3>1. Stays(t)
      BY <1>1, <2>2 DEF PurgeFind, At, Goto, shared, Stays, Outside, Places, Busy
    <3> QED BY <3>1, StaysKeepsLeft
  <2> QED BY <2>1, <2>2
<1>2. CASE Close(t)
  <2>1. CASE LoggedIn(t)
    <3>1. Stays(t)
      BY <1>2, <2>1 DEF Close, At, Goto, Stays, Outside, Places, Busy
    <3> QED BY <3>1, StaysKeepsLeft
  <2>2. CASE ~LoggedIn(t)
    <3>1. /\ \A u \in Thread \ {t} : pc'[u] = pc[u] /\ fd'[u] = fd[u] /\ name'[u] = name[u]
          /\ UNCHANGED sessions
      BY <1>2, <2>2 DEF Close, End, Goto, TypeInv, PlacesTyped, LocalsTyped
    <3> QED BY <2>2, <3>1, OutsideKeepsLeft
  <2> QED BY <2>1, <2>2
<1>3. CASE Accept(t) \/ Uncount(t)
  <2>1. /\ pc[t] \in Outside /\ UNCHANGED sessions
        /\ \A u \in Thread \ {t} : pc'[u] = pc[u] /\ fd'[u] = fd[u] /\ name'[u] = name[u]
    BY <1>3 DEF Accept, FreeFds, Uncount, End, At, Goto, Outside, TypeInv, PlacesTyped, LocalsTyped
  <2> QED BY <2>1, OutsideKeepsLeft
<1> QED BY <1>1, <1>2, <1>3

\* No node of a session is without a login that will look for it by the right
\* descriptor (server.c:556-567).
THEOREM LeftIsKept == Spec => []LeftInv
<1>1. Init => LeftInv
  BY DEF Init, LeftInv, Nodes
<1>2. TypeInv /\ LeftInv /\ [Next]_vars => LeftInv'
  <2> SUFFICES ASSUME TypeInv, LeftInv, [Next]_vars PROVE LeftInv'
    OBVIOUS
  <2>1. CASE vars' = vars \/ AcceptTimeout
    BY <2>1 DEF vars, shared, locals, AcceptTimeout, LeftInv, LoggedIn
  <2>2. ASSUME NEW t \in Thread, Request(t) PROVE LeftInv'
    BY <2>2, RequestsKeepLeft
  <2>3. ASSUME NEW t \in Thread, Accept(t) \/ Work(t) \/ PeerCloses(t) \/ RecvFails(t)
        PROVE  LeftInv'
    BY <2>3, ListsKeepLeft, WorkKeepsLeft, EndingKeepsLeft DEF Work
  <2> QED BY <2>1, <2>2, <2>3 DEF Next
<1> QED BY <1>1, <1>2, TypeIsKept, PTL DEF Spec

\* A thread that has cleaned up has left no node in any session, for any number of
\* connections and however their requests interleave (server.c:561-567).
THEOREM NothingIsLeft == Spec => []EndedLeavesNothing
<1>1. LeftInv => EndedLeavesNothing
  <2> SUFFICES ASSUME LeftInv, NEW t \in Thread, pc[t] \in {"uncount", "end"},
                      NEW i \in DOMAIN sessions, NEW j \in DOMAIN sessions[i].users,
                      Owner(sessions[i].users[j]) = t
               PROVE  FALSE
    BY DEF EndedLeavesNothing, Members
  <2>1. sessions[i].users[j] \in Nodes(sessions)
    BY DEF Nodes, ToSet
  <2> QED BY <2>1 DEF LeftInv, Outside
<1> QED BY <1>1, LeftIsKept, PTL

-----------------------------------------------------------------------------
(* The names of the sessions *)

\* A name that a thread is about to list, and that is listed in the meantime, is known
\* to have been raced for.
PendingIsRaced ==
  \A t \in Thread : pc[t] = "newLink" =>
    \A i \in DOMAIN sessions : Named(sessions[i].id) = arg[t] => arg[t] \in raced

NamesInv == SessionNamesUnique /\ SessionsHaveUsers /\ PendingIsRaced

\* A session found by its name is a session of that name, and none is found only
\* when there is none (message.h, findSession).
LEMMA NameIsFound ==
  ASSUME TypeInv, NEW s, findSession(s) = 0
  PROVE  \A i \in DOMAIN sessions : Named(sessions[i].id) # s
<1> DEFINE I == {i \in 1 .. Len(sessions) : Named(sessions[i].id) = s}
<1>1. findSession(s) = IF I # {} THEN Min(I) ELSE 0
  BY DEF findSession, SelectInSeq
<1>2. I \in SUBSET (1 .. Len(sessions)) /\ Len(sessions) \in Nat
  BY DEF TypeInv, SharedTyped
<1>3. DOMAIN sessions = 1 .. Len(sessions)
  BY DEF TypeInv, SharedTyped
<1>4. I = {}
  <2> HIDE DEF I
  <2> QED BY <1>1, <1>2, FoundIsListed
<1> QED BY <1>3, <1>4

\* addUser never empties a list.
LEMMA addUserFills ==
  ASSUME NEW users \in Seq(Node), users # <<>>, NEW tail, NEW node \in Node
  PROVE  addUser(users, tail, node) # <<>>
<1> DEFINE I == {i \in 1 .. Len(users) : users[i] = tail}
           k == IF I # {} THEN Min(I) ELSE 0
<1>1. addUser(users, tail, node)
        = CASE tail = NoOne          -> <<node>>
            [] tail # NoOne /\ k > 0 -> Append(SubSeq(users, 1, k), node)
            [] OTHER                 -> users
  BY DEF addUser, SelectInSeq
<1>2. k = 0 \/ k \in 1 .. Len(users)
  <2>1. I \in SUBSET (1 .. Len(users)) /\ Len(users) \in Nat
    OBVIOUS
  <2>2. k = 0 \/ k \in I
    <3> HIDE DEF I
    <3> QED BY <2>1, FoundIsListed
  <2> QED BY <2>1, <2>2
<1> HIDE DEF k
<1>3. k > 0 => SubSeq(users, 1, k) \in Seq(Node)
  BY <1>2
<1>4. k > 0 => Append(SubSeq(users, 1, k), node) # <<>>
  BY <1>3
<1>5. CASE tail = NoOne
  <2>1. addUser(users, tail, node) = <<node>>
    BY <1>1, <1>5
  <2> QED BY <2>1
<1>6. CASE tail # NoOne /\ k > 0
  <2>1. addUser(users, tail, node) = Append(SubSeq(users, 1, k), node)
    BY <1>1, <1>6
  <2> QED BY <1>4, <1>6, <2>1
<1>7. CASE tail # NoOne /\ ~(k > 0)
  <2>1. addUser(users, tail, node) = users
    BY <1>1, <1>7
  <2> QED BY <2>1
<1> QED BY <1>5, <1>6, <1>7

\* A step that leaves the sessions alone, and asks for no name but a free one.
Calm(t) ==
  /\ UNCHANGED <<sessions, raced>>
  /\ \A u \in Thread \ {t} : pc'[u] = pc[u] /\ arg'[u] = arg[u]
  /\ pc'[t] = "newLink" =>
       \/ pc[t] = "newLink" /\ arg'[t] = arg[t]
       \/ \A i \in DOMAIN sessions : Named(sessions[i].id) # arg'[t]

LEMMA CalmKeepsNames ==
  ASSUME NamesInv, NEW t \in Thread, Calm(t)
  PROVE  NamesInv'
BY DEF NamesInv, Calm, SessionNamesUnique, SessionsHaveUsers, PendingIsRaced

\* JOIN changes no name and empties no session (server.c:205-209).
LEMMA JoinKeepsNames ==
  ASSUME TypeInv, NamesInv, NEW t \in Thread, JoinLink(t)
  PROVE  NamesInv'
<1>1. /\ raced' = raced /\ pc[t] = "joinLink" /\ arg' = [arg EXCEPT ![t] = NoOne]
      /\ pc' = pc \/ pc' = [pc EXCEPT ![t] = "recv"]
  BY DEF JoinLink, At, Answer, Goto
<1>2. \A u \in Thread : pc'[u] = "newLink" => pc[u] = "newLink" /\ arg'[u] = arg[u]
  BY <1>1 DEF TypeInv, PlacesTyped, LocalsTyped
<1>3. CASE SessionWithId(sess[t]) = 0
  <2>1. sessions' = sessions
    BY <1>3 DEF JoinLink
  <2> QED BY <1>1, <1>2, <2>1
          DEF NamesInv, SessionNamesUnique, SessionsHaveUsers, PendingIsRaced
<1>4. CASE SessionWithId(sess[t]) # 0
  <2>1. PICK i, users, new, longer : Joins(t, i, users, new, longer)
    BY <1>4, JoinLinkIs
  <2>2. users # <<>> => longer # <<>>
    BY <2>1, addUserFills DEF Joins
  <2>3. /\ DOMAIN sessions' = DOMAIN sessions
        /\ \A k \in DOMAIN sessions :
             /\ sessions'[k].id = sessions[k].id
             /\ sessions[k].users # <<>> => sessions'[k].users # <<>>
    BY <2>1, <2>2 DEF Joins
  <2> QED BY <1>1, <1>2, <2>3
          DEF NamesInv, SessionNamesUnique, SessionsHaveUsers, PendingIsRaced
<1> QED BY <1>3, <1>4

\* NEW_SESS adds a session with a user; if its name is not free any more the thread
\* that listed it did so while this one was about to (server.c:282-303).
LEMMA NewKeepsNames ==
  ASSUME TypeInv, NamesInv, NEW t \in Thread, NewLink(t)
  PROVE  NamesInv'
<1> DEFINE n == Len(sessions) + 1
<1>1. PICK new, id : new = NewNode(t, <<>>) /\ id = NewSessId(arg[t])
  OBVIOUS
<1>2. /\ arg[t] \in SessName /\ Named(id) = arg[t]
      /\ DOMAIN sessions = 1 .. Len(sessions) /\ Len(sessions) \in Nat
      /\ DOMAIN sessions' = 1 .. n
      /\ \A k \in DOMAIN sessions : sessions'[k] = sessions[k]
      /\ sessions'[n].id = id /\ sessions'[n].users = <<new>>
  BY <1>1, NewLinkIs
<1>3. /\ pc[t] = "newLink" /\ arg' = [arg EXCEPT ![t] = NoOne]
      /\ pc' = pc \/ pc' = [pc EXCEPT ![t] = "recv"]
      /\ raced' = IF \E u \in Thread \ {t} : pc[u] = "newLink" /\ arg[u] = arg[t]
                  THEN raced \cup {arg[t]} ELSE raced
  BY DEF NewLink, At, Answer, Goto
<1>4. \A i \in DOMAIN sessions : Named(sessions[i].id) = arg[t] => arg[t] \in raced
  BY <1>3 DEF NamesInv, PendingIsRaced
<1>5. raced \subseteq raced'
  BY <1>3
<1>6. \A k \in DOMAIN sessions' : k = n \/ k \in DOMAIN sessions
  BY <1>2
<1>7. <<new>> # <<>>
  OBVIOUS
<1> HIDE DEF n
<1>8. SessionsHaveUsers'
  BY <1>2, <1>5, <1>6, <1>7 DEF NamesInv, SessionsHaveUsers
<1>9. SessionNamesUnique'
  BY <1>2, <1>4, <1>5, <1>6 DEF NamesInv, SessionNamesUnique
<1>10. PendingIsRaced'
  <2> SUFFICES ASSUME NEW u \in Thread, pc'[u] = "newLink", NEW k \in DOMAIN sessions',
                      Named(sessions'[k].id) = arg'[u]
               PROVE  arg'[u] \in raced'
    BY DEF PendingIsRaced
  <2>1. CASE u = t
    <3>1. arg'[u] = NoOne
      BY <1>3, <2>1 DEF TypeInv, LocalsTyped
    <3>2. Named(sessions'[k].id) \in SessName
      <4>1. sessions' \in Seq(Session)
        BY NewLinkLists
      <4>2. sessions'[k] \in Session
        BY <4>1
      <4> QED BY <4>2 DEF Session, Named
    <3> QED BY <3>1, <3>2, ConstantsAssumption
  <2>2. CASE u # t
    <3>1. pc[u] = "newLink" /\ arg'[u] = arg[u]
      BY <1>3, <2>2 DEF TypeInv, PlacesTyped, LocalsTyped
    <3>2. CASE k = n
      BY <1>2, <1>3, <2>2, <3>1, <3>2
    <3>3. CASE k \in DOMAIN sessions
      BY <1>2, <1>5, <3>1, <3>3 DEF NamesInv, PendingIsRaced
    <3> QED BY <1>6, <3>2, <3>3
  <2> QED BY <2>1, <2>2
<1> QED BY <1>8, <1>9, <1>10 DEF NamesInv

\* The session that goes by its name is the one whose last user has left, if it is
\* the only one of the name (message.h:199-287).
LEMMA RemovalKeepsNames ==
  ASSUME TypeInv, NamesInv, NEW t \in Thread, NEW next \in Places \ {"newLink"},
         RemoveFound(t, next)
  PROVE  NamesInv'
<1>1. pc' = [pc EXCEPT ![t] = next] /\ UNCHANGED arg
  BY DEF RemoveFound, Goto
<1>2. \A u \in Thread : pc'[u] = "newLink" => pc[u] = "newLink"
  BY <1>1 DEF TypeInv, PlacesTyped
<1>3. CASE UNCHANGED <<sessions, raced>>
  BY <1>1, <1>2, <1>3 DEF NamesInv, SessionNamesUnique, SessionsHaveUsers, PendingIsRaced
<1>4. ASSUME NEW i, i = SessionWithId(sess[t]), i # 0, sessions' = removeSessUser(i, name[t]),
             raced' = {s \in raced : \E id \in Ids(sessions') : Named(id) = s}
      PROVE  NamesInv'
  <2>1. i \in DOMAIN sessions /\ sessions \in Seq(Session)
    BY <1>4, FindSessionWithId DEF TypeInv, SharedTyped
  <2> DEFINE new == sessions'
             less == removeUser(sessions[i].users, name[t])
  <2>2. PICK at \in [DOMAIN new -> DOMAIN sessions] :
          /\ \A k, l \in DOMAIN new : at[k] = at[l] => k = l
          /\ \A k \in DOMAIN new :
               /\ new[k].id = sessions[at[k]].id
               /\ new[k].users = IF at[k] = i THEN less ELSE sessions[at[k]].users
               /\ at[k] = i /\ new[k].users = <<>> =>
                    \E m \in DOMAIN sessions \ {i} : Named(sessions[m].id) = Named(sessions[i].id)
    BY <1>4, <2>1, removeSessUserIs
  <2>3. \A k \in DOMAIN new : Named(new[k].id) \in raced => Named(new[k].id) \in raced'
    BY <1>4 DEF Ids
  <2> HIDE DEF new, less
  <2>4. \A j, k \in DOMAIN new :
          Named(new[j].id) = Named(new[k].id) => j = k \/ Named(new[j].id) \in raced'
    BY <2>2, <2>3 DEF NamesInv, SessionNamesUnique
  <2>5. \A k \in DOMAIN new : new[k].users # <<>> \/ Named(new[k].id) \in raced'
    <3> TAKE k \in DOMAIN new
    <3>1. CASE at[k] = i
      BY <2>1, <2>2, <2>3, <3>1 DEF NamesInv, SessionNamesUnique
    <3>2. CASE at[k] # i
      BY <2>2, <2>3, <3>2 DEF NamesInv, SessionsHaveUsers
    <3> QED BY <3>1, <3>2
  <2>6. \A u \in Thread : pc[u] = "newLink" =>
          \A k \in DOMAIN new : Named(new[k].id) = arg[u] => arg[u] \in raced'
    BY <2>2, <2>3 DEF NamesInv, PendingIsRaced
  <2> QED BY <1>1, <1>2, <2>4, <2>5, <2>6
          DEF new, NamesInv, SessionNamesUnique, SessionsHaveUsers, PendingIsRaced
<1> QED BY <1>3, <1>4 DEF RemoveFound

\* The steps that change the sessions.
LEMMA ChangesKeepNames ==
  ASSUME TypeInv, NamesInv, NEW t \in Thread,
         JoinLink(t) \/ NewLink(t) \/ Leave(t) \/ LeaveAll(t) \/ Purge(t)
  PROVE  NamesInv'
BY JoinKeepsNames, NewKeepsNames, RemovalKeepsNames DEF Leave, LeaveAll, Purge, Places, Busy

\* NEW_SESS is taken up only for a name that is not listed (server.c:276-281).
LEMMA RequestsKeepNames ==
  ASSUME TypeInv, NamesInv, NEW t \in Thread, Request(t)
  PROVE  NamesInv'
<1>1. CASE RefuseLogin(t) \/ ExitRequest(t) \/ LeaveAllRequest(t) \/ Query(t)
  <2>1. Calm(t)
    BY <1>1 DEF RefuseLogin, ExitRequest, LeaveAllRequest, Query, Receive, Answer, Goto,
                shared, Calm, TypeInv, PlacesTyped
  <2> QED BY <2>1, CalmKeepsNames
<1>2. ASSUME NEW a \in Account, LoginRequest(t, a) PROVE NamesInv'
  <2>1. Calm(t)
    BY <1>2 DEF LoginRequest, Receive, Goto, shared, Calm, TypeInv, PlacesTyped
  <2> QED BY <2>1, CalmKeepsNames
<1>3. ASSUME NEW s \in SessName, JoinRequest(t, s) \/ LeaveRequest(t, s) PROVE NamesInv'
  <2>1. Calm(t)
    BY <1>3 DEF JoinRequest, LeaveRequest, Receive, Answer, Goto, shared, Calm,
                TypeInv, PlacesTyped, LocalsTyped
  <2> QED BY <2>1, CalmKeepsNames
<1>4. ASSUME NEW s \in SessName, NewRequest(t, s) PROVE NamesInv'
  <2>1. Calm(t)
    BY <1>4, NameIsFound DEF NewRequest, Receive, Answer, Goto, shared, Calm,
                TypeInv, PlacesTyped, LocalsTyped
  <2> QED BY <2>1, CalmKeepsNames
<1>5. ASSUME NEW s \in SessName, MessageRequest(t, s) PROVE NamesInv'
  <2>1. Calm(t)
    BY <1>5 DEF MessageRequest, Receive, Answer, Goto, shared, Calm, TypeInv, PlacesTyped
  <2> QED BY <2>1, CalmKeepsNames
<1>6. ASSUME NEW s \in SessName, NEW a \in Account, InviteRequest(t, a, s) PROVE NamesInv'
  <2>1. Calm(t)
    BY <1>6 DEF InviteRequest, Receive, Answer, Goto, shared, Calm, TypeInv, PlacesTyped
  <2> QED BY <2>1, CalmKeepsNames
<1> QED BY <1>1, <1>2, <1>3, <1>4, <1>5, <1>6 DEF Request

\* The other steps ask for no name.
LEMMA WorkKeepsNames ==
  ASSUME TypeInv, NamesInv, NEW t \in Thread,
         \/ LoginWalk(t) \/ LoginLink(t) \/ JoinWalk(t) \/ AnswerLeave(t) \/ LeaveFind(t)
         \/ Broadcast(t) \/ Invite(t) \/ Disconnect(t) \/ RecvFails(t) \/ PeerCloses(t)
         \/ Accept(t) \/ Close(t) \/ Unlist(t) \/ PurgeFind(t) \/ Uncount(t)
  PROVE  NamesInv'
<1>1. CASE LoginWalk(t) \/ LoginLink(t) \/ JoinWalk(t) \/ AnswerLeave(t) \/ LeaveFind(t)
  <2>1. Calm(t)
    BY <1>1 DEF LoginWalk, LoginLink, JoinWalk, AnswerLeave, LeaveFind, At, Answer, Goto,
                shared, Calm, TypeInv, PlacesTyped, LocalsTyped
  <2> QED BY <2>1, CalmKeepsNames
<1>2. CASE Broadcast(t) \/ Invite(t)
  <2>1. Calm(t)
    BY <1>2 DEF Broadcast, WalkOn, Invite, At, Goto, shared, Calm, TypeInv, PlacesTyped
  <2> QED BY <2>1, CalmKeepsNames
<1>3. CASE Disconnect(t) \/ RecvFails(t) \/ PeerCloses(t)
  <2>1. Calm(t)
    BY <1>3 DEF Disconnect, RecvFails, PeerCloses, At, Answer, Goto, shared, Calm,
                TypeInv, PlacesTyped
  <2> QED BY <2>1, CalmKeepsNames
<1>4. CASE Accept(t) \/ Close(t) \/ Unlist(t) \/ PurgeFind(t) \/ Uncount(t)
  <2>1. Calm(t)
    BY <1>4 DEF Accept, Close, Unlist, PurgeFind, Uncount, End, At, Goto, shared, locals, Calm,
                TypeInv, PlacesTyped
  <2> QED BY <2>1, CalmKeepsNames
<1> QED BY <1>1, <1>2, <1>3, <1>4

\* A name with two sessions has been raced for, and is known to be until its last
\* session has gone (server.c:276-303, message.h:199-226).
THEOREM NamesAreKept == Spec => []NamesInv
<1>1. Init => NamesInv
  BY DEF Init, NamesInv, SessionNamesUnique, SessionsHaveUsers, PendingIsRaced
<1>2. TypeInv /\ NamesInv /\ [Next]_vars => NamesInv'
  <2> SUFFICES ASSUME TypeInv, NamesInv, [Next]_vars PROVE NamesInv'
    OBVIOUS
  <2>1. CASE vars' = vars \/ AcceptTimeout
    BY <2>1 DEF vars, shared, locals, AcceptTimeout, NamesInv, SessionNamesUnique,
                SessionsHaveUsers, PendingIsRaced
  <2>2. ASSUME NEW t \in Thread, Request(t) PROVE NamesInv'
    BY <2>2, RequestsKeepNames
  <2>3. ASSUME NEW t \in Thread, Accept(t) \/ Work(t) \/ PeerCloses(t) \/ RecvFails(t)
        PROVE  NamesInv'
    BY <2>3, ChangesKeepNames, WorkKeepsNames DEF Work
  <2> QED BY <2>1, <2>2, <2>3 DEF Next
<1> QED BY <1>1, <1>2, TypeIsKept, PTL DEF Spec

\* However the requests interleave, and for any number of connections and names, a
\* name has two sessions only when two threads were past their look at the list at
\* once (server.c:273-325).
THEOREM NamesStayUnique == Spec => []SessionNamesUnique
BY NamesAreKept, PTL DEF NamesInv

\* And no session outlives its last user, however its users came and went, but where
\* two threads have made one of the name (message.h:282-285).
THEOREM NoSessionIsEmpty == Spec => []SessionsHaveUsers
BY NamesAreKept, PTL DEF NamesInv

-----------------------------------------------------------------------------
(* The list of users *)

\* The places of an account in a list, and in the list of users, and its logins in
\* effect.
PlacesOf(list, a) == {k \in DOMAIN list : NameOf(list[k]) = a}
NodesOf(a)  == PlacesOf(userList, a)
LoginsOf(a) == {t \in Thread : name[t] = a /\ InEffect(t)}

\* A thread whose login is not in effect yet.
Before(t) == pc[t] \in {"idle", "loginWalk", "loginLink"} \/ (~LoggedIn(t) /\ pc[t] # "end")

\* A thread that is to link its node holds the lock, and the list still ends where
\* its walk ended.
WalkHolds ==
  /\ usersLock # NoOne => pc[usersLock] = "loginLink"
  /\ \A t \in Thread : pc[t] = "loginLink" =>
       usersLock = t /\ ptr[t] = LastNode(userList)

\* A thread gets into the list once.
OneNodeEach ==
  /\ \A i, j \in DOMAIN userList : Owner(userList[i]) = Owner(userList[j]) => i = j
  /\ \A i \in DOMAIN userList : ~Before(Owner(userList[i]))

\* An account has as many nodes in the list as it has logins in effect.
Balanced == \A a \in Account : Cardinality(NodesOf(a)) = Cardinality(LoginsOf(a))

UsersInv == server = "up" => WalkHolds /\ OneNodeEach /\ Balanced

\* A step of t that leaves the list, the lock and the logins in effect alone.
Aside(t) ==
  /\ server = "up"
  /\ UNCHANGED <<userList, usersLock>>
  /\ \A u \in Thread \ {t} : ptr'[u] = ptr[u] /\ pc'[u] = pc[u] /\ name'[u] = name[u]
  /\ pc[t] # "loginLink" /\ pc'[t] # "loginLink"
  /\ ~Before(t) => ~Before(t)'
  /\ \A a \in Account : (name'[t] = a /\ InEffect(t)') <=> (name[t] = a /\ InEffect(t))

\* Such a step has no part in the list of users.
LEMMA AsideKeepsUsers ==
  ASSUME TypeInv, TypeInv', UsersInv, NEW t \in Thread, Aside(t)
  PROVE  UsersInv'
<1>1. WalkHolds'
  BY DEF UsersInv, WalkHolds, Aside, TypeInv, SharedTyped
<1>2. OneNodeEach'
  <2>1. \A u \in Thread : ~Before(u) => ~Before(u)'
    BY DEF Aside, Before, LoggedIn
  <2>2. \A i \in DOMAIN userList : Owner(userList[i]) \in Thread
    BY DEF TypeInv, SharedTyped, Node, Owner
  <2> QED BY <2>1, <2>2 DEF UsersInv, OneNodeEach, Aside
<1>3. Balanced'
  <2> SUFFICES ASSUME NEW a \in Account
               PROVE  Cardinality(NodesOf(a)') = Cardinality(LoginsOf(a)')
    BY DEF Balanced
  <2>1. NodesOf(a)' = NodesOf(a)
    BY DEF Aside, NodesOf, PlacesOf
  <2>2. LoginsOf(a)' = LoginsOf(a)
    BY DEF Aside, LoginsOf, InEffect, LoggedIn
  <2> QED BY <2>1, <2>2 DEF UsersInv, Balanced, Aside
<1> QED BY <1>1, <1>2, <1>3 DEF UsersInv

\* The numbers of the nodes of an account.
LEMMA NodesAreFinite ==
  ASSUME NEW list \in Seq(Node), NEW a
  PROVE  IsFiniteSet(PlacesOf(list, a))
<1>1. DOMAIN list = 1 .. Len(list) /\ Len(list) \in Nat
  OBVIOUS
<1>2. IsFiniteSet(1 .. Len(list))
  BY <1>1, FS_Interval
<1> QED BY <1>1, <1>2, FS_Subset DEF PlacesOf

\* Under the lock a node is linked at the very end of the list (message.h:119-125).
LEMMA LinkAppends ==
  ASSUME TypeInv, WalkHolds, OneNodeEach, NEW t \in Thread, pc[t] = "loginLink",
         NEW node \in Node
  PROVE  addUser(userList, ptr[t], node) = Append(userList, node)
<1>1. userList \in Seq(Node) /\ Len(userList) \in Nat /\ DOMAIN userList = 1 .. Len(userList)
  BY DEF TypeInv, SharedTyped
<1>2. ASSUME NEW i \in DOMAIN userList, userList[i] = LastNode(userList)
      PROVE  i = Len(userList)
  BY <1>1, <1>2 DEF LastNode, OneNodeEach
<1> QED BY <1>1, <1>2, addUserAppends DEF WalkHolds

\* The lock is taken and the walk made in one step (server.c:114-115).
LEMMA WalkKeepsUsers ==
  ASSUME TypeInv, UsersInv, NEW t \in Thread, LoginWalk(t)
  PROVE  UsersInv'
<1>1. /\ server = "up" /\ pc[t] = "loginWalk" /\ usersLock = NoOne /\ usersLock' = t
      /\ pc' = [pc EXCEPT ![t] = "loginLink"]
      /\ ptr' = [ptr EXCEPT ![t] = LastNode(userList)]
      /\ UNCHANGED <<userList, name>>
  BY DEF LoginWalk, At, Goto
<1>2. WalkHolds'
  <2>1. \A u \in Thread : pc[u] # "loginLink"
    BY <1>1, ConstantsAssumption DEF UsersInv, WalkHolds
  <2>2. LastNode(userList)' = LastNode(userList)
    BY <1>1 DEF LastNode
  <2> QED BY <1>1, <2>1, <2>2 DEF WalkHolds, TypeInv, PlacesTyped, LocalsTyped
<1>3. OneNodeEach'
  <2>1. \A i \in DOMAIN userList : Owner(userList[i]) \in Thread
    BY DEF TypeInv, SharedTyped, Node, Owner
  <2>2. \A u \in Thread : ~Before(u) => ~Before(u)'
    BY <1>1 DEF Before, LoggedIn, TypeInv, PlacesTyped
  <2> QED BY <1>1, <2>1, <2>2 DEF UsersInv, OneNodeEach
<1>4. Balanced'
  <2> SUFFICES ASSUME NEW a \in Account
               PROVE  Cardinality(NodesOf(a)') = Cardinality(LoginsOf(a)')
    BY DEF Balanced
  <2>1. NodesOf(a)' = NodesOf(a)
    BY <1>1 DEF NodesOf, PlacesOf
  <2>2. LoginsOf(a)' = LoginsOf(a)
    BY <1>1 DEF LoginsOf, InEffect, LoggedIn, TypeInv, PlacesTyped
  <2> QED BY <1>1, <2>1, <2>2 DEF UsersInv, Balanced
<1> QED BY <1>2, <1>3, <1>4 DEF UsersInv

\* A login takes effect with its node (server.c:114-117).
LEMMA LinkKeepsUsers ==
  ASSUME TypeInv, UsersInv, NEW t \in Thread, LoginLink(t), server' = "up"
  PROVE  UsersInv'
<1> DEFINE node == UserNode(t)
<1>1. /\ server = "up" /\ pc[t] = "loginLink" /\ usersLock' = NoOne
      /\ pc' = [pc EXCEPT ![t] = "recv"]
      /\ UNCHANGED name
  BY DEF LoginLink, At, Answer, Goto
<1>2. node \in Node /\ Owner(node) = t /\ NameOf(node) = name[t] /\ name[t] \in Account
  BY <1>1 DEF TypeInv, PlacesTyped, UserNode, Node, Owner, NameOf, Inside, Busy
<1>3. userList' = Append(userList, node)
  BY <1>1, <1>2, LinkAppends DEF LoginLink, UsersInv
<1> HIDE DEF node
<1>4. /\ userList \in Seq(Node) /\ Len(userList) \in Nat /\ DOMAIN userList = 1 .. Len(userList)
      /\ DOMAIN userList' = 1 .. Len(userList) + 1
      /\ \A i \in 1 .. Len(userList) : userList'[i] = userList[i]
      /\ userList'[Len(userList) + 1] = node
  BY <1>2, <1>3 DEF TypeInv, SharedTyped
<1>5. WalkHolds'
  <2>1. \A u \in Thread : pc[u] = "loginLink" => u = t
    BY <1>1 DEF UsersInv, WalkHolds
  <2> QED BY <1>1, <2>1 DEF WalkHolds, TypeInv, PlacesTyped
<1>6. OneNodeEach'
  <2>1. \A i \in DOMAIN userList : Owner(userList[i]) \in Thread
    BY DEF TypeInv, SharedTyped, Node, Owner
  <2>2. \A i \in DOMAIN userList : Owner(userList[i]) # t
    BY <1>1 DEF UsersInv, OneNodeEach, Before
  <2>3. \A u \in Thread : ~Before(u) => ~Before(u)'
    BY <1>1 DEF Before, LoggedIn, TypeInv, PlacesTyped
  <2>4. ~Before(t)'
    BY <1>1, <1>2, ConstantsAssumption DEF Before, LoggedIn, TypeInv, PlacesTyped
  <2>5. ASSUME NEW i \in 1 .. Len(userList) + 1 PROVE ~Before(Owner(userList[i]))'
    <3>1. CASE i = Len(userList) + 1
      BY <1>2, <1>4, <2>4, <3>1
    <3>2. CASE i \in 1 .. Len(userList)
      <4>1. Owner(userList[i]) \in Thread /\ ~Before(Owner(userList[i]))
        BY <1>1, <1>4, <2>1, <3>2 DEF UsersInv, OneNodeEach
      <4> QED BY <1>4, <2>3, <3>2, <4>1
    <3> QED BY <1>4, <3>1, <3>2
  <2>6. ASSUME NEW i \in 1 .. Len(userList) + 1, NEW j \in 1 .. Len(userList) + 1,
               Owner(userList'[i]) = Owner(userList'[j])
        PROVE  i = j
    <3>1. CASE i \in 1 .. Len(userList) /\ j \in 1 .. Len(userList)
      BY <1>1, <1>4, <2>6, <3>1 DEF UsersInv, OneNodeEach
    <3>2. CASE i = Len(userList) + 1 /\ j \in 1 .. Len(userList)
      BY <1>2, <1>4, <2>2, <2>6, <3>2
    <3>3. CASE j = Len(userList) + 1 /\ i \in 1 .. Len(userList)
      BY <1>2, <1>4, <2>2, <2>6, <3>3
    <3> QED BY <1>4, <3>1, <3>2, <3>3
  <2> QED BY <1>4, <2>5, <2>6 DEF OneNodeEach
<1>7. Balanced'
  <2> SUFFICES ASSUME NEW a \in Account
               PROVE  Cardinality(NodesOf(a)') = Cardinality(LoginsOf(a)')
    BY DEF Balanced
  <2>1. IsFiniteSet(NodesOf(a)) /\ IsFiniteSet(LoginsOf(a))
    BY <1>4, NodesAreFinite, ThreadsAreFinite DEF NodesOf, PlacesOf, LoginsOf
  <2>2. Cardinality(NodesOf(a)) = Cardinality(LoginsOf(a))
    BY <1>1 DEF UsersInv, Balanced
  <2>3. CASE a = name[t]
    <3>1. NodesOf(a)' = NodesOf(a) \cup {Len(userList) + 1}
      BY <1>2, <1>4, <2>3 DEF NodesOf, PlacesOf
    <3>2. Len(userList) + 1 \notin NodesOf(a)
      BY <1>4 DEF NodesOf, PlacesOf
    <3>3. LoginsOf(a)' = LoginsOf(a) \cup {t}
      BY <1>1, <1>2, <2>3, ConstantsAssumption DEF LoginsOf, InEffect, LoggedIn, TypeInv, PlacesTyped
    <3>4. t \notin LoginsOf(a)
      BY <1>1 DEF LoginsOf, InEffect
    <3>5. Cardinality(NodesOf(a)') = Cardinality(NodesOf(a)) + 1
      BY <2>1, <3>1, <3>2, FS_AddElement
    <3>6. Cardinality(LoginsOf(a)') = Cardinality(LoginsOf(a)) + 1
      BY <2>1, <3>3, <3>4, FS_AddElement
    <3> QED BY <2>2, <3>5, <3>6
  <2>4. CASE a # name[t]
    <3>1. NodesOf(a)' = NodesOf(a)
      BY <1>2, <1>4, <2>4 DEF NodesOf, PlacesOf
    <3>2. LoginsOf(a)' = LoginsOf(a)
      BY <1>1, <2>4 DEF LoginsOf, InEffect, LoggedIn, TypeInv, PlacesTyped
    <3> QED BY <2>2, <3>1, <3>2
  <2> QED BY <2>3, <2>4
<1> QED BY <1>5, <1>6, <1>7 DEF UsersInv

\* Of the nodes of an account removeUser takes one, if there is one, and of the
\* others none (message.h:259-272).
LEMMA RemovalTakesOne ==
  ASSUME NEW list \in Seq(Node), NEW m \in 1 .. Len(list), NEW b
  PROVE  Cardinality(PlacesOf(RemoveAt(list, m), b)) = Cardinality(PlacesOf(list, b) \ {m})
<1> DEFINE S == {k \in DOMAIN list : NameOf(list[k]) = b}
           left == RemoveAt(list, m)
           T == {k \in DOMAIN left : NameOf(left[k]) = b}
           shift == [k \in T |-> IF k < m THEN k ELSE k + 1]
<1>1. Len(list) \in Nat /\ DOMAIN list = 1 .. Len(list) /\ m \in Nat
  OBVIOUS
<1>2. /\ DOMAIN left = 1 .. Len(list) - 1
      /\ \A j \in 1 .. Len(list) - 1 : left[j] = IF j < m THEN list[j] ELSE list[j + 1]
  BY RemoveAtShifts
<1> HIDE DEF left
<1>3. shift \in [T -> S \ {m}]
  BY <1>1, <1>2
<1>4. \A j, k \in T : shift[j] = shift[k] => j = k
  BY <1>1, <1>2
<1>5. \A k \in S \ {m} : \E j \in T : shift[j] = k
  <2> SUFFICES ASSUME NEW k \in S \ {m} PROVE \E j \in T : shift[j] = k
    OBVIOUS
  <2>1. CASE k < m
    <3>1. k \in T
      BY <1>1, <1>2, <2>1
    <3>2. shift[k] = k
      BY <2>1, <3>1
    <3> QED BY <3>1, <3>2
  <2>2. CASE k > m
    <3>1. k - 1 \in T
      BY <1>1, <1>2, <2>2
    <3>2. shift[k - 1] = k
      BY <1>1, <2>2, <3>1
    <3> QED BY <3>1, <3>2
  <2> QED BY <1>1, <2>1, <2>2
<1>6. IsFiniteSet(T)
  <2>1. IsFiniteSet(1 .. Len(list) - 1)
    BY <1>1, FS_Interval
  <2> QED BY <1>2, <2>1, FS_Subset
<1>7. Cardinality(T) = Cardinality(S \ {m})
  <2> HIDE DEF T, S, shift
  <2>1. shift \in Bijection(T, S \ {m})
    BY <1>3, <1>4, <1>5, Fun_IsBij, Fun_IsSurj, Fun_IsInj
  <2> QED BY <1>6, <2>1, FS_Bijection DEF ExistsBijection
<1> QED BY <1>7 DEF left, PlacesOf

\* The login of t ends with one node of its account less (server.c:556-559).
LEMMA UnlistKeepsUsers ==
  ASSUME TypeInv, UsersInv, NEW t \in Thread, Unlist(t)
  PROVE  UsersInv'
<1> DEFINE I == {i \in 1 .. Len(userList) : NameOf(userList[i]) = name[t]}
           m == Min(I)
<1>1. /\ server = "up" /\ pc[t] = "unlist" /\ usersLock = NoOne
      /\ userList' = removeUser(userList, name[t])
      /\ pc' = [pc EXCEPT ![t] = "purgeFind"]
      /\ UNCHANGED <<name, ptr, usersLock>>
  BY DEF Unlist, At, Goto, locals
<1>2. userList \in Seq(Node) /\ Len(userList) \in Nat /\ DOMAIN userList = 1 .. Len(userList)
  BY DEF TypeInv, SharedTyped
<1>3. name[t] \in Account
  BY <1>1 DEF TypeInv, PlacesTyped, Inside, Busy
<1>4. \A a \in Account : IsFiniteSet(NodesOf(a)) /\ IsFiniteSet(LoginsOf(a))
  BY <1>2, NodesAreFinite, ThreadsAreFinite DEF NodesOf, PlacesOf, LoginsOf
<1>5. \A a \in Account : Cardinality(NodesOf(a)) = Cardinality(LoginsOf(a))
  BY <1>1 DEF UsersInv, Balanced
<1>6. I = NodesOf(name[t])
  BY <1>2 DEF NodesOf, PlacesOf
<1>7. t \in LoginsOf(name[t])
  BY <1>1, <1>3, ConstantsAssumption DEF LoginsOf, InEffect, LoggedIn
<1>8. I # {}
  <2>1. Cardinality(LoginsOf(name[t])) # 0
    BY <1>3, <1>4, <1>7, FS_EmptySet
  <2> HIDE DEF I
  <2> QED BY <1>3, <1>5, <1>6, <2>1, FS_EmptySet
<1>9. m \in I /\ m \in 1 .. Len(userList)
  <2>1. I \in SUBSET Nat
    OBVIOUS
  <2>2. I \in SUBSET (1 .. Len(userList))
    OBVIOUS
  <2> HIDE DEF I
  <2> QED BY <1>8, <2>1, <2>2, LeastIsFound
<1>10. userList' = RemoveAt(userList, m)
  BY <1>1, <1>8, Zenon DEF removeUser, RemoveFirstMatch, SelectInSeq
<1> HIDE DEF I, m
<1>11. /\ DOMAIN userList' = 1 .. Len(userList) - 1
       /\ \A j \in 1 .. Len(userList) - 1 :
            userList'[j] = IF j < m THEN userList[j] ELSE userList[j + 1]
  BY <1>2, <1>9, <1>10, RemoveAtShifts
<1>12. WalkHolds'
  <2>1. \A u \in Thread : pc[u] # "loginLink"
    BY <1>1, ConstantsAssumption DEF UsersInv, WalkHolds
  <2> QED BY <1>1, <2>1 DEF WalkHolds, TypeInv, PlacesTyped
<1>13. OneNodeEach'
  <2>1. \A u \in Thread : ~Before(u) => ~Before(u)'
    BY <1>1, <1>3, ConstantsAssumption DEF Before, LoggedIn, TypeInv, PlacesTyped
  <2>2. ASSUME NEW j \in 1 .. Len(userList) - 1 PROVE ~Before(Owner(userList[j]))'
    <3> DEFINE k == IF j < m THEN j ELSE j + 1
    <3>1. k \in DOMAIN userList /\ userList'[j] = userList[k]
      BY <1>2, <1>9, <1>11
    <3> HIDE DEF k
    <3>2. Owner(userList[k]) \in Thread /\ ~Before(Owner(userList[k]))
      BY <1>1, <1>2, <3>1 DEF UsersInv, OneNodeEach, Node, Owner
    <3> QED BY <2>1, <3>1, <3>2
  <2>3. ASSUME NEW i \in 1 .. Len(userList) - 1, NEW j \in 1 .. Len(userList) - 1,
               Owner(userList'[i]) = Owner(userList'[j])
        PROVE  i = j
    <3> DEFINE k == IF i < m THEN i ELSE i + 1
               n == IF j < m THEN j ELSE j + 1
    <3>1. /\ k \in DOMAIN userList /\ userList'[i] = userList[k]
          /\ n \in DOMAIN userList /\ userList'[j] = userList[n]
      BY <1>2, <1>9, <1>11
    <3>2. k = n
      <4> HIDE DEF k, n
      <4> QED BY <1>1, <2>3, <3>1 DEF UsersInv, OneNodeEach
    <3> QED BY <1>2, <1>9, <3>2
  <2> QED BY <1>11, <2>2, <2>3 DEF OneNodeEach
<1>14. Balanced'
  <2> SUFFICES ASSUME NEW a \in Account
               PROVE  Cardinality(NodesOf(a)') = Cardinality(LoginsOf(a)')
    BY DEF Balanced
  <2>1. Cardinality(NodesOf(a)') = Cardinality(NodesOf(a) \ {m})
    <3>1. Cardinality(PlacesOf(RemoveAt(userList, m), a)) = Cardinality(PlacesOf(userList, a) \ {m})
      BY <1>2, <1>9, RemovalTakesOne
    <3>2. NodesOf(a)' = PlacesOf(RemoveAt(userList, m), a)
      BY <1>10 DEF NodesOf
    <3> QED BY <3>1, <3>2 DEF NodesOf
  <2>2. CASE a = name[t]
    <3>1. LoginsOf(a)' = LoginsOf(a) \ {t}
      BY <1>1, <2>2 DEF LoginsOf, InEffect, LoggedIn, TypeInv, PlacesTyped
    <3>2. Cardinality(NodesOf(a)') = Cardinality(NodesOf(a)) - 1
      BY <1>4, <1>6, <1>9, <2>1, <2>2, FS_RemoveElement
    <3>3. Cardinality(LoginsOf(a)') = Cardinality(LoginsOf(a)) - 1
      BY <1>4, <1>7, <2>2, <3>1, FS_RemoveElement
    <3> QED BY <1>5, <3>2, <3>3
  <2>3. CASE a # name[t]
    <3>1. LoginsOf(a)' = LoginsOf(a)
      BY <1>1, <2>3 DEF LoginsOf, InEffect, LoggedIn, TypeInv, PlacesTyped
    <3>2. m \notin NodesOf(a)
      BY <1>6, <1>9, <2>3 DEF NodesOf, PlacesOf
    <3>3. NodesOf(a) \ {m} = NodesOf(a)
      BY <3>2
    <3> QED BY <1>5, <2>1, <3>1, <3>3
  <2> QED BY <2>2, <2>3
<1> QED BY <1>12, <1>13, <1>14 DEF UsersInv

\* Everything else leaves the list alone.
LEMMA RequestsKeepUsers ==
  ASSUME TypeInv, TypeInv', UsersInv, NEW t \in Thread, Request(t), server' = "up"
  PROVE  UsersInv'
<1> USE ConstantsAssumption
<1>1. CASE RefuseLogin(t) \/ ExitRequest(t) \/ LeaveAllRequest(t) \/ Query(t)
  <2>1. Aside(t)
    BY <1>1 DEF RefuseLogin, ExitRequest, LeaveAllRequest, Query, Receive, Answer, Goto,
                shared, Aside, Before, InEffect, LoggedIn, TypeInv, PlacesTyped, LocalsTyped
  <2> QED BY <2>1, AsideKeepsUsers
<1>2. ASSUME NEW a \in Account, LoginRequest(t, a) PROVE UsersInv'
  <2>1. Aside(t)
    BY <1>2 DEF LoginRequest, Receive, Goto, shared, Aside, Before, InEffect, LoggedIn,
                TypeInv, PlacesTyped, LocalsTyped
  <2> QED BY <2>1, AsideKeepsUsers
<1>3. ASSUME NEW s \in SessName, JoinRequest(t, s) \/ LeaveRequest(t, s) PROVE UsersInv'
  <2>1. Aside(t)
    BY <1>3 DEF JoinRequest, LeaveRequest, Receive, Answer, Goto, shared, Aside, Before,
                InEffect, LoggedIn, TypeInv, PlacesTyped, LocalsTyped
  <2> QED BY <2>1, AsideKeepsUsers
<1>4. ASSUME NEW s \in SessName, NewRequest(t, s) \/ MessageRequest(t, s) PROVE UsersInv'
  <2>1. Aside(t)
    BY <1>4 DEF NewRequest, MessageRequest, Receive, Answer, Goto, shared, Aside, Before,
                InEffect, LoggedIn, TypeInv, PlacesTyped, LocalsTyped
  <2> QED BY <2>1, AsideKeepsUsers
<1>5. ASSUME NEW s \in SessName, NEW a \in Account, InviteRequest(t, a, s) PROVE UsersInv'
  <2>1. Aside(t)
    BY <1>5 DEF InviteRequest, Receive, Answer, Goto, shared, Aside, Before, InEffect,
                LoggedIn, TypeInv, PlacesTyped, LocalsTyped
  <2> QED BY <2>1, AsideKeepsUsers
<1> QED BY <1>1, <1>2, <1>3, <1>4, <1>5 DEF Request

\* Nor does the rest of what a thread does change it.
LEMMA WorkKeepsUsers ==
  ASSUME TypeInv, TypeInv', UsersInv, NEW t \in Thread, server' = "up",
         Accept(t) \/ Work(t) \/ PeerCloses(t) \/ RecvFails(t),
         ~(LoginWalk(t) \/ LoginLink(t) \/ Unlist(t))
  PROVE  UsersInv'
<1> USE ConstantsAssumption
<1>1. CASE JoinWalk(t) \/ JoinLink(t) \/ AnswerLeave(t) \/ LeaveFind(t) \/ NewLink(t)
  <2>1. Aside(t)
    BY <1>1 DEF JoinWalk, JoinLink, AnswerLeave, LeaveFind, NewLink, At, Answer, Goto, shared,
                Aside, Before, InEffect, LoggedIn, TypeInv, PlacesTyped, LocalsTyped
  <2> QED BY <2>1, AsideKeepsUsers
<1>2. CASE Leave(t) \/ LeaveAll(t) \/ Purge(t)
  <2>1. PICK next \in {"left", "leaveFind", "purgeFind"} :
          RemoveFound(t, next) /\ (next = "purgeFind" <=> pc[t] = "purge")
    BY <1>2 DEF Leave, LeaveAll, Purge, At
  <2>2. /\ pc[t] \in {"leave", "leaveAll", "purge"} /\ server = "up"
        /\ pc' = [pc EXCEPT ![t] = next]
        /\ UNCHANGED <<userList, usersLock, ptr, name>>
    BY <1>2, <2>1 DEF Leave, LeaveAll, Purge, At, RemoveFound, Goto
  <2>3. Aside(t)
    BY <2>1, <2>2 DEF Aside, Before, InEffect, LoggedIn, TypeInv, PlacesTyped
  <2> QED BY <2>3, AsideKeepsUsers
<1>3. CASE Broadcast(t) \/ Invite(t)
  <2>1. Aside(t)
    BY <1>3 DEF Broadcast, WalkOn, Invite, At, Goto, shared, Aside, Before, InEffect, LoggedIn,
                TypeInv, PlacesTyped, LocalsTyped
  <2> QED BY <2>1, AsideKeepsUsers
<1>4. CASE Disconnect(t) \/ RecvFails(t)
  <2>1. Aside(t)
    BY <1>4 DEF Disconnect, RecvFails, At, Answer, Goto, shared, Aside, Before, InEffect,
                LoggedIn, TypeInv, PlacesTyped, LocalsTyped
  <2> QED BY <2>1, AsideKeepsUsers
<1>5. CASE Accept(t) \/ Close(t) \/ PurgeFind(t) \/ Uncount(t)
  <2>1. Aside(t)
    BY <1>5 DEF Accept, Close, PurgeFind, Uncount, End, At, Goto, shared, Aside, Before,
                InEffect, LoggedIn, TypeInv, PlacesTyped, LocalsTyped
  <2> QED BY <2>1, AsideKeepsUsers
<1>6. CASE PeerCloses(t)
  BY <1>6 DEF PeerCloses, shared, UsersInv, WalkHolds, OneNodeEach, Balanced, Before, LoggedIn,
              LastNode, NodesOf, PlacesOf, LoginsOf, InEffect
<1> QED BY <1>1, <1>2, <1>3, <1>4, <1>5, <1>6 DEF Work

\* Insertions follow one another under users_lock, and user_list has one node for
\* each login in effect (server.c:114-117, 557-560).
THEOREM UsersAreKept == Spec => []UsersInv
<1>1. Init => UsersInv
  <2> SUFFICES ASSUME Init PROVE WalkHolds /\ OneNodeEach /\ Balanced
    BY DEF UsersInv
  <2>1. WalkHolds /\ OneNodeEach
    BY DEF Init, WalkHolds, OneNodeEach
  <2>2. ASSUME NEW a \in Account PROVE NodesOf(a) = {} /\ LoginsOf(a) = {}
    BY ConstantsAssumption DEF Init, NodesOf, PlacesOf, LoginsOf
  <2>3. Balanced
    BY <2>2 DEF Balanced
  <2> QED BY <2>1, <2>3
<1>2. TypeInv /\ TypeInv' /\ UsersInv /\ [Next]_vars => UsersInv'
  <2> SUFFICES ASSUME TypeInv, TypeInv', UsersInv, [Next]_vars, server' = "up" PROVE UsersInv'
    BY DEF UsersInv
  <2>1. CASE vars' = vars
    BY <2>1 DEF vars, shared, locals, UsersInv, WalkHolds, OneNodeEach, Balanced, Before,
                LoggedIn, LastNode, NodesOf, PlacesOf, LoginsOf, InEffect
  <2>2. CASE AcceptTimeout
    BY <2>2 DEF AcceptTimeout
  <2>3. ASSUME NEW t \in Thread, Request(t) PROVE UsersInv'
    BY <2>3, RequestsKeepUsers
  <2>4. ASSUME NEW t \in Thread, Accept(t) \/ Work(t) \/ PeerCloses(t) \/ RecvFails(t)
        PROVE  UsersInv'
    BY <2>4, WalkKeepsUsers, LinkKeepsUsers, UnlistKeepsUsers, WorkKeepsUsers
  <2> QED BY <2>1, <2>2, <2>3, <2>4 DEF Next
<1> QED BY <1>1, <1>2, TypeIsKept, PTL DEF Spec

\* user_list has as many nodes of an account as there are logins in effect, for any
\* number of connections and however they interleave: users_lock keeps every
\* insertion, and a removal by name takes one node (server.c:114-117, 556-559).
THEOREM ListMatchesLogins == Spec => []UserListIsLoggedIn
<1>1. UsersInv => UserListIsLoggedIn
  BY DEF UsersInv, Balanced, NodesOf, PlacesOf, LoginsOf, UserListIsLoggedIn
<1> QED BY <1>1, UsersAreKept, PTL

=============================================================================
