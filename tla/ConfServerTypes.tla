---------------------------- MODULE ConfServerTypes ----------------------------
(***************************************************************************)
(* What the list operations of message.h return, and the types of the      *)
(* server's variables: what the proofs about the conferencing server rest  *)
(* on.                                                                     *)
(***************************************************************************)
EXTENDS ConfServer, FiniteSetTheorems, FunctionTheorems, WellFoundedInduction, TLAPS

-----------------------------------------------------------------------------
(* Lists *)

\* The first of some places in a list.
LEMMA LeastIsFound ==
  ASSUME NEW I \in SUBSET Nat, I # {}
  PROVE  Min(I) \in I /\ \A j \in I : Min(I) <= j
<1> DEFINE Less == OpToRel(<, Nat)
<1>1. IsWellFoundedOn(Less, Nat)
  BY NatLessThanWellFounded
<1>2. \A y, x \in Nat : y < x => <<y, x>> \in Less
  BY DEF OpToRel
<1> HIDE DEF Less
<1>3. \E x \in I : \A y \in I : ~(<<y, x>> \in Less)
  BY <1>1, WFMin
<1>4. PICK x \in I : \A y \in I : ~(<<y, x>> \in Less)
  BY <1>3
<1>5. ASSUME NEW y \in I PROVE x <= y
  <2>1. ~(y < x)
    BY <1>2, <1>4
  <2> QED BY <2>1
<1> QED BY <1>5 DEF Min

\* What RemoveAt leaves: the elements before the place, and those after it.
LEMMA RemoveAtShifts ==
  ASSUME NEW S, NEW s \in Seq(S), NEW i \in 1 .. Len(s)
  PROVE  /\ DOMAIN RemoveAt(s, i) = 1 .. Len(s) - 1
         /\ \A j \in 1 .. Len(s) - 1 :
              RemoveAt(s, i)[j] = IF j < i THEN s[j] ELSE s[j + 1]
<1> DEFINE a == SubSeq(s, 1, i - 1)
           b == SubSeq(s, i + 1, Len(s))
<1>1. a \in Seq(S) /\ b \in Seq(S)
  OBVIOUS
<1>2. Len(a) = i - 1 /\ Len(b) = Len(s) - i
  OBVIOUS
<1>3. \A j \in 1 .. i - 1 : a[j] = s[j]
  OBVIOUS
<1>4. \A j \in 1 .. Len(s) - i : b[j] = s[i + j]
  OBVIOUS
<1>5. RemoveAt(s, i) = a \o b
  BY DEF RemoveAt
<1> HIDE DEF a, b
<1>6. a \o b \in Seq(S) /\ Len(a \o b) = Len(s) - 1
  BY <1>1, <1>2
<1>7. ASSUME NEW j \in 1 .. Len(s) - 1
      PROVE  (a \o b)[j] = IF j < i THEN s[j] ELSE s[j + 1]
  <2>1. CASE j < i
    BY <2>1, <1>1, <1>2, <1>3
  <2>2. CASE ~(j < i)
    <3>1. (a \o b)[j] = b[j - (i - 1)]
      BY <2>2, <1>1, <1>2
    <3>2. b[j - (i - 1)] = s[j + 1]
      BY <2>2, <1>4
    <3> QED BY <2>2, <3>1, <3>2
  <2> QED BY <2>1, <2>2
<1>8. DOMAIN (a \o b) = 1 .. Len(s) - 1
  BY <1>6
<1> QED BY <1>5, <1>7, <1>8

\* Taking an element out of a list brings nothing new into it.
LEMMA RemoveAtKeeps ==
  ASSUME NEW S, NEW s \in Seq(S), NEW i \in 1 .. Len(s)
  PROVE  /\ RemoveAt(s, i) \in Seq(S)
         /\ \A j \in DOMAIN RemoveAt(s, i) : \E k \in DOMAIN s : RemoveAt(s, i)[j] = s[k]
<1>1. RemoveAt(s, i) \in Seq(S)
  BY DEF RemoveAt
<1>2. ASSUME NEW j \in DOMAIN RemoveAt(s, i)
      PROVE  \E k \in DOMAIN s : RemoveAt(s, i)[j] = s[k]
  <2>1. /\ j \in 1 .. Len(s) - 1
        /\ RemoveAt(s, i)[j] = IF j < i THEN s[j] ELSE s[j + 1]
    BY RemoveAtShifts
  <2>2. j \in DOMAIN s /\ j + 1 \in DOMAIN s
    BY <2>1
  <2> QED BY <2>1, <2>2
<1> QED BY <1>1, <1>2

\* removeUser leaves a list of nodes that were in the list (message.h:245-278).
LEMMA removeUserKeeps ==
  ASSUME NEW users \in Seq(Node), NEW a
  PROVE  /\ removeUser(users, a) \in Seq(Node)
         /\ \A j \in DOMAIN removeUser(users, a) :
              \E k \in DOMAIN users : removeUser(users, a)[j] = users[k]
<1> DEFINE I == {i \in 1 .. Len(users) : NameOf(users[i]) = a}
<1>1. CASE I = {}
  <2>1. ~ \E i \in 1 .. Len(users) : NameOf(users[i]) = a
    BY <1>1
  <2>2. removeUser(users, a) = users
    BY <2>1, Zenon DEF removeUser, RemoveFirstMatch
  <2> HIDE DEF I
  <2> QED BY <2>2
<1>2. CASE I # {}
  <2>1. Min(I) \in 1 .. Len(users)
    <3>1. I \in SUBSET Nat
      OBVIOUS
    <3> HIDE DEF I
    <3>2. Min(I) \in I
      BY <1>2, <3>1, LeastIsFound
    <3> QED BY <3>2 DEF I
  <2>2. removeUser(users, a) = RemoveAt(users, Min(I))
    BY <1>2 DEF removeUser, RemoveFirstMatch, SelectInSeq
  <2> HIDE DEF I
  <2> QED BY <2>1, <2>2, RemoveAtKeeps
<1> QED BY <1>1, <1>2

\* The values of a function on a finite set.
LEMMA ImageIsFinite ==
  ASSUME NEW S, IsFiniteSet(S), NEW f, DOMAIN f = S, f = [x \in S |-> f[x]]
  PROVE  IsFiniteSet({f[x] : x \in S})
<1> DEFINE T == {f[x] : x \in S}
<1>1. f \in [S -> T]
  OBVIOUS
<1>2. \A y \in T : \E x \in S : f[x] = y
  OBVIOUS
<1> HIDE DEF T
<1>3. f \in Surjection(S, T)
  BY <1>1, <1>2, Fun_IsSurj
<1>4. IsFiniteSet(T)
  BY <1>3, FS_Surjection
<1> QED BY <1>4 DEF T

\* A number that no node in use has: there is one, since there are finitely many.
LEMMA FreshIsNew ==
  ASSUME NEW used, IsFiniteSet(used)
  PROVE  Fresh(used) \in Nat /\ Fresh(used) \notin used
<1> DEFINE c == Cardinality(used) + 1
           I == {n \in 1 .. c : n \notin used}
<1>1. Cardinality(used) \in Nat
  BY FS_CardinalityType
<1>2. I # {}
  <2>1. SUFFICES ASSUME 1 .. c \subseteq used PROVE FALSE
    OBVIOUS
  <2>2. Cardinality(1 .. c) = c
    BY <1>1, FS_Interval
  <2>3. Cardinality(1 .. c) <= Cardinality(used)
    BY <2>1, FS_Subset
  <2> QED BY <1>1, <2>2, <2>3
<1>3. I \subseteq Nat /\ \A n \in Nat : n \in I <=> n \in 1 .. c /\ n \notin used
  BY <1>1
<1> HIDE DEF I
<1>4. Min(I) \in I /\ \A n \in I : Min(I) <= n
  BY <1>2, <1>3, LeastIsFound
<1>5. \E n \in 1 .. c : n \notin used /\ \A m \in 1 .. n - 1 : m \in used
  <2>1. Min(I) \in 1 .. c /\ Min(I) \notin used
    BY <1>3, <1>4
  <2>2. ASSUME NEW m \in 1 .. Min(I) - 1 PROVE m \in used
    BY <1>1, <1>3, <1>4, <2>1
  <2> QED BY <2>1, <2>2
<1>6. Fresh(used) \in 1 .. c /\ Fresh(used) \notin used
  BY <1>5 DEF Fresh
<1> QED BY <1>1, <1>6

\* A session of session_list (message.h:61-70).
Session == [id : SessName \X Nat, users : Seq(Node)]

\* The copy of newUser that JOIN and NEW_SESS link is a node of the thread, with its
\* name and descriptor (server.c:202-204, 286-287), and a new one: it is neither in
\* the list nor does a pointer lead to it.
LEMMA NewNodeTyped ==
  ASSUME ptr \in [Thread -> Node \cup {NoOne}], NEW users \in Seq(Node),
         NEW t \in Thread, name[t] \in Account, fd[t] \in Fd
  PROVE  LET new == NewNode(t, users)
         IN  /\ new \in Node
             /\ Owner(new) = t /\ NameOf(new) = name[t] /\ FdOf(new) = fd[t]
             /\ new \notin ToSet(users) /\ \A u \in Thread : ptr[u] # new
<1> DEFINE open == {u \in Thread : ptr[u] # NoOne}
           held == [u \in open |-> ptr[u]]
           inUse == ToSet(users) \cup {ptr[u] : u \in {v \in Thread : ptr[v] # NoOne}}
           mine == {m \in inUse : Owner(m) = t}
           numbers == [n \in mine |-> Number(n)]
           used == {Number(n) : n \in mine}
<1>1. IsFiniteSet(ToSet(users))
  <2>1. IsFiniteSet(DOMAIN users)
    <3>1. DOMAIN users = 1 .. Len(users) /\ Len(users) \in Nat
      OBVIOUS
    <3> QED BY <3>1, FS_Interval
  <2>2. users = [i \in DOMAIN users |-> users[i]]
    OBVIOUS
  <2> QED BY <2>1, <2>2, ImageIsFinite DEF ToSet
<1>2. IsFiniteSet({ptr[u] : u \in {v \in Thread : ptr[v] # NoOne}})
  <2>1. IsFiniteSet(open)
    BY ConstantsAssumption, FS_Subset
  <2>2. IsFiniteSet({held[u] : u \in open})
    <3>1. DOMAIN held = open /\ held = [x \in open |-> held[x]]
      OBVIOUS
    <3> HIDE DEF held, open
    <3> QED BY <2>1, <3>1, ImageIsFinite
  <2>3. {held[u] : u \in open} = {ptr[u] : u \in {v \in Thread : ptr[v] # NoOne}}
    OBVIOUS
  <2> QED BY <2>2, <2>3
<1>3. IsFiniteSet(inUse)
  BY <1>1, <1>2, FS_Union
<1>4. IsFiniteSet(mine)
  BY <1>3, FS_Subset
<1>5. IsFiniteSet(used)
  <2>1. IsFiniteSet({numbers[n] : n \in mine})
    <3>1. DOMAIN numbers = mine /\ numbers = [x \in mine |-> numbers[x]]
      OBVIOUS
    <3> HIDE DEF numbers, mine
    <3> QED BY <1>4, <3>1, ImageIsFinite
  <2>2. used = {numbers[n] : n \in mine}
    OBVIOUS
  <2> QED BY <2>1, <2>2
<1>6. NewNode(t, users) = <<t, Fresh(used), name[t], fd[t]>>
  BY DEF NewNode
<1> DEFINE new == <<t, Fresh(used), name[t], fd[t]>>
<1>7. Fresh(used) \in Nat /\ Fresh(used) \notin used
  <2> HIDE DEF used
  <2> QED BY <1>5, FreshIsNew
<1>8. new \notin inUse
  <2> SUFFICES ASSUME new \in inUse PROVE FALSE
    OBVIOUS
  <2>1. Owner(new) = t /\ Number(new) = Fresh(used)
    BY DEF Owner, Number
  <2> HIDE DEF new, inUse
  <2>2. new \in mine
    BY <2>1
  <2> QED BY <1>7, <2>1, <2>2
<1>9. new \notin ToSet(users) /\ \A u \in Thread : ptr[u] # new
  <2>1. new # NoOne
    BY <1>7, ConstantsAssumption DEF Node
  <2> HIDE DEF new
  <2> QED BY <1>8, <2>1
<1>10. new \in Node /\ Owner(new) = t /\ NameOf(new) = name[t] /\ FdOf(new) = fd[t]
  <2> HIDE DEF used
  <2> QED BY <1>7 DEF Node, Owner, NameOf, FdOf
<1> HIDE DEF used
<1> QED BY <1>6, <1>9, <1>10

\* A new session has a name and a number (server.c:282-289) and is none of those
\* listed or pointed to.
LEMMA NewSessIdTyped ==
  ASSUME sess \in [Thread -> (SessName \X Nat) \cup {NoOne}], sessions \in Seq(Session),
         NEW s \in SessName
  PROVE  /\ NewSessId(s) \in SessName \X Nat /\ Named(NewSessId(s)) = s
         /\ \A i \in DOMAIN sessions : sessions[i].id # NewSessId(s)
         /\ \A u \in Thread : sess[u] # NewSessId(s)
<1> DEFINE open == {u \in Thread : sess[u] # NoOne}
           ids == [i \in DOMAIN sessions |-> sessions[i].id]
           held == [u \in open |-> sess[u]]
           inUse == {sessions[i].id : i \in DOMAIN sessions}
                      \cup {sess[u] : u \in {v \in Thread : sess[v] # NoOne}}
           same == {d \in inUse : Named(d) = s}
           numbers == [d \in same |-> d[2]]
           used == {id[2] : id \in same}
<1>1. IsFiniteSet({sessions[i].id : i \in DOMAIN sessions})
  <2>1. IsFiniteSet(DOMAIN sessions)
    <3>1. DOMAIN sessions = 1 .. Len(sessions) /\ Len(sessions) \in Nat
      OBVIOUS
    <3> QED BY <3>1, FS_Interval
  <2>2. IsFiniteSet({ids[i] : i \in DOMAIN sessions})
    <3>1. DOMAIN ids = DOMAIN sessions /\ ids = [x \in DOMAIN sessions |-> ids[x]]
      OBVIOUS
    <3> HIDE DEF ids
    <3> QED BY <2>1, <3>1, ImageIsFinite
  <2>3. {ids[i] : i \in DOMAIN sessions} = {sessions[i].id : i \in DOMAIN sessions}
    OBVIOUS
  <2> QED BY <2>2, <2>3
<1>2. IsFiniteSet({sess[u] : u \in {v \in Thread : sess[v] # NoOne}})
  <2>1. IsFiniteSet(open)
    BY ConstantsAssumption, FS_Subset
  <2>2. IsFiniteSet({held[u] : u \in open})
    <3>1. DOMAIN held = open /\ held = [x \in open |-> held[x]]
      OBVIOUS
    <3> HIDE DEF held, open
    <3> QED BY <2>1, <3>1, ImageIsFinite
  <2>3. {held[u] : u \in open} = {sess[u] : u \in {v \in Thread : sess[v] # NoOne}}
    OBVIOUS
  <2> QED BY <2>2, <2>3
<1>3. IsFiniteSet(inUse)
  BY <1>1, <1>2, FS_Union
<1>4. IsFiniteSet(same)
  BY <1>3, FS_Subset
<1>5. IsFiniteSet(used)
  <2>1. IsFiniteSet({numbers[d] : d \in same})
    <3>1. DOMAIN numbers = same /\ numbers = [x \in same |-> numbers[x]]
      OBVIOUS
    <3> HIDE DEF numbers, same
    <3> QED BY <1>4, <3>1, ImageIsFinite
  <2>2. used = {numbers[d] : d \in same}
    OBVIOUS
  <2> QED BY <2>1, <2>2
<1>6. NewSessId(s) = <<s, Fresh(used)>>
  BY DEF NewSessId
<1> DEFINE new == <<s, Fresh(used)>>
<1>7. Fresh(used) \in Nat /\ Fresh(used) \notin used
  <2> HIDE DEF used
  <2> QED BY <1>5, FreshIsNew
<1>8. new \notin inUse
  <2> SUFFICES ASSUME new \in inUse PROVE FALSE
    OBVIOUS
  <2>1. Named(new) = s /\ new[2] = Fresh(used)
    BY DEF Named
  <2> HIDE DEF new, inUse
  <2>2. new \in same
    BY <2>1
  <2> QED BY <1>7, <2>1, <2>2
<1>9. new \in SessName \X Nat /\ Named(new) = s
  <2> HIDE DEF used
  <2> QED BY <1>7 DEF Named
<1>10. new # NoOne
  BY <1>9, ConstantsAssumption
<1> HIDE DEF new
<1>11. /\ \A i \in DOMAIN sessions : sessions[i].id # new
       /\ \A u \in Thread : sess[u] # new
  BY <1>8, <1>10
<1> QED BY <1>6, <1>9, <1>11 DEF new

\* A search that starts at the head finds a place in the list, or nothing is there.
LEMMA FoundIsListed ==
  ASSUME NEW n \in Nat, NEW I \in SUBSET (1 .. n),
         NEW k, k = IF I # {} THEN Min(I) ELSE 0
  PROVE  /\ k = 0 \/ k \in I
         /\ k = 0 => I = {}
<1>1. I # {} => Min(I) \in I
  <2>1. I \in SUBSET Nat
    OBVIOUS
  <2> QED BY <2>1, LeastIsFound
<1> QED BY <1>1

\* findSession ends at a session of the list or at none (message.h:132-146).
LEMMA FindSession ==
  ASSUME sessions \in Seq(Session), NEW s
  PROVE  findSession(s) = 0 \/ findSession(s) \in DOMAIN sessions
<1> DEFINE I == {i \in 1 .. Len(sessions) : Named(sessions[i].id) = s}
<1>1. findSession(s) = IF I # {} THEN Min(I) ELSE 0
  BY DEF findSession, SelectInSeq
<1>2. I \in SUBSET (1 .. Len(sessions)) /\ Len(sessions) \in Nat
  OBVIOUS
<1>3. DOMAIN sessions = 1 .. Len(sessions)
  OBVIOUS
<1> HIDE DEF I
<1> QED BY <1>1, <1>2, <1>3, FoundIsListed

\* findSessUser ends at a session of the list; it ends at none only when no session
\* has a node with the descriptor (message.h:148-165).
LEMMA FindSessUser ==
  ASSUME sessions \in Seq(Session), NEW t
  PROVE  /\ findSessUser(t) = 0 \/ findSessUser(t) \in DOMAIN sessions
         /\ findSessUser(t) = 0 => \A i \in DOMAIN sessions : ~findUser(sessions[i].users, t)
<1> DEFINE I == {i \in 1 .. Len(sessions) : findUser(sessions[i].users, t)}
<1>1. findSessUser(t) = IF I # {} THEN Min(I) ELSE 0
  BY DEF findSessUser, SelectInSeq
<1>2. I \in SUBSET (1 .. Len(sessions)) /\ Len(sessions) \in Nat
  OBVIOUS
<1>3. DOMAIN sessions = 1 .. Len(sessions)
  OBVIOUS
<1>4. \A i \in DOMAIN sessions : i \in I <=> findUser(sessions[i].users, t)
  BY <1>3
<1> HIDE DEF I
<1> QED BY <1>1, <1>2, <1>3, <1>4, FoundIsListed

\* A pointer to a session leads to a session of the list or to a freed one.
LEMMA FindSessionWithId ==
  ASSUME sessions \in Seq(Session), NEW id
  PROVE  SessionWithId(id) = 0 \/ SessionWithId(id) \in DOMAIN sessions
<1> DEFINE I == {i \in 1 .. Len(sessions) : sessions[i].id = id}
<1>1. SessionWithId(id) = IF I # {} THEN Min(I) ELSE 0
  BY DEF SessionWithId, SelectInSeq
<1>2. I \in SUBSET (1 .. Len(sessions)) /\ Len(sessions) \in Nat
  OBVIOUS
<1>3. DOMAIN sessions = 1 .. Len(sessions)
  OBVIOUS
<1> HIDE DEF I
<1> QED BY <1>1, <1>2, <1>3, FoundIsListed

\* findUserName ends at a node of the list or at none (message.h:183-197).
LEMMA FindUserName ==
  ASSUME userList \in Seq(Node), NEW a
  PROVE  findUserName(a) = 0 \/ findUserName(a) \in DOMAIN userList
<1> DEFINE I == {i \in 1 .. Len(userList) : NameOf(userList[i]) = a}
<1>1. findUserName(a) = IF I # {} THEN Min(I) ELSE 0
  BY DEF findUserName, SelectInSeq
<1>2. I \in SUBSET (1 .. Len(userList)) /\ Len(userList) \in Nat
  OBVIOUS
<1>3. DOMAIN userList = 1 .. Len(userList)
  OBVIOUS
<1> HIDE DEF I
<1> QED BY <1>1, <1>2, <1>3, FoundIsListed

\* addUser brings nothing into a list but the new node (message.h:112-130).
LEMMA addUserKeeps ==
  ASSUME NEW users \in Seq(Node), NEW tail, NEW node \in Node
  PROVE  /\ addUser(users, tail, node) \in Seq(Node)
         /\ ToSet(addUser(users, tail, node)) \subseteq ToSet(users) \cup {node}
<1> DEFINE I == {i \in 1 .. Len(users) : users[i] = tail}
           k == IF I # {} THEN Min(I) ELSE 0
<1>1. addUser(users, tail, node)
        = CASE tail = NoOne          -> <<node>>
            [] tail # NoOne /\ k > 0 -> Append(SubSeq(users, 1, k), node)
            [] OTHER                 -> users
  BY DEF addUser, SelectInSeq
<1>2. k = 0 \/ k \in 1 .. Len(users)
  <2>1. I \in SUBSET (1 .. Len(users)) /\ Len(users) \in Nat
    OBVIOUS
  <2>2. k = 0 \/ k \in I
    <3> HIDE DEF I
    <3> QED BY <2>1, FoundIsListed
  <2> QED BY <2>1, <2>2
<1> HIDE DEF k
<1> DEFINE front == SubSeq(users, 1, k)
<1>3. CASE tail = NoOne
  <2>1. addUser(users, tail, node) = <<node>>
    BY <1>1, <1>3
  <2>2. <<node>> \in Seq(Node) /\ DOMAIN <<node>> = {1} /\ <<node>>[1] = node
    OBVIOUS
  <2> QED BY <2>1, <2>2 DEF ToSet
<1>4. CASE tail # NoOne /\ k > 0
  <2>1. addUser(users, tail, node) = Append(front, node)
    BY <1>1, <1>4
  <2>2. front \in Seq(Node) /\ Len(front) = k /\ \A i \in 1 .. k : front[i] = users[i]
    BY <1>2, <1>4
  <2> HIDE DEF front
  <2>3. \A i \in DOMAIN Append(front, node) :
          Append(front, node)[i] = node \/ \E j \in DOMAIN users : Append(front, node)[i] = users[j]
    <3>1. /\ DOMAIN Append(front, node) = 1 .. k + 1
          /\ \A i \in 1 .. k : Append(front, node)[i] = front[i]
          /\ Append(front, node)[k + 1] = node
      BY <1>2, <1>4, <2>2
    <3>2. \A i \in 1 .. k : i \in DOMAIN users
      BY <1>2, <1>4
    <3> QED BY <1>2, <1>4, <2>2, <3>1, <3>2
  <2>4. Append(front, node) \in Seq(Node)
    BY <2>2
  <2> QED BY <2>1, <2>3, <2>4 DEF ToSet
<1>5. CASE tail # NoOne /\ ~(k > 0)
  <2>1. addUser(users, tail, node) = users
    BY <1>1, <1>5
  <2> QED BY <2>1
<1> QED BY <1>3, <1>4, <1>5

\* A walk that ended at the last node puts the new one behind all others
\* (message.h:112-130).
LEMMA addUserAppends ==
  ASSUME NEW users \in Seq(Node), NEW node \in Node,
         \A i \in DOMAIN users : users[i] = LastNode(users) => i = Len(users)
  PROVE  addUser(users, LastNode(users), node) = Append(users, node)
<1> DEFINE tail == LastNode(users)
           I == {i \in 1 .. Len(users) : users[i] = tail}
           k == IF I # {} THEN Min(I) ELSE 0
<1>1. Len(users) \in Nat /\ DOMAIN users = 1 .. Len(users)
  OBVIOUS
<1>2. addUser(users, tail, node)
        = CASE tail = NoOne          -> <<node>>
            [] tail # NoOne /\ k > 0 -> Append(SubSeq(users, 1, k), node)
            [] OTHER                 -> users
  BY DEF addUser, SelectInSeq
<1>3. CASE users = <<>>
  <2>1. tail = NoOne
    BY <1>3 DEF LastNode
  <2>2. addUser(users, tail, node) = <<node>>
    BY <1>2, <2>1
  <2>3. Append(<<>>, node) = <<node>>
    OBVIOUS
  <2> QED BY <1>3, <2>2, <2>3
<1>4. CASE users # <<>>
  <2>1. Len(users) \in 1 .. Len(users) /\ tail = users[Len(users)]
    BY <1>1, <1>4 DEF LastNode
  <2>2. I = {Len(users)}
    BY <1>1, <2>1
  <2>3. k = Len(users)
    <3>1. Min({Len(users)}) \in {Len(users)}
      BY <1>1, LeastIsFound
    <3> QED BY <2>2, <3>1
  <2> HIDE DEF k
  <2>4. SubSeq(users, 1, k) = users
    BY <1>1, <2>3
  <2>5. tail # NoOne
    BY <1>1, <2>1, ConstantsAssumption
  <2>6. addUser(users, tail, node) = Append(SubSeq(users, 1, k), node)
    BY <1>1, <1>2, <2>1, <2>3, <2>5
  <2> QED BY <2>4, <2>6
<1> QED BY <1>3, <1>4

\* What a removal leaves is in its old order (message.h:245-278).
LEMMA removeUserThins ==
  ASSUME NEW users \in Seq(Node), NEW a, NEW new, new = removeUser(users, a)
  PROVE  \E f \in [DOMAIN new -> DOMAIN users] :
           /\ \A j \in DOMAIN new : new[j] = users[f[j]]
           /\ \A j, k \in DOMAIN new : k < j => f[k] < f[j]
<1> DEFINE I == {i \in 1 .. Len(users) : NameOf(users[i]) = a}
<1>1. CASE I = {}
  <2>1. ~ \E i \in 1 .. Len(users) : NameOf(users[i]) = a
    BY <1>1
  <2>2. new = users
    BY <2>1, Zenon DEF removeUser, RemoveFirstMatch
  <2> HIDE DEF I
  <2> DEFINE f == [j \in DOMAIN users |-> j]
  <2>3. f \in [DOMAIN users -> DOMAIN users] /\ \A j \in DOMAIN users : f[j] = j
    OBVIOUS
  <2> HIDE DEF f
  <2> QED BY <2>2, <2>3
<1>2. CASE I # {}
  <2> DEFINE m == Min(I)
  <2>1. m \in 1 .. Len(users)
    <3>1. I \in SUBSET Nat
      OBVIOUS
    <3> HIDE DEF I
    <3>2. m \in I
      BY <1>2, <3>1, LeastIsFound
    <3> QED BY <3>2 DEF I
  <2>2. new = RemoveAt(users, m)
    BY <1>2 DEF removeUser, RemoveFirstMatch, SelectInSeq
  <2> HIDE DEF I, m
  <2>3. /\ DOMAIN new = 1 .. Len(users) - 1
        /\ \A j \in 1 .. Len(users) - 1 : new[j] = IF j < m THEN users[j] ELSE users[j + 1]
    BY <2>1, <2>2, RemoveAtShifts
  <2> DEFINE f == [j \in DOMAIN new |-> IF j < m THEN j ELSE j + 1]
  <2>4. f \in [DOMAIN new -> DOMAIN users]
    BY <2>1, <2>3
  <2>5. \A j \in DOMAIN new : new[j] = users[f[j]]
    BY <2>1, <2>3
  <2>6. \A j, k \in DOMAIN new : k < j => f[k] < f[j]
    BY <2>1, <2>3
  <2> HIDE DEF f
  <2> QED BY <2>4, <2>5, <2>6
<1> QED BY <1>1, <1>2

\* The nodes of all sessions of a list.
Nodes(ss) == UNION {ToSet(ss[i].users) : i \in DOMAIN ss}

\* removeSessUser brings nothing into any session (message.h:280-287).
LEMMA removeSessUserKeeps ==
  ASSUME sessions \in Seq(Session), NEW i \in DOMAIN sessions, NEW a
  PROVE  /\ removeSessUser(i, a) \in Seq(Session)
         /\ Nodes(removeSessUser(i, a)) \subseteq Nodes(sessions)
<1> DEFINE s == Named(sessions[i].id)
           left == [sessions EXCEPT ![i].users = removeUser(@, a)]
           I == {k \in 1 .. Len(left) : Named(left[k].id) = s}
<1>1. sessions[i] \in Session /\ sessions[i].users \in Seq(Node)
  <2>1. sessions[i] \in Session
    OBVIOUS
  <2> QED BY <2>1 DEF Session
<1>2. /\ removeUser(sessions[i].users, a) \in Seq(Node)
      /\ ToSet(removeUser(sessions[i].users, a)) \subseteq ToSet(sessions[i].users)
  BY <1>1, removeUserKeeps DEF ToSet
<1>3. left \in Seq(Session) /\ Len(left) = Len(sessions) /\ DOMAIN left = DOMAIN sessions
  <2>1. [sessions[i] EXCEPT !.users = removeUser(@, a)] \in Session
    BY <1>1, <1>2 DEF Session
  <2>2. left = [sessions EXCEPT ![i] = [sessions[i] EXCEPT !.users = removeUser(@, a)]]
    OBVIOUS
  <2> QED BY <2>1, <2>2
<1>4. \A k \in DOMAIN left : k \in DOMAIN sessions /\ ToSet(left[k].users) \subseteq ToSet(sessions[k].users)
  <2> TAKE k \in DOMAIN left
  <2>1. CASE k = i
    <3>1. left[k].users = removeUser(sessions[i].users, a)
      BY <1>1, <2>1 DEF Session
    <3> QED BY <1>2, <2>1, <3>1
  <2>2. CASE k # i
    BY <2>2
  <2> QED BY <2>1, <2>2
<1>5. CASE left[i].users # <<>>
  <2>1. removeSessUser(i, a) = left
    BY <1>5 DEF removeSessUser
  <2> HIDE DEF left
  <2> QED BY <1>3, <1>4, <2>1 DEF Nodes
<1>6. CASE left[i].users = <<>>
  <2>1. i \in I
    BY <1>3 DEF Session
  <2>2. Min(I) \in 1 .. Len(left)
    <3>1. I \in SUBSET Nat
      OBVIOUS
    <3> HIDE DEF I
    <3>2. Min(I) \in I
      BY <2>1, <3>1, LeastIsFound
    <3> QED BY <3>2 DEF I
  <2>3. removeSessUser(i, a) = RemoveAt(left, Min(I))
    BY <1>6, <2>1, Zenon DEF removeSessUser, RemoveFirstMatch, SelectInSeq
  <2> HIDE DEF left, I
  <2>4. /\ RemoveAt(left, Min(I)) \in Seq(Session)
        /\ \A j \in DOMAIN RemoveAt(left, Min(I)) :
             \E k \in DOMAIN left : RemoveAt(left, Min(I))[j] = left[k]
    <3> DEFINE m == Min(I)
    <3>1. m \in 1 .. Len(left) /\ left \in Seq(Session)
      BY <1>3, <2>2
    <3> HIDE DEF m
    <3>2. /\ RemoveAt(left, m) \in Seq(Session)
          /\ \A j \in DOMAIN RemoveAt(left, m) : \E k \in DOMAIN left : RemoveAt(left, m)[j] = left[k]
      BY <3>1, RemoveAtKeeps
    <3> QED BY <3>2 DEF m
  <2>5. ASSUME NEW j \in DOMAIN RemoveAt(left, Min(I))
        PROVE  \E k \in DOMAIN sessions :
                 ToSet(RemoveAt(left, Min(I))[j].users) \subseteq ToSet(sessions[k].users)
    BY <1>4, <2>4
  <2> QED BY <2>3, <2>4, <2>5 DEF Nodes
<1> QED BY <1>5, <1>6

\* What removeSessUser leaves: the sessions it has not taken off the list keep their
\* order and ids, and their users but for the one session named to it; that one is
\* left empty only where another one of its name was taken off in its place
\* (message.h:280-287).
LEMMA removeSessUserIs ==
  ASSUME sessions \in Seq(Session), NEW i \in DOMAIN sessions, NEW a,
         NEW new, new = removeSessUser(i, a)
  PROVE  \E at \in [DOMAIN new -> DOMAIN sessions] :
           /\ \A k, l \in DOMAIN new : at[k] = at[l] => k = l
           /\ \A k \in DOMAIN new :
                /\ new[k].id = sessions[at[k]].id
                /\ new[k].users = IF at[k] = i THEN removeUser(sessions[i].users, a)
                                  ELSE sessions[at[k]].users
                /\ at[k] = i /\ new[k].users = <<>> =>
                     \E m \in DOMAIN sessions \ {i} : Named(sessions[m].id) = Named(sessions[i].id)
<1> DEFINE s == Named(sessions[i].id)
           less == removeUser(sessions[i].users, a)
           left == [sessions EXCEPT ![i].users = removeUser(@, a)]
           I == {k \in 1 .. Len(left) : Named(left[k].id) = s}
<1>1. /\ DOMAIN sessions = 1 .. Len(sessions) /\ Len(sessions) \in Nat
      /\ \A k \in DOMAIN sessions : sessions[k] \in Session
  OBVIOUS
<1>2. less \in Seq(Node)
  <2>1. sessions[i].users \in Seq(Node)
    BY <1>1 DEF Session
  <2> QED BY <2>1, removeUserKeeps
<1>3. left \in Seq(Session) /\ Len(left) = Len(sessions) /\ DOMAIN left = DOMAIN sessions
  <2>1. [sessions[i] EXCEPT !.users = removeUser(@, a)] \in Session
    BY <1>1, <1>2 DEF Session
  <2>2. left = [sessions EXCEPT ![i] = [sessions[i] EXCEPT !.users = removeUser(@, a)]]
    OBVIOUS
  <2> QED BY <2>1, <2>2
<1>4. ASSUME NEW k \in DOMAIN sessions
      PROVE  /\ left[k].id = sessions[k].id
             /\ left[k].users = IF k = i THEN less ELSE sessions[k].users
  <2>1. CASE k = i
    BY <1>1, <2>1 DEF Session
  <2>2. CASE k # i
    BY <2>2
  <2> QED BY <2>1, <2>2
<1>5. CASE left[i].users # <<>>
  <2>1. new = left
    BY <1>5 DEF removeSessUser
  <2> DEFINE at == [k \in DOMAIN new |-> k]
  <2>2. at \in [DOMAIN new -> DOMAIN sessions] /\ \A k \in DOMAIN new : at[k] = k
    BY <1>3, <2>1
  <2> HIDE DEF at, left, less
  <2> QED BY <1>3, <1>4, <1>5, <2>1, <2>2 DEF less
<1>6. CASE left[i].users = <<>>
  <2>1. i \in I
    BY <1>3, <1>4
  <2>2. Min(I) \in I
    <3>1. I \in SUBSET Nat
      OBVIOUS
    <3> HIDE DEF I
    <3> QED BY <2>1, <3>1, LeastIsFound
  <2>3. new = RemoveAt(left, Min(I))
    BY <1>6, <2>1, Zenon DEF removeSessUser, RemoveFirstMatch, SelectInSeq
  <2> DEFINE m == Min(I)
  <2>4. m \in 1 .. Len(left) /\ Named(left[m].id) = s
    BY <2>2
  <2> HIDE DEF m, I
  <2>5. new = RemoveAt(left, m)
    BY <2>3 DEF m
  <2> HIDE DEF left, less
  <2>6. /\ DOMAIN new = 1 .. Len(left) - 1
        /\ \A j \in 1 .. Len(left) - 1 : new[j] = IF j < m THEN left[j] ELSE left[j + 1]
    BY <1>3, <2>4, <2>5, RemoveAtShifts
  <2> DEFINE at == [k \in DOMAIN new |-> IF k < m THEN k ELSE k + 1]
  <2>7. at \in [DOMAIN new -> DOMAIN sessions]
    BY <1>1, <1>3, <2>4, <2>6
  <2>8. \A k, l \in DOMAIN new : at[k] = at[l] => k = l
    BY <1>1, <1>3, <2>4, <2>6
  <2>9. \A k \in DOMAIN new : new[k] = left[at[k]] /\ at[k] # m
    BY <1>1, <1>3, <2>4, <2>6
  <2> HIDE DEF at
  <2>10. \A k \in DOMAIN new :
           /\ new[k].id = sessions[at[k]].id
           /\ new[k].users = IF at[k] = i THEN less ELSE sessions[at[k]].users
    BY <1>4, <2>7, <2>9
  <2>11. ASSUME NEW k \in DOMAIN new, at[k] = i
         PROVE  \E n \in DOMAIN sessions \ {i} : Named(sessions[n].id) = s
    <3>1. m \in DOMAIN sessions \ {i}
      BY <1>1, <1>3, <2>4, <2>9, <2>11
    <3> QED BY <1>4, <2>4, <3>1
  <2> QED BY <2>7, <2>8, <2>10, <2>11 DEF less
<1> QED BY <1>5, <1>6

\* What is linked behind a node is a list of nodes (server.c:402), also after a
\* removal from a freed session.
LEMMA AheadTyped ==
  ASSUME sessions \in Seq(Session), rest \in [Thread -> Seq(Node)], NEW t \in Thread
  PROVE  /\ Ahead(t) \in Seq(Node)
         /\ \A a \in Account \cup {NoOne} : Without(t, a) \in Seq(Node)
<1> DEFINE i == SessionWithId(sess[t])
           users == sessions[i].users
           I == {k \in 1 .. Len(users) : users[k] = ptr[t]}
           j == IF I # {} THEN Min(I) ELSE 0
<1>1. Ahead(t) = CASE i = 0           -> rest[t]
                   [] i # 0 /\ j = 0 -> <<>>
                   [] OTHER           -> SubSeq(users, j + 1, Len(users))
  BY Zenon DEF Ahead, SelectInSeq
<1>2. rest[t] \in Seq(Node) /\ <<>> \in Seq(Node)
  OBVIOUS
<1>3. i = 0 => Ahead(t) \in Seq(Node)
  BY <1>1, <1>2
<1>4. ASSUME i # 0 PROVE Ahead(t) \in Seq(Node)
  <2>1. i \in DOMAIN sessions
    BY <1>4, FindSessionWithId
  <2>2. sessions[i] \in Session
    BY <2>1
  <2>3. users \in Seq(Node)
    BY <2>2 DEF Session
  <2>4. I \in SUBSET (1 .. Len(users)) /\ Len(users) \in Nat
    BY <2>3
  <2>5. j = 0 \/ j \in I
    <3> HIDE DEF I, users
    <3> QED BY <2>4, FoundIsListed
  <2>6. j = 0 \/ j \in 1 .. Len(users)
    BY <2>4, <2>5
  <2> HIDE DEF i, j, users
  <2>7. j # 0 => SubSeq(users, j + 1, Len(users)) \in Seq(Node)
    BY <2>3, <2>6
  <2> QED BY <1>1, <1>2, <1>4, <2>7
<1>5. \A a \in Account \cup {NoOne} : Without(t, a) \in Seq(Node)
  BY <1>2, removeUserKeeps DEF Without
<1> QED BY <1>3, <1>4, <1>5

-----------------------------------------------------------------------------
(* Types *)

\* The places of message_handler(), and those where a thread has logged in.
Places == {"idle", "recv", "leaked", "end"} \cup Busy
Inside == Busy \ {"close"}

\* What the threads share, and the nodes of freed sessions.
SharedTyped ==
  /\ holder \in [Fd -> Thread \cup {NoOne}]
  /\ usersLock \in Thread \cup {NoOne} /\ sessLock \in Thread \cup {NoOne}
  /\ userList \in Seq(Node)
  /\ sessions \in Seq(Session)
  /\ rest \in [Thread -> Seq(Node)]
  /\ raced \in SUBSET SessName

\* What each thread has for itself.
LocalsTyped ==
  /\ fd \in [Thread -> Fd \cup {NoOne}]
  /\ name \in [Thread -> Account \cup {NoOne}]
  /\ link \in [Thread -> {"open", "fin", "reset"}]
  /\ arg \in [Thread -> SessName \cup {NoOne}]
  /\ sess \in [Thread -> (SessName \X Nat) \cup {NoOne}]
  /\ ptr \in [Thread -> Node \cup {NoOne}]
  /\ due \in [Thread -> SUBSET Thread]

\* What is known at each place.
PlacesTyped ==
  /\ server \in {"up", "closed", "exited", "crashed"}
  /\ pc \in [Thread -> Places]
  /\ \A t \in Thread :
       /\ pc[t] \in Inside => name[t] \in Account
       /\ pc[t] \notin {"idle", "end"} => fd[t] \in Fd
       /\ server = "up" /\ pc[t] = "newLink" => arg[t] \in SessName

TypeInv == SharedTyped /\ LocalsTyped /\ PlacesTyped

\* An answer that is sent, or fails, moves its own thread or ends the process.
LEMMA AnswerTyped ==
  ASSUME TypeInv, NEW t \in Thread, NEW next \in Places, NEW failure, Answer(t, next, failure)
  PROVE  /\ link' \in [Thread -> {"open", "fin", "reset"}]
         /\ server' \in {"up", "closed", "exited", "crashed"}
         /\ pc' \in [Thread -> Places]
         /\ (server' # "up" /\ pc' = pc) \/ pc' = [pc EXCEPT ![t] = next] \/ pc' = [pc EXCEPT ![t] = "leaked"]
BY DEF TypeInv, LocalsTyped, PlacesTyped, Answer, Goto, Places

\* A removal from a session that was found earlier, freed or not.
LEMMA RemoveFoundTyped ==
  ASSUME TypeInv, NEW t \in Thread, NEW next \in Places, RemoveFound(t, next),
         next # "newLink", server = "up", pc[t] \in Inside
  PROVE  TypeInv'
<1> DEFINE i == SessionWithId(sess[t])
<1>1. sessions' \in Seq(Session)
  <2>1. i # 0 => i \in DOMAIN sessions
    BY FindSessionWithId DEF TypeInv, SharedTyped
  <2>2. i # 0 => removeSessUser(i, name[t]) \in Seq(Session)
    BY <2>1, removeSessUserKeeps DEF TypeInv, SharedTyped
  <2>3. sessions' = sessions \/ (i # 0 /\ sessions' = removeSessUser(i, name[t]))
    BY DEF RemoveFound
  <2> QED BY <2>2, <2>3 DEF TypeInv, SharedTyped
<1>2. SharedTyped'
  <2>1. rest' \in [Thread -> Seq(Node)]
    <3>1. \A u \in Thread : Ahead(u) \in Seq(Node) /\ Without(u, name[t]) \in Seq(Node)
      BY AheadTyped DEF TypeInv, SharedTyped, LocalsTyped
    <3>2. \A u \in Thread : rest[u] \in Seq(Node)
      BY DEF TypeInv, SharedTyped
    <3> QED BY <3>1, <3>2 DEF TypeInv, SharedTyped, RemoveFound
  <2>2. raced' \in SUBSET SessName
    BY DEF TypeInv, SharedTyped, RemoveFound
  <2> QED BY <1>1, <2>1, <2>2 DEF TypeInv, SharedTyped, RemoveFound
<1>3. LocalsTyped'
  BY DEF TypeInv, LocalsTyped, RemoveFound
<1>4. PlacesTyped'
  <2>1. /\ pc' = [pc EXCEPT ![t] = next] /\ UNCHANGED <<name, fd, arg>>
        /\ server' \in {"up", "crashed"}
    BY DEF RemoveFound, Goto
  <2> QED BY <2>1 DEF TypeInv, PlacesTyped, Places, Busy, Inside
<1> QED BY <1>2, <1>3, <1>4 DEF TypeInv

\* A descriptor is given by accept, and given back by the thread's end
\* (server.c:556, 692-708).
LEMMA NewConnectionTyped ==
  ASSUME TypeInv, NEW t \in Thread, Accept(t) \/ Close(t) \/ Uncount(t)
  PROVE  TypeInv'
<1>1. SharedTyped'
  <2>1. UNCHANGED <<usersLock, sessLock, userList, sessions, rest, raced>>
    BY DEF Accept, Close, Uncount
  <2>2. holder' = holder \/ \E f \in Fd : \E u \in {t, NoOne} : holder' = [holder EXCEPT ![f] = u]
    BY DEF Accept, Close, Uncount, FreeFds, At, TypeInv, PlacesTyped
  <2>3. holder' \in [Fd -> Thread \cup {NoOne}]
    BY <2>2 DEF TypeInv, SharedTyped
  <2> QED BY <2>1, <2>3 DEF TypeInv, SharedTyped
<1>2. LocalsTyped'
  BY DEF TypeInv, LocalsTyped, Accept, Close, Uncount, End, FreeFds
<1>3. PlacesTyped'
  <2>1. CASE Accept(t)
    BY <2>1 DEF TypeInv, LocalsTyped, PlacesTyped, Accept, FreeFds, At, Goto, Places, Busy, Inside
  <2>2. CASE Close(t)
    BY <2>2 DEF TypeInv, LocalsTyped, PlacesTyped, Close, End, At, LoggedIn, Goto, Places, Busy, Inside
  <2>3. CASE Uncount(t)
    BY <2>3 DEF TypeInv, LocalsTyped, PlacesTyped, Uncount, End, At, Goto, Places, Busy, Inside
  <2> QED BY <2>1, <2>2, <2>3
<1> QED BY <1>1, <1>2, <1>3 DEF TypeInv

\* LOGIN (server.c:89-145).
LEMMA LoginTyped ==
  ASSUME TypeInv, NEW t \in Thread,
         (\E a \in Account : LoginRequest(t, a)) \/ LoginWalk(t) \/ LoginLink(t)
  PROVE  TypeInv'
<1>1. ASSUME NEW a \in Account, LoginRequest(t, a) PROVE TypeInv'
  <2>1. SharedTyped'
    BY <1>1 DEF TypeInv, SharedTyped, LoginRequest, shared
  <2>2. LocalsTyped'
    BY <1>1 DEF TypeInv, LocalsTyped, LoginRequest
  <2>3. PlacesTyped'
    BY <1>1 DEF TypeInv, LocalsTyped, PlacesTyped, LoginRequest, Receive, Goto, Places, Busy, Inside
  <2> QED BY <2>1, <2>2, <2>3 DEF TypeInv
<1>2. CASE LoginWalk(t)
  <2>1. LastNode(userList) \in Node \cup {NoOne}
    BY DEF TypeInv, SharedTyped, LastNode
  <2>2. SharedTyped' /\ LocalsTyped'
    BY <1>2, <2>1 DEF TypeInv, SharedTyped, LocalsTyped, LoginWalk
  <2>3. PlacesTyped'
    BY <1>2 DEF TypeInv, LocalsTyped, PlacesTyped, LoginWalk, At, Goto, Places, Busy, Inside
  <2> QED BY <2>2, <2>3 DEF TypeInv
<1>3. CASE LoginLink(t)
  <2>1. UserNode(t) \in Node
    BY <1>3 DEF TypeInv, PlacesTyped, LoginLink, At, UserNode, Node, Inside, Busy
  <2>2. userList' \in Seq(Node)
    BY <1>3, <2>1, addUserKeeps DEF TypeInv, SharedTyped, LoginLink
  <2>3. SharedTyped'
    BY <1>3, <2>2 DEF TypeInv, SharedTyped, LoginLink
  <2>4. LocalsTyped'
    BY <1>3, AnswerTyped DEF TypeInv, LocalsTyped, LoginLink, Places
  <2>5. PlacesTyped'
    BY <1>3, AnswerTyped DEF TypeInv, LocalsTyped, PlacesTyped, LoginLink, At, Places, Busy, Inside
  <2> QED BY <2>3, <2>4, <2>5 DEF TypeInv
<1> QED BY <1>1, <1>2, <1>3

\* What JOIN does to the i-th session with these users: it appends a new node of t, or
\* cuts the list where the walk ended; it touches no other session.
Joins(t, i, users, new, longer) ==
  /\ i = SessionWithId(sess[t]) /\ users = sessions[i].users
  /\ new = NewNode(t, users) /\ longer = addUser(users, ptr[t], new)
  /\ i \in DOMAIN sessions /\ users \in Seq(Node)
  /\ new \in Node /\ Owner(new) = t /\ NameOf(new) = name[t] /\ FdOf(new) = fd[t]
  /\ new \notin ToSet(users) /\ \A u \in Thread : ptr[u] # new
  /\ longer \in Seq(Node) /\ ToSet(longer) \subseteq ToSet(users) \cup {new}
  /\ sessions' \in Seq(Session) /\ DOMAIN sessions' = DOMAIN sessions
  /\ \A k \in DOMAIN sessions :
       /\ sessions'[k].id = sessions[k].id
       /\ sessions'[k].users = IF k = i THEN longer ELSE sessions[k].users

\* So it does whenever it still finds its session (server.c:202-208).
LEMMA JoinLinkIs ==
  ASSUME TypeInv, NEW t \in Thread, JoinLink(t), SessionWithId(sess[t]) # 0
  PROVE  \E i, users, new, longer : Joins(t, i, users, new, longer)
<1> DEFINE i == SessionWithId(sess[t])
           users == sessions[i].users
           new == NewNode(t, users)
           longer == addUser(users, ptr[t], new)
<1>1. i \in DOMAIN sessions
  BY FindSessionWithId DEF TypeInv, SharedTyped
<1>2. sessions[i] \in Session /\ users \in Seq(Node)
  <2>1. sessions[i] \in Session
    BY <1>1 DEF TypeInv, SharedTyped
  <2> QED BY <2>1 DEF Session
<1>3. name[t] \in Account /\ fd[t] \in Fd
  BY DEF TypeInv, PlacesTyped, JoinLink, At, Inside, Busy
<1>4. /\ new \in Node /\ Owner(new) = t /\ NameOf(new) = name[t] /\ FdOf(new) = fd[t]
      /\ new \notin ToSet(users) /\ \A u \in Thread : ptr[u] # new
  BY <1>2, <1>3, NewNodeTyped DEF TypeInv, LocalsTyped
<1>5. longer \in Seq(Node) /\ ToSet(longer) \subseteq ToSet(users) \cup {new}
  BY <1>2, <1>4, addUserKeeps
<1>6. sessions' = [sessions EXCEPT ![i] = [sessions[i] EXCEPT !.users = longer]]
  BY <1>1 DEF JoinLink
<1>7. [sessions[i] EXCEPT !.users = longer] \in Session
  BY <1>2, <1>5 DEF Session
<1>8. sessions' \in Seq(Session) /\ DOMAIN sessions' = DOMAIN sessions
  BY <1>1, <1>6, <1>7 DEF TypeInv, SharedTyped
<1>9. ASSUME NEW k \in DOMAIN sessions
      PROVE  /\ sessions'[k].id = sessions[k].id
             /\ sessions'[k].users = IF k = i THEN longer ELSE sessions[k].users
  BY <1>2, <1>6 DEF Session
<1> HIDE DEF i, users, new, longer
<1>10. Joins(t, i, users, new, longer)
  BY <1>1, <1>2, <1>4, <1>5, <1>8, <1>9 DEF Joins, i, users, new, longer
<1> QED BY <1>10

\* JOIN adds to the sessions no node but one of its own thread (server.c:205-209).
LEMMA JoinLinkLists ==
  ASSUME TypeInv, NEW t \in Thread, JoinLink(t)
  PROVE  /\ sessions' \in Seq(Session)
         /\ \A n \in Nodes(sessions') :
              \/ n \in Nodes(sessions)
              \/ Owner(n) = t /\ NameOf(n) = name[t] /\ FdOf(n) = fd[t]
<1>1. CASE SessionWithId(sess[t]) = 0
  <2>1. sessions' = sessions
    BY <1>1 DEF JoinLink
  <2> QED BY <2>1 DEF TypeInv, SharedTyped
<1>2. CASE SessionWithId(sess[t]) # 0
  <2>1. PICK i, users, new, longer : Joins(t, i, users, new, longer)
    BY <1>2, JoinLinkIs
  <2>2. ASSUME NEW n \in Nodes(sessions'), n \notin Nodes(sessions) PROVE n = new
    <3>1. PICK k \in DOMAIN sessions : n \in ToSet(sessions'[k].users)
      BY <2>1, <2>2 DEF Nodes, Joins
    <3>2. n \notin ToSet(sessions[k].users)
      BY <2>2 DEF Nodes
    <3>3. k = i /\ n \in ToSet(longer)
      BY <2>1, <3>1, <3>2 DEF Joins
    <3> QED BY <2>1, <3>2, <3>3 DEF Joins
  <2> QED BY <2>1, <2>2 DEF Joins
<1> QED BY <1>1, <1>2

\* NEW_SESS lists a new session behind the others, with a node of the thread in it
\* (server.c:282-303).
LEMMA NewLinkIs ==
  ASSUME TypeInv, NEW t \in Thread, NewLink(t),
         NEW new, new = NewNode(t, <<>>), NEW id, id = NewSessId(arg[t]),
         NEW n, n = Len(sessions) + 1
  PROVE  /\ new \in Node /\ Owner(new) = t /\ NameOf(new) = name[t] /\ FdOf(new) = fd[t]
         /\ arg[t] \in SessName /\ Named(id) = arg[t]
         /\ id \notin Ids(sessions) /\ \A u \in Thread : sess[u] # id
         /\ sessions' \in Seq(Session)
         /\ DOMAIN sessions = 1 .. Len(sessions) /\ Len(sessions) \in Nat
         /\ DOMAIN sessions' = 1 .. n
         /\ \A k \in DOMAIN sessions : sessions'[k] = sessions[k]
         /\ sessions'[n].id = id /\ sessions'[n].users = <<new>>
<1> DEFINE added == [id |-> id, users |-> <<new>>]
<1>1. name[t] \in Account /\ fd[t] \in Fd /\ arg[t] \in SessName
  BY DEF TypeInv, PlacesTyped, NewLink, At, Inside, Busy
<1>2. new \in Node /\ Owner(new) = t /\ NameOf(new) = name[t] /\ FdOf(new) = fd[t]
  <2>1. <<>> \in Seq(Node)
    OBVIOUS
  <2> QED BY <1>1, <2>1, NewNodeTyped DEF TypeInv, LocalsTyped
<1>3. /\ id \in SessName \X Nat /\ Named(id) = arg[t]
      /\ id \notin Ids(sessions) /\ \A u \in Thread : sess[u] # id
  BY <1>1, NewSessIdTyped DEF TypeInv, LocalsTyped, SharedTyped, Ids
<1>4. sessions' = Append(sessions, added)
  BY DEF NewLink
<1>5. added \in Session /\ added.id = id /\ added.users = <<new>>
  BY <1>2, <1>3 DEF Session
<1> HIDE DEF added
<1>6. /\ sessions' \in Seq(Session)
      /\ DOMAIN sessions' = 1 .. n
      /\ \A k \in 1 .. Len(sessions) : sessions'[k] = sessions[k]
      /\ sessions'[n] = added
      /\ DOMAIN sessions = 1 .. Len(sessions) /\ Len(sessions) \in Nat
  BY <1>4, <1>5 DEF TypeInv, SharedTyped
<1> QED BY <1>1, <1>2, <1>3, <1>5, <1>6

\* Nor does NEW_SESS add any other node (server.c:290-303).
LEMMA NewLinkLists ==
  ASSUME TypeInv, NEW t \in Thread, NewLink(t)
  PROVE  /\ sessions' \in Seq(Session)
         /\ \A n \in Nodes(sessions') :
              \/ n \in Nodes(sessions)
              \/ Owner(n) = t /\ NameOf(n) = name[t] /\ FdOf(n) = fd[t]
<1> DEFINE new == NewNode(t, <<>>)
           last == Len(sessions) + 1
<1>1. /\ Owner(new) = t /\ NameOf(new) = name[t] /\ FdOf(new) = fd[t]
      /\ sessions' \in Seq(Session) /\ DOMAIN sessions' = 1 .. last
      /\ DOMAIN sessions = 1 .. Len(sessions) /\ Len(sessions) \in Nat
      /\ \A k \in DOMAIN sessions : sessions'[k] = sessions[k]
      /\ sessions'[last].users = <<new>>
  BY NewLinkIs
<1>2. ToSet(<<new>>) = {new}
  <2>1. DOMAIN <<new>> = {1} /\ <<new>>[1] = new
    OBVIOUS
  <2> QED BY <2>1 DEF ToSet
<1> HIDE DEF new
<1>3. ASSUME NEW n \in Nodes(sessions'), n \notin Nodes(sessions) PROVE n = new
  <2>1. PICK k \in 1 .. last : n \in ToSet(sessions'[k].users)
    BY <1>1, <1>3 DEF Nodes
  <2>2. k \notin DOMAIN sessions
    BY <1>1, <1>3, <2>1 DEF Nodes
  <2> QED BY <1>1, <1>2, <2>1, <2>2
<1> QED BY <1>1, <1>3

\* JOIN (server.c:178-222).
LEMMA JoinTyped ==
  ASSUME TypeInv, NEW t \in Thread,
         (\E s \in SessName : JoinRequest(t, s)) \/ JoinWalk(t) \/ JoinLink(t)
  PROVE  TypeInv'
<1>1. ASSUME NEW s \in SessName, JoinRequest(t, s) PROVE TypeInv'
  <2>1. CASE findSession(s) = 0
    <3>1. SharedTyped' /\ LocalsTyped'
      BY <1>1, <2>1, AnswerTyped DEF TypeInv, SharedTyped, LocalsTyped, JoinRequest, shared, Places
    <3>2. PlacesTyped'
      BY <1>1, <2>1, AnswerTyped DEF TypeInv, LocalsTyped, PlacesTyped, JoinRequest, Receive,
                                     Places, Busy, Inside
    <3> QED BY <3>1, <3>2 DEF TypeInv
  <2>2. CASE findSession(s) # 0
    <3>1. sessions[findSession(s)] \in Session
      BY <2>2, FindSession DEF TypeInv, SharedTyped
    <3>2. sessions[findSession(s)].id \in SessName \X Nat
      BY <3>1 DEF Session
    <3>3. SharedTyped'
      BY <1>1 DEF TypeInv, SharedTyped, JoinRequest, shared
    <3>4. LocalsTyped'
      BY <1>1, <2>2, <3>2 DEF TypeInv, LocalsTyped, JoinRequest
    <3>5. PlacesTyped'
      BY <1>1, <2>2 DEF TypeInv, LocalsTyped, PlacesTyped, JoinRequest, Receive, LoggedIn, Goto,
                        Places, Busy, Inside
    <3> QED BY <3>3, <3>4, <3>5 DEF TypeInv
  <2> QED BY <2>1, <2>2
<1>2. CASE JoinWalk(t)
  <2>1. ptr'[t] \in Node \cup {NoOne}
    <3> DEFINE i == SessionWithId(sess[t])
    <3>1. CASE i = 0
      BY <1>2, <3>1 DEF JoinWalk, TypeInv, LocalsTyped
    <3>2. CASE i # 0
      <4>1. sessions[i] \in Session
        BY <3>2, FindSessionWithId DEF TypeInv, SharedTyped
      <4>2. sessions[i].users \in Seq(Node)
        BY <4>1 DEF Session
      <4>3. LastNode(sessions[i].users) \in Node \cup {NoOne}
        BY <4>2 DEF LastNode
      <4> QED BY <1>2, <3>2, <4>3 DEF JoinWalk, TypeInv, LocalsTyped
    <3> QED BY <3>1, <3>2
  <2>2. SharedTyped' /\ LocalsTyped'
    <3>1. ptr' \in [Thread -> Node \cup {NoOne}]
      BY <1>2, <2>1 DEF TypeInv, LocalsTyped, JoinWalk
    <3> QED BY <1>2, <3>1 DEF TypeInv, SharedTyped, LocalsTyped, JoinWalk
  <2>3. PlacesTyped'
    BY <1>2 DEF TypeInv, LocalsTyped, PlacesTyped, JoinWalk, At, Goto, Places, Busy, Inside
  <2> QED BY <2>2, <2>3 DEF TypeInv
<1>3. CASE JoinLink(t)
  <2>1. SharedTyped'
    <3>1. name[t] \in Account /\ fd[t] \in Fd
      BY <1>3 DEF TypeInv, PlacesTyped, JoinLink, At, Inside, Busy
    <3>2. \A u \in Thread : rest[u] \in Seq(Node)
      BY DEF TypeInv, SharedTyped
    <3>3. \A u \in Thread : NewNode(t, rest[u]) \in Node
      BY <3>1, <3>2, NewNodeTyped DEF TypeInv, LocalsTyped
    <3>4. \A u \in Thread : Append(rest[u], NewNode(t, rest[u])) \in Seq(Node)
      BY <3>2, <3>3
    <3>5. rest' \in [Thread -> Seq(Node)]
      BY <1>3, <3>2, <3>4 DEF TypeInv, SharedTyped, JoinLink
    <3> QED BY <1>3, <3>5, JoinLinkLists DEF TypeInv, SharedTyped, JoinLink
  <2>2. LocalsTyped'
    BY <1>3, AnswerTyped DEF TypeInv, LocalsTyped, JoinLink, Places
  <2>3. PlacesTyped'
    BY <1>3, AnswerTyped DEF TypeInv, LocalsTyped, PlacesTyped, JoinLink, At, Places, Busy, Inside
  <2> QED BY <2>1, <2>2, <2>3 DEF TypeInv
<1> QED BY <1>1, <1>2, <1>3

\* NEW_SESS (server.c:273-325).
LEMMA NewTyped ==
  ASSUME TypeInv, NEW t \in Thread, (\E s \in SessName : NewRequest(t, s)) \/ NewLink(t)
  PROVE  TypeInv'
<1>1. ASSUME NEW s \in SessName, NewRequest(t, s) PROVE TypeInv'
  <2>1. SharedTyped'
    BY <1>1 DEF TypeInv, SharedTyped, NewRequest, shared
  <2>2. LocalsTyped'
    BY <1>1, AnswerTyped DEF TypeInv, LocalsTyped, NewRequest, Places
  <2>3. PlacesTyped'
    BY <1>1, AnswerTyped DEF TypeInv, LocalsTyped, PlacesTyped, NewRequest, Receive, LoggedIn, Goto,
                        Places, Busy, Inside
  <2> QED BY <2>1, <2>2, <2>3 DEF TypeInv
<1>2. CASE NewLink(t)
  <2>1. SharedTyped'
    <3>1. raced' \in SUBSET SessName
      BY <1>2 DEF TypeInv, SharedTyped, PlacesTyped, NewLink, At
    <3> QED BY <1>2, <3>1, NewLinkLists DEF TypeInv, SharedTyped, NewLink
  <2>2. LocalsTyped'
    BY <1>2, AnswerTyped DEF TypeInv, LocalsTyped, NewLink, Places
  <2>3. PlacesTyped'
    BY <1>2, AnswerTyped DEF TypeInv, LocalsTyped, PlacesTyped, NewLink, At, Places, Busy, Inside
  <2> QED BY <2>1, <2>2, <2>3 DEF TypeInv
<1> QED BY <1>1, <1>2

\* LEAVE_SESS, and the clean-up of a thread (server.c:223-272, 561-567).
LEMMA LeaveTyped ==
  ASSUME TypeInv, NEW t \in Thread,
         \/ \E s \in SessName : LeaveRequest(t, s)
         \/ Leave(t) \/ AnswerLeave(t) \/ LeaveAllRequest(t) \/ LeaveFind(t) \/ LeaveAll(t)
         \/ PurgeFind(t) \/ Purge(t)
  PROVE  TypeInv'
<1>1. ASSUME NEW s \in SessName, LeaveRequest(t, s) PROVE TypeInv'
  <2> DEFINE i == findSession(s)
  <2>1. CASE ~HasUser(i, t)
    <3>1. SharedTyped' /\ LocalsTyped'
      BY <1>1, <2>1, AnswerTyped DEF TypeInv, SharedTyped, LocalsTyped, LeaveRequest, shared, Places
    <3>2. PlacesTyped'
      BY <1>1, <2>1, AnswerTyped DEF TypeInv, LocalsTyped, PlacesTyped, LeaveRequest, Receive,
                                     Places, Busy, Inside
    <3> QED BY <3>1, <3>2 DEF TypeInv
  <2>2. CASE HasUser(i, t)
    <3>1. sessions[i] \in Session
      BY <2>2, FindSession DEF TypeInv, SharedTyped, HasUser
    <3>2. sessions[i].id \in SessName \X Nat
      BY <3>1 DEF Session
    <3>3. SharedTyped'
      BY <1>1 DEF TypeInv, SharedTyped, LeaveRequest, shared
    <3>4. LocalsTyped'
      BY <1>1, <2>2, <3>2 DEF TypeInv, LocalsTyped, LeaveRequest
    <3>5. PlacesTyped'
      BY <1>1, <2>2 DEF TypeInv, LocalsTyped, PlacesTyped, LeaveRequest, Receive, LoggedIn, Goto,
                        Places, Busy, Inside
    <3> QED BY <3>3, <3>4, <3>5 DEF TypeInv
  <2> QED BY <2>1, <2>2
<1>2. CASE Leave(t)
  BY <1>2, RemoveFoundTyped DEF Leave, At, Places, Busy, Inside
<1>3. CASE LeaveAll(t)
  BY <1>3, RemoveFoundTyped DEF LeaveAll, At, Places, Busy, Inside
<1>4. CASE Purge(t)
  BY <1>4, RemoveFoundTyped DEF Purge, At, Places, Busy, Inside
<1>5. CASE AnswerLeave(t)
  <2>1. SharedTyped' /\ LocalsTyped'
    BY <1>5, AnswerTyped DEF TypeInv, SharedTyped, LocalsTyped, AnswerLeave, shared, Places
  <2>2. PlacesTyped'
    BY <1>5, AnswerTyped DEF TypeInv, LocalsTyped, PlacesTyped, AnswerLeave, At, Places, Busy, Inside
  <2> QED BY <2>1, <2>2 DEF TypeInv
<1>6. CASE LeaveAllRequest(t)
  <2>1. SharedTyped' /\ LocalsTyped'
    BY <1>6 DEF TypeInv, SharedTyped, LocalsTyped, LeaveAllRequest, shared
  <2>2. PlacesTyped'
    BY <1>6 DEF TypeInv, LocalsTyped, PlacesTyped, LeaveAllRequest, Receive, LoggedIn, Goto,
                Places, Busy, Inside
  <2> QED BY <2>1, <2>2 DEF TypeInv
<1>7. CASE LeaveFind(t) \/ PurgeFind(t)
  <2>1. findSessUser(t) # 0 => sessions[findSessUser(t)].id \in SessName \X Nat
    <3> SUFFICES ASSUME findSessUser(t) # 0 PROVE sessions[findSessUser(t)].id \in SessName \X Nat
      OBVIOUS
    <3>1. sessions[findSessUser(t)] \in Session
      BY FindSessUser DEF TypeInv, SharedTyped
    <3> QED BY <3>1 DEF Session
  <2>2. SharedTyped'
    BY <1>7 DEF TypeInv, SharedTyped, LeaveFind, PurgeFind, shared
  <2>3. LocalsTyped'
    <3>1. /\ sess' \in [Thread -> (SessName \X Nat) \cup {NoOne}]
          /\ UNCHANGED <<fd, name, arg, ptr, rest, due>>
      BY <1>7, <2>1 DEF TypeInv, LocalsTyped, LeaveFind, PurgeFind
    <3>2. link' \in [Thread -> {"open", "fin", "reset"}]
      BY <1>7, AnswerTyped DEF TypeInv, LocalsTyped, LeaveFind, PurgeFind, Places
    <3> QED BY <3>1, <3>2 DEF TypeInv, LocalsTyped
  <2>4. PlacesTyped'
    <3>1. /\ pc[t] \in {"leaveFind", "purgeFind"} /\ server = "up" /\ UNCHANGED <<fd, name, arg>>
          /\ server' \in {"up", "closed", "exited", "crashed"}
      BY <1>7, AnswerTyped DEF LeaveFind, PurgeFind, At, Places
    <3>2. pc' = pc \/ \E l \in {"recv", "leaked", "leaveAll", "purge", "uncount"} :
                        pc' = [pc EXCEPT ![t] = l]
      BY <1>7, AnswerTyped DEF LeaveFind, PurgeFind, Goto, Places
    <3> QED BY <3>1, <3>2 DEF TypeInv, PlacesTyped, Places, Busy, Inside
  <2> QED BY <2>2, <2>3, <2>4 DEF TypeInv
<1> QED BY <1>1, <1>2, <1>3, <1>4, <1>5, <1>6, <1>7

\* MESSAGE (server.c:326-407).
LEMMA MessageTyped ==
  ASSUME TypeInv, NEW t \in Thread,
         (\E s \in SessName : MessageRequest(t, s)) \/ Broadcast(t)
  PROVE  TypeInv'
<1>1. ASSUME NEW s \in SessName, MessageRequest(t, s) PROVE TypeInv'
  <2> DEFINE i == findSession(s)
  <2>1. CASE Answer(t, "recv", "exit(1)") /\ UNCHANGED <<sess, ptr, due>>
    <3>1. SharedTyped' /\ LocalsTyped'
      BY <1>1, <2>1, AnswerTyped DEF TypeInv, SharedTyped, LocalsTyped, MessageRequest, shared, Places
    <3>2. PlacesTyped'
      BY <1>1, <2>1, AnswerTyped DEF TypeInv, LocalsTyped, PlacesTyped, MessageRequest, Receive,
                                     Places, Busy, Inside
    <3> QED BY <3>1, <3>2 DEF TypeInv
  <2>2. CASE /\ HasUser(i, t)
             /\ LET users == sessions[i].users
                IN  /\ ptr' = [ptr EXCEPT ![t] = users[1]]
                    /\ due' = [due EXCEPT ![t] = {Owner(users[j]) : j \in DOMAIN users} \ {t}]
             /\ sess' = [sess EXCEPT ![t] = sessions[i].id]
             /\ Goto(t, "broadcast") /\ UNCHANGED <<server, link>>
    <3> DEFINE users == sessions[i].users
    <3>1. sessions[i] \in Session
      BY <2>2, FindSession DEF TypeInv, SharedTyped, HasUser
    <3>2. sessions[i].id \in SessName \X Nat /\ users \in Seq(Node)
      BY <3>1 DEF Session
    <3>3. users[1] \in Node
      <4>1. DOMAIN users # {}
        BY <2>2 DEF HasUser, findUser
      <4> QED BY <3>2, <4>1
    <3>4. {Owner(users[j]) : j \in DOMAIN users} \ {t} \in SUBSET Thread
      BY <3>2 DEF Node, Owner
    <3>5. SharedTyped'
      BY <1>1 DEF TypeInv, SharedTyped, MessageRequest, shared
    <3>6. LocalsTyped'
      <4>1. /\ ptr' = [ptr EXCEPT ![t] = users[1]]
            /\ due' = [due EXCEPT ![t] = {Owner(users[j]) : j \in DOMAIN users} \ {t}]
            /\ sess' = [sess EXCEPT ![t] = sessions[i].id]
            /\ UNCHANGED <<fd, name, link, arg>>
        BY <1>1, <2>2 DEF MessageRequest
      <4> HIDE DEF users, i
      <4> QED BY <3>2, <3>3, <3>4, <4>1 DEF TypeInv, LocalsTyped
    <3>7. PlacesTyped'
      BY <1>1, <2>2 DEF TypeInv, LocalsTyped, PlacesTyped, MessageRequest, Receive, LoggedIn, Goto,
                        Places, Busy, Inside
    <3> QED BY <3>5, <3>6, <3>7 DEF TypeInv
  <2> QED BY <1>1, <2>1, <2>2 DEF MessageRequest
<1>2. CASE Broadcast(t)
  <2>1. Ahead(t) \in Seq(Node) /\ rest[t] \in Seq(Node)
    BY AheadTyped DEF TypeInv, SharedTyped, LocalsTyped
  <2>2. SharedTyped'
    <3>1. rest' \in [Thread -> Seq(Node)]
      <4>1. rest[t] # <<>> => Tail(rest[t]) \in Seq(Node)
        BY <2>1
      <4>2. rest' = rest \/ rest' = [rest EXCEPT ![t] = IF @ = <<>> THEN @ ELSE Tail(@)]
        BY <1>2 DEF Broadcast, WalkOn
      <4> QED BY <2>1, <4>1, <4>2 DEF TypeInv, SharedTyped
    <3> QED BY <1>2, <3>1 DEF TypeInv, SharedTyped, Broadcast, shared
  <2>3. LocalsTyped'
    <3>1. Ahead(t) # <<>> => Head(Ahead(t)) \in Node
      BY <2>1
    <3>2. ASSUME NEW to, WalkOn(t, Ahead(t), to)
          PROVE  /\ ptr' \in [Thread -> Node \cup {NoOne}]
                 /\ sess' \in [Thread -> (SessName \X Nat) \cup {NoOne}]
                 /\ due' \in [Thread -> SUBSET Thread]
      BY <3>1, <3>2 DEF WalkOn, TypeInv, LocalsTyped
    <3> QED BY <1>2, <3>2 DEF TypeInv, LocalsTyped, Broadcast
  <2>4. PlacesTyped'
    BY <1>2 DEF TypeInv, LocalsTyped, PlacesTyped, Broadcast, WalkOn, At, Goto, Places, Busy, Inside
  <2> QED BY <2>2, <2>3, <2>4 DEF TypeInv
<1> QED BY <1>1, <1>2

\* INVITE (server.c:409-457).
LEMMA InviteTyped ==
  ASSUME TypeInv, NEW t \in Thread,
         (\E a \in Account, s \in SessName : InviteRequest(t, a, s)) \/ Invite(t)
  PROVE  TypeInv'
<1>1. ASSUME NEW a \in Account, NEW s \in SessName, InviteRequest(t, a, s) PROVE TypeInv'
  <2>1. findUserName(a) # 0 => userList[findUserName(a)] \in Node
    BY FindUserName DEF TypeInv, SharedTyped
  <2>2. SharedTyped'
    BY <1>1 DEF TypeInv, SharedTyped, InviteRequest, shared
  <2>3. LocalsTyped'
    BY <1>1, <2>1, AnswerTyped DEF TypeInv, LocalsTyped, InviteRequest, Places
  <2>4. PlacesTyped'
    BY <1>1, AnswerTyped DEF TypeInv, LocalsTyped, PlacesTyped, InviteRequest, Receive, LoggedIn,
                             Goto, Places, Busy, Inside
  <2> QED BY <2>2, <2>3, <2>4 DEF TypeInv
<1>2. CASE Invite(t)
  <2>1. SharedTyped' /\ LocalsTyped'
    BY <1>2 DEF TypeInv, SharedTyped, LocalsTyped, Invite, shared
  <2>2. PlacesTyped'
    BY <1>2 DEF TypeInv, LocalsTyped, PlacesTyped, Invite, At, Goto, Places, Busy, Inside
  <2> QED BY <2>1, <2>2 DEF TypeInv
<1> QED BY <1>1, <1>2

\* The other requests and the ways to the end (server.c:73-80, 161-177, 458-560).
LEMMA EndingTyped ==
  ASSUME TypeInv, NEW t \in Thread,
         \/ RefuseLogin(t) \/ Query(t) \/ ExitRequest(t)
         \/ Disconnect(t) \/ RecvFails(t) \/ PeerCloses(t) \/ Unlist(t)
  PROVE  TypeInv'
<1>1. CASE RefuseLogin(t) \/ Query(t) \/ Disconnect(t) \/ RecvFails(t)
  <2>1. SharedTyped' /\ LocalsTyped'
    BY <1>1, AnswerTyped DEF TypeInv, SharedTyped, LocalsTyped, RefuseLogin, Query, Disconnect,
                             RecvFails, shared, Places, Busy
  <2>2. PlacesTyped'
    BY <1>1, AnswerTyped DEF TypeInv, LocalsTyped, PlacesTyped, RefuseLogin, Query, Disconnect,
                             RecvFails, Receive, At, Goto, Places, Busy, Inside
  <2> QED BY <2>1, <2>2 DEF TypeInv
<1>2. CASE ExitRequest(t) \/ PeerCloses(t)
  <2>1. SharedTyped' /\ LocalsTyped'
    BY <1>2 DEF TypeInv, SharedTyped, LocalsTyped, ExitRequest, PeerCloses, shared
  <2>2. PlacesTyped'
    BY <1>2 DEF TypeInv, PlacesTyped, ExitRequest, PeerCloses, Receive, Goto, Places, Busy, Inside
  <2> QED BY <2>1, <2>2 DEF TypeInv
<1>3. CASE Unlist(t)
  <2>1. userList' \in Seq(Node)
    BY <1>3, removeUserKeeps DEF TypeInv, SharedTyped, Unlist
  <2>2. SharedTyped' /\ LocalsTyped'
    BY <1>3, <2>1 DEF TypeInv, SharedTyped, LocalsTyped, Unlist, locals
  <2>3. PlacesTyped'
    BY <1>3 DEF TypeInv, PlacesTyped, Unlist, At, locals, Goto, Places, Busy, Inside
  <2> QED BY <2>2, <2>3 DEF TypeInv
<1> QED BY <1>1, <1>2, <1>3

\* The types of the variables, and what is known at each place of message_handler():
\* a thread that reads its account's name, descriptor or session name has one
\* (server.c:48-581).
THEOREM TypeIsKept == Spec => []TypeInv
<1>1. Init => TypeInv
  <2> SUFFICES ASSUME Init PROVE TypeInv
    OBVIOUS
  <2>1. <<>> \in Seq(Node) /\ <<>> \in Seq(Session)
    OBVIOUS
  <2> QED BY <2>1 DEF Init, TypeInv, SharedTyped, LocalsTyped, PlacesTyped, Places, Busy, Inside
<1>2. TypeInv /\ [Next]_vars => TypeInv'
  <2> SUFFICES ASSUME TypeInv, [Next]_vars PROVE TypeInv'
    OBVIOUS
  <2>1. CASE vars' = vars \/ AcceptTimeout
    BY <2>1 DEF vars, shared, locals, AcceptTimeout, TypeInv, SharedTyped, LocalsTyped, PlacesTyped
  <2>2. ASSUME NEW t \in Thread, Request(t) PROVE TypeInv'
    BY <2>2, LoginTyped, JoinTyped, LeaveTyped, NewTyped, MessageTyped, InviteTyped, EndingTyped
       DEF Request
  <2>3. ASSUME NEW t \in Thread, Accept(t) \/ Work(t) \/ PeerCloses(t) \/ RecvFails(t)
        PROVE  TypeInv'
    BY <2>3, NewConnectionTyped, LoginTyped, JoinTyped, LeaveTyped, NewTyped, MessageTyped,
       InviteTyped, EndingTyped DEF Work
  <2> QED BY <2>1, <2>2, <2>3 DEF Next
<1> QED BY <1>1, <1>2, PTL DEF Spec

=============================================================================
