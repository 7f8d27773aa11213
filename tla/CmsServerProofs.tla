--------------------------- MODULE CmsServerProofs ---------------------------
(***************************************************************************)
(* Proofs about CmsServer, for every value of its constants.               *)
(***************************************************************************)
EXTENDS CmsServer, FiniteSetTheorems, SequenceTheorems, TLAPS

USE CountAssumption, NoConnAssumption DEF Slots, Fds, Threads, Acceptor, Nobody

-----------------------------------------------------------------------------
(* What the kernel operators preserve. *)

\* A descriptor stands for a connection or for none.
LEMMA ConnOfType ==
  ASSUME TypeOK, NEW f PROVE ConnOf(f) \in Conns \cup {NoConn}
BY DEF ConnOf, TypeOK, NetworkType

\* Reading a chunk leaves input lines behind.
LEMMA TakeChunkType ==
  ASSUME TypeOK, NEW c \in Conns, TakeChunk(c)
  PROVE  inbox' \in [Conns -> Seq(Lines)]
<1>1. PICK n \in 1 .. Len(inbox[c]) :
        inbox' = [inbox EXCEPT ![c] = SubSeq(@, n + 1, Len(@))]
  BY DEF TakeChunk
<1>2. inbox[c] \in Seq(Lines)
  BY DEF TypeOK, NetworkType
<1>3. \A i \in n + 1 .. Len(inbox[c]) : inbox[c][i] \in Lines
  BY <1>2
<1>4. SubSeq(inbox[c], n + 1, Len(inbox[c])) \in Seq(Lines)
  BY <1>2, <1>3, SubSeqProperties
<1>5. QED
  BY <1>1, <1>4 DEF TypeOK, NetworkType

\* A write or a shutdown leaves every peer in a known state.
LEMMA WriteToType ==
  ASSUME TypeOK, NEW c, WriteTo(c)
  PROVE  peer' \in [Conns -> PeerStates] /\ alive' \in BOOLEAN
BY DEF WriteTo, TypeOK, NetworkType, PeerStates

LEMMA ShutDownType ==
  ASSUME TypeOK, NEW c, ShutDown(c)
  PROVE  peer' \in [Conns -> PeerStates]
BY DEF ShutDown, TypeOK, NetworkType, PeerStates

LEMMA TypeAccept ==
  ASSUME TypeOK, Accept
  PROVE  TypeOK'
<1>1. TableType'
  BY DEF TypeOK, TableType, Accept, table
<1>2. AcceptorType'
  BY
  DEF TypeOK, AcceptorType, TableType, MutexHolder, Accept, Lowest, FreeFds,
      acceptor, AcceptorLabels
<1>3. ThreadsType'
  BY DEF TypeOK, ThreadsType, TableType, Accept, threads, ThreadLabels
<1>4. NetworkType'
  <2>1. Head(backlog) \in Conns /\ Tail(backlog) \in Seq(Conns)
    BY HeadTailProperties DEF TypeOK, NetworkType, Accept
  <2>2. open' \in [Fds -> Conns \cup {NoConn}]
    BY <2>1 DEF TypeOK, NetworkType, Accept
  <2>3. peer' \in [Conns -> PeerStates]
    BY ShutDownType DEF TypeOK, NetworkType, Accept
  <2>4. QED
    BY <2>1, <2>2, <2>3 DEF TypeOK, NetworkType, Accept
<1>5. MutexHolder'
  BY
  DEF TypeOK, TableType, AcceptorType, ThreadsType, MutexHolder, Accept, table,
      acceptor, threads
<1>6. QED
  BY <1>1, <1>2, <1>3, <1>4, <1>5 DEF TypeOK

LEMMA TypeEnterRead ==
  ASSUME TypeOK, EnterRead
  PROVE  TypeOK'
<1>1. TableType'
  BY DEF TypeOK, TableType, EnterRead, table
<1>2. AcceptorType'
  BY ConnOfType
  DEF TypeOK, AcceptorType, TableType, MutexHolder, EnterRead, acceptor,
      AcceptorLabels
<1>3. ThreadsType'
  BY DEF TypeOK, ThreadsType, TableType, EnterRead, threads, ThreadLabels
<1>4. NetworkType'
  BY
  DEF TypeOK, NetworkType, AcceptorType, ThreadsType, EnterRead, network,
      PeerStates
<1>5. MutexHolder'
  BY
  DEF TypeOK, TableType, AcceptorType, ThreadsType, MutexHolder, EnterRead,
      table, acceptor, threads
<1>6. QED
  BY <1>1, <1>2, <1>3, <1>4, <1>5 DEF TypeOK

LEMMA TypeLoginEnds ==
  ASSUME TypeOK, LoginEnds
  PROVE  TypeOK'
<1>1. TableType'
  BY DEF TypeOK, TableType, LoginEnds, table
<1>2. AcceptorType'
  BY
  DEF TypeOK, AcceptorType, TableType, MutexHolder, LoginEnds, acceptor,
      AcceptorLabels
<1>3. ThreadsType'
  BY DEF TypeOK, ThreadsType, TableType, LoginEnds, threads, ThreadLabels
<1>4. NetworkType'
  BY
  DEF TypeOK, NetworkType, AcceptorType, ThreadsType, LoginEnds, network,
      PeerStates
<1>5. MutexHolder'
  BY
  DEF TypeOK, TableType, AcceptorType, ThreadsType, MutexHolder, LoginEnds,
      table, acceptor, threads
<1>6. QED
  BY <1>1, <1>2, <1>3, <1>4, <1>5 DEF TypeOK

LEMMA TypeLoginUnknown ==
  ASSUME TypeOK, LoginUnknown
  PROVE  TypeOK'
<1>1. TableType'
  BY DEF TypeOK, TableType, LoginUnknown, LoginRead, table
<1>2. AcceptorType'
  BY
  DEF TypeOK, AcceptorType, TableType, MutexHolder, LoginUnknown, LoginRead,
      acceptor, AcceptorLabels
<1>3. ThreadsType'
  BY
  DEF TypeOK, ThreadsType, TableType, LoginUnknown, LoginRead, threads,
      ThreadLabels
<1>4. NetworkType'
  BY TakeChunkType, ShutDownType
  DEF TypeOK, NetworkType, AcceptorType, ThreadsType, LoginUnknown, LoginRead,
      network, PeerStates
<1>5. MutexHolder'
  BY
  DEF TypeOK, TableType, AcceptorType, ThreadsType, MutexHolder, LoginUnknown,
      LoginRead, table, acceptor, threads
<1>6. QED
  BY <1>1, <1>2, <1>3, <1>4, <1>5 DEF TypeOK

LEMMA TypeLoginRefused ==
  ASSUME TypeOK, LoginRefused
  PROVE  TypeOK'
<1>1. TableType'
  BY DEF TypeOK, TableType, LoginRefused, LoginRead, table
<1>2. AcceptorType'
  BY
  DEF TypeOK, AcceptorType, TableType, MutexHolder, LoginRefused, LoginRead,
      acceptor, AcceptorLabels
<1>3. ThreadsType'
  BY
  DEF TypeOK, ThreadsType, TableType, LoginRefused, LoginRead, threads,
      ThreadLabels
<1>4. NetworkType'
  BY TakeChunkType, ShutDownType
  DEF TypeOK, NetworkType, AcceptorType, ThreadsType, LoginRefused, LoginRead,
      network, PeerStates
<1>5. MutexHolder'
  BY
  DEF TypeOK, TableType, AcceptorType, ThreadsType, MutexHolder, LoginRefused,
      LoginRead, table, acceptor, threads
<1>6. QED
  BY <1>1, <1>2, <1>3, <1>4, <1>5 DEF TypeOK

LEMMA TypeLoginMatched ==
  ASSUME TypeOK, LoginMatched
  PROVE  TypeOK'
<1>1. TableType'
  BY DEF TypeOK, TableType, LoginMatched, LoginRead, table
<1>2. AcceptorType'
  BY
  DEF TypeOK, AcceptorType, TableType, MutexHolder, LoginMatched, LoginRead,
      acceptor, AcceptorLabels
<1>3. ThreadsType'
  BY
  DEF TypeOK, ThreadsType, TableType, LoginMatched, LoginRead, threads,
      ThreadLabels
<1>4. NetworkType'
  BY TakeChunkType
  DEF TypeOK, NetworkType, AcceptorType, ThreadsType, LoginMatched, LoginRead,
      network, PeerStates
<1>5. MutexHolder'
  BY
  DEF TypeOK, TableType, AcceptorType, ThreadsType, MutexHolder, LoginMatched,
      LoginRead, table, acceptor, threads
<1>6. QED
  BY <1>1, <1>2, <1>3, <1>4, <1>5 DEF TypeOK

LEMMA TypeLoginLock ==
  ASSUME TypeOK, LoginLock
  PROVE  TypeOK'
<1>1. TableType'
  BY DEF TypeOK, TableType, AcceptorType, LoginLock, table
<1>2. AcceptorType'
  BY
  DEF TypeOK, AcceptorType, TableType, MutexHolder, LoginLock, acceptor,
      AcceptorLabels
<1>3. ThreadsType'
  BY DEF TypeOK, ThreadsType, TableType, LoginLock, threads, ThreadLabels
<1>4. NetworkType'
  BY
  DEF TypeOK, NetworkType, AcceptorType, ThreadsType, LoginLock, network,
      PeerStates
<1>5. MutexHolder'
  BY
  DEF TypeOK, TableType, AcceptorType, ThreadsType, MutexHolder, LoginLock,
      table, acceptor, threads
<1>6. QED
  BY <1>1, <1>2, <1>3, <1>4, <1>5 DEF TypeOK

LEMMA TypeLoginCount ==
  ASSUME TypeOK, LoginCount
  PROVE  TypeOK'
<1>1. TableType'
  BY DEF TypeOK, TableType, LoginCount, table
<1>2. AcceptorType'
  BY
  DEF TypeOK, AcceptorType, TableType, MutexHolder, LoginCount, acceptor,
      AcceptorLabels
<1>3. ThreadsType'
  BY DEF TypeOK, ThreadsType, TableType, LoginCount, threads, ThreadLabels
<1>4. NetworkType'
  BY
  DEF TypeOK, NetworkType, AcceptorType, ThreadsType, LoginCount, network,
      PeerStates
<1>5. MutexHolder'
  BY
  DEF TypeOK, TableType, AcceptorType, ThreadsType, MutexHolder, LoginCount,
      table, acceptor, threads
<1>6. QED
  BY <1>1, <1>2, <1>3, <1>4, <1>5 DEF TypeOK

LEMMA TypeLoginCreate ==
  ASSUME TypeOK, LoginCreate
  PROVE  TypeOK'
<1>1. TableType'
  BY DEF TypeOK, TableType, LoginCreate, Lowest, IdleThreads, table
<1>2. AcceptorType'
  BY
  DEF TypeOK, AcceptorType, TableType, MutexHolder, LoginCreate, Lowest,
      IdleThreads, acceptor, AcceptorLabels
<1>3. ThreadsType'
  BY
  DEF TypeOK, ThreadsType, AcceptorType, LoginCreate, Lowest, IdleThreads,
      threads, ThreadLabels
<1>4. NetworkType'
  BY WriteToType
  DEF TypeOK, NetworkType, AcceptorType, ThreadsType, LoginCreate, Lowest,
      IdleThreads, network, PeerStates
<1>5. MutexHolder'
  BY
  DEF TypeOK, TableType, AcceptorType, ThreadsType, MutexHolder, LoginCreate,
      Lowest, IdleThreads, table, acceptor, threads
<1>6. QED
  BY <1>1, <1>2, <1>3, <1>4, <1>5 DEF TypeOK

LEMMA TypeRead ==
  ASSUME TypeOK, NEW t \in Threads, Read(t)
  PROVE  TypeOK'
<1>1. TableType'
  BY DEF TypeOK, TableType, Read, At, table
<1>2. AcceptorType'
  BY
  DEF TypeOK, AcceptorType, TableType, MutexHolder, Read, At, acceptor,
      AcceptorLabels
<1>3. ThreadsType'
  BY ConnOfType
  DEF TypeOK, ThreadsType, TableType, Read, At, threads, ThreadLabels
<1>4. NetworkType'
  BY
  DEF TypeOK, NetworkType, AcceptorType, ThreadsType, Read, At, network,
      PeerStates
<1>5. MutexHolder'
  BY
  DEF TypeOK, TableType, AcceptorType, ThreadsType, MutexHolder, Read, At,
      table, acceptor, threads
<1>6. QED
  BY <1>1, <1>2, <1>3, <1>4, <1>5 DEF TypeOK

LEMMA TypeReadEnds ==
  ASSUME TypeOK, NEW t \in Threads, ReadEnds(t)
  PROVE  TypeOK'
<1>1. TableType'
  BY DEF TypeOK, TableType, ReadEnds, At, table
<1>2. AcceptorType'
  BY
  DEF TypeOK, AcceptorType, TableType, MutexHolder, ReadEnds, At, acceptor,
      AcceptorLabels
<1>3. ThreadsType'
  BY DEF TypeOK, ThreadsType, TableType, ReadEnds, At, threads, ThreadLabels
<1>4. NetworkType'
  BY
  DEF TypeOK, NetworkType, AcceptorType, ThreadsType, ReadEnds, At, network,
      PeerStates
<1>5. MutexHolder'
  BY
  DEF TypeOK, TableType, AcceptorType, ThreadsType, MutexHolder, ReadEnds, At,
      table, acceptor, threads
<1>6. QED
  BY <1>1, <1>2, <1>3, <1>4, <1>5 DEF TypeOK

LEMMA TypeReceive ==
  ASSUME TypeOK, NEW t \in Threads, Receive(t)
  PROVE  TypeOK'
<1>1. TableType'
  BY DEF TypeOK, TableType, Receive, At, table
<1>2. AcceptorType'
  BY
  DEF TypeOK, AcceptorType, TableType, MutexHolder, Receive, At, acceptor,
      AcceptorLabels
<1>3. ThreadsType'
  BY
  DEF TypeOK, ThreadsType, TableType, Receive, At, Recipients, threads,
      ThreadLabels
<1>4. NetworkType'
  BY TakeChunkType
  DEF TypeOK, NetworkType, AcceptorType, ThreadsType, Receive, At, network,
      PeerStates
<1>5. MutexHolder'
  BY
  DEF TypeOK, TableType, AcceptorType, ThreadsType, MutexHolder, Receive, At,
      table, acceptor, threads
<1>6. QED
  BY <1>1, <1>2, <1>3, <1>4, <1>5 DEF TypeOK

LEMMA TypeSend ==
  ASSUME TypeOK, NEW t \in Threads, Send(t)
  PROVE  TypeOK'
<1>1. TableType'
  BY DEF TypeOK, TableType, Send, At, Lowest, table
<1>2. AcceptorType'
  BY
  DEF TypeOK, AcceptorType, TableType, MutexHolder, Send, At, Lowest, acceptor,
      AcceptorLabels
<1>3. ThreadsType'
  <2>1. PICK s \in Slots :
          /\ Lowest(s, todo[t])
          /\ IF fd[s] # -1
             THEN pc' = [pc EXCEPT ![t] = "write"] /\ UNCHANGED todo
             ELSE todo' = [todo EXCEPT ![t] = @ \ {s}] /\ UNCHANGED pc
    BY DEF Send
  <2>2. CASE fd[s] # -1
    BY <2>1, <2>2
    DEF TypeOK, ThreadsType, Send, At, Lowest, threads, ThreadLabels
  <2>3. CASE fd[s] = -1
    BY <2>1, <2>3
    DEF TypeOK, ThreadsType, Send, At, Lowest, threads, ThreadLabels
  <2>4. QED
    BY <2>2, <2>3
<1>4. NetworkType'
  BY
  DEF TypeOK, NetworkType, AcceptorType, ThreadsType, Send, At, Lowest,
      network, PeerStates
<1>5. MutexHolder'
  BY
  DEF TypeOK, TableType, AcceptorType, ThreadsType, MutexHolder, Send, At,
      Lowest, table, acceptor, threads
<1>6. QED
  BY <1>1, <1>2, <1>3, <1>4, <1>5 DEF TypeOK

LEMMA TypeWrite ==
  ASSUME TypeOK, NEW t \in Threads, Write(t)
  PROVE  TypeOK'
<1>1. TableType'
  BY DEF TypeOK, TableType, Write, At, Lowest, table
<1>2. AcceptorType'
  BY
  DEF TypeOK, AcceptorType, TableType, MutexHolder, Write, At, Lowest,
      acceptor, AcceptorLabels
<1>3. ThreadsType'
  BY
  DEF TypeOK, ThreadsType, TableType, Write, At, Lowest, threads, ThreadLabels
<1>4. NetworkType'
  BY WriteToType
  DEF TypeOK, NetworkType, AcceptorType, ThreadsType, Write, At, Lowest,
      network, PeerStates
<1>5. MutexHolder'
  BY
  DEF TypeOK, TableType, AcceptorType, ThreadsType, MutexHolder, Write, At,
      Lowest, table, acceptor, threads
<1>6. QED
  BY <1>1, <1>2, <1>3, <1>4, <1>5 DEF TypeOK

LEMMA TypeSent ==
  ASSUME TypeOK, NEW t \in Threads, Sent(t)
  PROVE  TypeOK'
<1>1. TableType'
  BY DEF TypeOK, TableType, Sent, At, table
<1>2. AcceptorType'
  BY
  DEF TypeOK, AcceptorType, TableType, MutexHolder, Sent, At, acceptor,
      AcceptorLabels
<1>3. ThreadsType'
  BY DEF TypeOK, ThreadsType, TableType, Sent, At, threads, ThreadLabels
<1>4. NetworkType'
  BY
  DEF TypeOK, NetworkType, AcceptorType, ThreadsType, Sent, At, network,
      PeerStates
<1>5. MutexHolder'
  BY
  DEF TypeOK, TableType, AcceptorType, ThreadsType, MutexHolder, Sent, At,
      table, acceptor, threads
<1>6. QED
  BY <1>1, <1>2, <1>3, <1>4, <1>5 DEF TypeOK

LEMMA TypeClose ==
  ASSUME TypeOK, NEW t \in Threads, Close(t)
  PROVE  TypeOK'
<1>1. TableType'
  BY DEF TypeOK, TableType, Close, At, table
<1>2. AcceptorType'
  BY
  DEF TypeOK, AcceptorType, TableType, MutexHolder, Close, At, acceptor,
      AcceptorLabels
<1>3. ThreadsType'
  BY DEF TypeOK, ThreadsType, TableType, Close, At, threads, ThreadLabels
<1>4. NetworkType'
  BY
  DEF TypeOK, NetworkType, AcceptorType, ThreadsType, Close, At, network,
      PeerStates
<1>5. MutexHolder'
  BY
  DEF TypeOK, TableType, AcceptorType, ThreadsType, MutexHolder, Close, At,
      table, acceptor, threads
<1>6. QED
  BY <1>1, <1>2, <1>3, <1>4, <1>5 DEF TypeOK

LEMMA TypeLock ==
  ASSUME TypeOK, NEW t \in Threads, Lock(t)
  PROVE  TypeOK'
<1>1. TableType'
  BY DEF TypeOK, TableType, Lock, At, table
<1>2. AcceptorType'
  BY
  DEF TypeOK, AcceptorType, TableType, MutexHolder, Lock, At, acceptor,
      AcceptorLabels
<1>3. ThreadsType'
  BY DEF TypeOK, ThreadsType, TableType, Lock, At, threads, ThreadLabels
<1>4. NetworkType'
  BY
  DEF TypeOK, NetworkType, AcceptorType, ThreadsType, Lock, At, network,
      PeerStates
<1>5. MutexHolder'
  BY
  DEF TypeOK, TableType, AcceptorType, ThreadsType, MutexHolder, Lock, At,
      table, acceptor, threads
<1>6. QED
  BY <1>1, <1>2, <1>3, <1>4, <1>5 DEF TypeOK

LEMMA TypeClear ==
  ASSUME TypeOK, NEW t \in Threads, Clear(t)
  PROVE  TypeOK'
<1>1. TableType'
  BY DEF TypeOK, TableType, Clear, At, table
<1>2. AcceptorType'
  BY
  DEF TypeOK, AcceptorType, TableType, MutexHolder, Clear, At, acceptor,
      AcceptorLabels
<1>3. ThreadsType'
  BY DEF TypeOK, ThreadsType, TableType, Clear, At, threads, ThreadLabels
<1>4. NetworkType'
  BY
  DEF TypeOK, NetworkType, AcceptorType, ThreadsType, Clear, At, network,
      PeerStates
<1>5. MutexHolder'
  BY
  DEF TypeOK, TableType, AcceptorType, ThreadsType, MutexHolder, Clear, At,
      table, acceptor, threads
<1>6. QED
  BY <1>1, <1>2, <1>3, <1>4, <1>5 DEF TypeOK

LEMMA TypePeerConnect ==
  ASSUME TypeOK, NEW c \in Conns, PeerConnect(c)
  PROVE  TypeOK'
<1>1. TableType'
  BY DEF TypeOK, TableType, PeerConnect, table
<1>2. AcceptorType'
  BY
  DEF TypeOK, AcceptorType, TableType, MutexHolder, PeerConnect, acceptor,
      AcceptorLabels
<1>3. ThreadsType'
  BY DEF TypeOK, ThreadsType, TableType, PeerConnect, threads, ThreadLabels
<1>4. NetworkType'
  BY
  DEF TypeOK, NetworkType, AcceptorType, ThreadsType, PeerConnect, network,
      PeerStates
<1>5. MutexHolder'
  BY
  DEF TypeOK, TableType, AcceptorType, ThreadsType, MutexHolder, PeerConnect,
      table, acceptor, threads
<1>6. QED
  BY <1>1, <1>2, <1>3, <1>4, <1>5 DEF TypeOK

LEMMA TypePeerLogin ==
  ASSUME TypeOK, NEW c \in Conns, NEW s \in Registered \cup {NOBODY},
         PeerLogin(c, s)
  PROVE  TypeOK'
<1>1. TableType'
  BY DEF TypeOK, TableType, PeerLogin, table
<1>2. AcceptorType'
  BY
  DEF TypeOK, AcceptorType, TableType, MutexHolder, PeerLogin, acceptor,
      AcceptorLabels
<1>3. ThreadsType'
  BY DEF TypeOK, ThreadsType, TableType, PeerLogin, threads, ThreadLabels
<1>4. NetworkType'
  BY RegisteredAssumption
  DEF TypeOK, NetworkType, AcceptorType, ThreadsType, PeerLogin, Lines,
      network, PeerStates
<1>5. MutexHolder'
  BY
  DEF TypeOK, TableType, AcceptorType, ThreadsType, MutexHolder, PeerLogin,
      table, acceptor, threads
<1>6. QED
  BY <1>1, <1>2, <1>3, <1>4, <1>5 DEF TypeOK

LEMMA TypePeerSend ==
  ASSUME TypeOK, NEW c \in Conns, NEW s \in Registered \cup {ALL}, PeerSend(c, s)
  PROVE  TypeOK'
<1>1. TableType'
  BY DEF TypeOK, TableType, PeerSend, table
<1>2. AcceptorType'
  BY
  DEF TypeOK, AcceptorType, TableType, MutexHolder, PeerSend, acceptor,
      AcceptorLabels
<1>3. ThreadsType'
  BY DEF TypeOK, ThreadsType, TableType, PeerSend, threads, ThreadLabels
<1>4. NetworkType'
  BY
  DEF TypeOK, NetworkType, AcceptorType, ThreadsType, PeerSend, Lines, network,
      PeerStates
<1>5. MutexHolder'
  BY
  DEF TypeOK, TableType, AcceptorType, ThreadsType, MutexHolder, PeerSend,
      table, acceptor, threads
<1>6. QED
  BY <1>1, <1>2, <1>3, <1>4, <1>5 DEF TypeOK

LEMMA TypePeerClose ==
  ASSUME TypeOK, NEW c \in Conns, PeerClose(c)
  PROVE  TypeOK'
<1>1. TableType'
  BY DEF TypeOK, TableType, PeerClose, table
<1>2. AcceptorType'
  BY
  DEF TypeOK, AcceptorType, TableType, MutexHolder, PeerClose, acceptor,
      AcceptorLabels
<1>3. ThreadsType'
  BY DEF TypeOK, ThreadsType, TableType, PeerClose, threads, ThreadLabels
<1>4. NetworkType'
  BY
  DEF TypeOK, NetworkType, AcceptorType, ThreadsType, PeerClose, network,
      PeerStates
<1>5. MutexHolder'
  BY
  DEF TypeOK, TableType, AcceptorType, ThreadsType, MutexHolder, PeerClose,
      table, acceptor, threads
<1>6. QED
  BY <1>1, <1>2, <1>3, <1>4, <1>5 DEF TypeOK

-----------------------------------------------------------------------------
(* Type correctness. *)

LEMMA TypeInit == Init => TypeOK
<1> SUFFICES ASSUME Init PROVE TypeOK
  OBVIOUS
<1>1. TableType /\ MutexHolder
  BY DEF Init, TableType, MutexHolder
<1>2. AcceptorType
  BY DEF Init, AcceptorType, AcceptorLabels
<1>3. ThreadsType
  BY DEF Init, ThreadsType, ThreadLabels
<1>4. NetworkType
  BY DEF Init, NetworkType, PeerStates
<1>5. QED
  BY <1>1, <1>2, <1>3, <1>4 DEF TypeOK

LEMMA TypeNext == TypeOK /\ [Next]_vars => TypeOK'
<1> SUFFICES ASSUME TypeOK, [Next]_vars PROVE TypeOK'
  OBVIOUS
<1>1. CASE \E c \in Conns : PeerNext(c)
  BY <1>1, TypePeerConnect, TypePeerLogin, TypePeerSend, TypePeerClose
  DEF PeerNext
<1>2. CASE AcceptorNext
  BY <1>2, TypeAccept, TypeEnterRead, TypeLoginEnds, TypeLoginUnknown,
     TypeLoginRefused, TypeLoginMatched, TypeLoginLock,
     TypeLoginCount, TypeLoginCreate
  DEF AcceptorNext
<1>3. CASE \E t \in Threads : ThreadNext(t)
  BY <1>3, TypeRead, TypeReadEnds, TypeReceive, TypeSend, TypeWrite,
     TypeSent, TypeClose, TypeLock, TypeClear
  DEF ThreadNext
<1>4. CASE UNCHANGED vars
  BY <1>4 DEF TypeOK, TableType, AcceptorType, ThreadsType, NetworkType,
              MutexHolder, vars, table, acceptor, threads, network
<1>5. QED
  BY <1>1, <1>2, <1>3, <1>4 DEF Next

\* Every reachable state of the server is well typed, and the mutex is held
\* exactly by the party that is inside its critical section.
THEOREM TypeCorrect == Spec => []TypeOK
<1>1. Init => TypeOK
  BY TypeInit
<1>2. TypeOK /\ [Next]_vars => TypeOK'
  BY TypeNext
<1>3. QED
  BY <1>1, <1>2, PTL DEF Spec

-----------------------------------------------------------------------------
(* client_count. *)

CountInv == TypeOK /\ CountMatchesThreads

LEMMA CountedFinite ==
  /\ IsFiniteSet(Threads) /\ Cardinality(Threads) = CLIENT_MAX_COUNT
  /\ IsFiniteSet(Counted) /\ Cardinality(Counted) \in Nat
<1>1. IsFiniteSet(Threads) /\ Cardinality(Threads) = CLIENT_MAX_COUNT
  BY FS_Interval
<1>2. IsFiniteSet(Counted)
  BY <1>1, FS_Subset DEF Counted
<1>3. QED
  BY <1>1, <1>2, FS_CardinalityType

\* A step that leaves the count and the acceptor alone and moves threads only
\* between labels that count the same.
LEMMA CountUndisturbed ==
  ASSUME CountInv,
         client_count' = client_count, apc' = apc,
         \A t \in Threads :
           /\ pc'[t] = "idle" <=> pc[t] = "idle"
           /\ pc'[t] = "clear" <=> pc[t] = "clear"
  PROVE  CountMatchesThreads'
<1>1. Counted' = Counted /\ IdleThreads' = IdleThreads
  BY DEF Counted, IdleThreads
<1>2. QED
  BY <1>1 DEF CountInv, CountMatchesThreads

LEMMA CountPeers ==
  ASSUME CountInv, NEW c \in Conns, PeerNext(c) PROVE CountMatchesThreads'
BY CountUndisturbed
DEF PeerNext, PeerConnect, PeerLogin, PeerSend, PeerClose, table, acceptor,
    threads

\* The steps of a session up to the mutex.
LEMMA CountSession ==
  ASSUME CountInv, NEW t \in Threads,
         \/ Read(t) \/ ReadEnds(t) \/ Receive(t) \/ Send(t) \/ Write(t)
         \/ Sent(t) \/ Close(t)
  PROVE  CountMatchesThreads'
<1>1. client_count' = client_count /\ apc' = apc
  BY DEF Read, ReadEnds, Receive, Send, Write, Sent, Close, table, acceptor
<1>2. pc[t] \notin {"idle", "clear"}
  BY DEF Read, ReadEnds, Receive, Send, Write, Sent, Close, At
<1>3. \/ pc' = pc
      \/ \E l \in ThreadLabels \ {"idle", "clear"} : pc' = [pc EXCEPT ![t] = l]
  BY DEF Read, ReadEnds, Receive, Send, Write, Sent, Close, ThreadLabels
<1>4. pc \in [Threads -> ThreadLabels]
  BY DEF CountInv, TypeOK, ThreadsType
<1>5. QED
  BY <1>1, <1>2, <1>3, <1>4, CountUndisturbed

\* client_count-- and the end of the thread.
LEMMA CountLock ==
  ASSUME CountInv, NEW t \in Threads, Lock(t) PROVE CountMatchesThreads'
<1>1. Counted' = Counted \ {t} /\ IdleThreads' = IdleThreads /\ t \in Counted
  BY DEF Counted, IdleThreads, Lock, At, CountInv, TypeOK, ThreadsType,
         ThreadLabels
<1>2. Cardinality(Counted') = Cardinality(Counted) - 1
  BY <1>1, CountedFinite, FS_RemoveElement
<1>3. Cardinality(Counted) >= 1
  BY <1>1, CountedFinite, FS_EmptySet
<1>4. QED
  BY <1>1, <1>2, <1>3, CountedFinite
  DEF CountInv, CountMatchesThreads, Lock, acceptor

LEMMA CountClear ==
  ASSUME CountInv, NEW t \in Threads, Clear(t) PROVE CountMatchesThreads'
<1>1. Counted' = Counted /\ IdleThreads \subseteq IdleThreads'
  BY DEF Counted, IdleThreads, Clear, At, CountInv, TypeOK, ThreadsType,
         ThreadLabels
<1>2. QED
  BY <1>1 DEF CountInv, CountMatchesThreads, Clear, acceptor

\* The acceptor up to client_count++: it tests the count before it goes on.
LEMMA CountAcceptor ==
  ASSUME CountInv,
         \/ Accept \/ EnterRead \/ LoginEnds \/ LoginUnknown \/ LoginRefused
         \/ LoginMatched \/ LoginLock
  PROVE  CountMatchesThreads'
<1>1. pc' = pc /\ client_count' = client_count
  BY DEF Accept, EnterRead, LoginEnds, LoginUnknown, LoginRefused,
         LoginMatched, LoginLock, table, threads
<1>2. Counted' = Counted /\ IdleThreads' = IdleThreads
  BY <1>1 DEF Counted, IdleThreads
<1>3. apc # "create" /\ apc' # "create"
  BY DEF Accept, EnterRead, LoginEnds, LoginUnknown, LoginRefused,
         LoginMatched, LoginLock, LoginRead
<1>4. apc' \in {"enter", "read", "lock", "count"} =>
        client_count < CLIENT_MAX_COUNT
  BY DEF CountInv, CountMatchesThreads, Accept, EnterRead, LoginEnds,
         LoginUnknown, LoginRefused, LoginMatched, LoginLock, LoginRead
<1>5. QED
  BY <1>1, <1>2, <1>3, <1>4 DEF CountInv, CountMatchesThreads

\* client_count++ under the mutex: nobody is leaving, so fewer threads than
\* there are live ones, and one is left for the new session.
LEMMA CountLoginCount ==
  ASSUME CountInv, LoginCount PROVE CountMatchesThreads'
<1>1. Counted' = Counted /\ IdleThreads' = IdleThreads
  BY DEF Counted, IdleThreads, LoginCount, threads
<1>2. client_count = Cardinality(Counted) /\ client_count < CLIENT_MAX_COUNT
  BY CountedFinite DEF CountInv, CountMatchesThreads, LoginCount
<1>3. IdleThreads # {}
  <2> SUFFICES ASSUME IdleThreads = {} PROVE FALSE
    OBVIOUS
  <2>1. \A t \in Threads : pc[t] # "clear"
    BY DEF CountInv, TypeOK, MutexHolder, LoginCount
  <2>2. Counted = Threads
    BY <2>1 DEF Counted, IdleThreads
  <2>3. QED
    BY <1>2, <2>2, CountedFinite
<1>4. QED
  BY <1>1, <1>2, <1>3, CountedFinite
  DEF CountInv, CountMatchesThreads, LoginCount

LEMMA CountLoginCreate ==
  ASSUME CountInv, LoginCreate PROVE CountMatchesThreads'
<1>1. PICK t \in Threads : pc[t] = "idle" /\ pc' = [pc EXCEPT ![t] = "read"]
  BY DEF LoginCreate, Lowest, IdleThreads
<1>2. Counted' = Counted \cup {t} /\ t \notin Counted
  BY <1>1 DEF Counted, CountInv, TypeOK, ThreadsType, ThreadLabels
<1>3. Cardinality(Counted') = Cardinality(Counted) + 1
  BY <1>2, CountedFinite, FS_AddElement
<1>4. QED
  BY <1>3 DEF CountInv, CountMatchesThreads, LoginCreate, table

LEMMA CountNext == CountInv /\ [Next]_vars => CountMatchesThreads'
<1> SUFFICES ASSUME CountInv, [Next]_vars PROVE CountMatchesThreads'
  OBVIOUS
<1>1. CASE \E c \in Conns : PeerNext(c)
  BY <1>1, CountPeers
<1>2. CASE AcceptorNext
  BY <1>2, CountAcceptor, CountLoginCount, CountLoginCreate DEF AcceptorNext
<1>3. CASE \E t \in Threads : ThreadNext(t)
  BY <1>3, CountSession, CountLock, CountClear DEF ThreadNext
<1>4. CASE UNCHANGED vars
  BY <1>4, CountUndisturbed DEF vars, table, acceptor, threads
<1>5. QED
  BY <1>1, <1>2, <1>3, <1>4 DEF Next

\* client_count is the number of sessions that have not left yet, never passes
\* CLIENT_MAX_COUNT, and leaves room for the thread about to be created.
THEOREM CountCorrect == Spec => []CountMatchesThreads
<1>1. Init => CountInv
  <2> SUFFICES ASSUME Init PROVE CountMatchesThreads
    BY TypeInit DEF CountInv
  <2>1. Counted = {}
    BY DEF Init, Counted
  <2>2. QED
    BY <2>1, FS_EmptySet DEF Init, CountMatchesThreads
<1>2. CountInv /\ [Next]_vars => CountInv'
  BY TypeNext, CountNext DEF CountInv
<1>3. CountInv => CountMatchesThreads
  BY DEF CountInv
<1>4. QED
  BY <1>1, <1>2, <1>3, PTL DEF Spec

-----------------------------------------------------------------------------
(* Slots that are taken. *)

\* A connection in the listen queue is there once, is not in use by the server
\* and has logged in nowhere.
QueueInv ==
  /\ \A i, j \in DOMAIN backlog : backlog[i] = backlog[j] => i = j
  /\ \A c \in Conns : Waiting(c) => ~InUse(c) /\ login[c] = NOBODY

AttendedInv == TypeOK /\ QueueInv /\ TakenSlotAttended

\* The queue is left alone, and the server takes up only connections that are
\* not in it.
LEMMA QueueUndisturbed ==
  ASSUME TypeOK, QueueInv, backlog' = backlog,
         \A c \in Conns : Waiting(c) => ~InUse(c)' /\ login'[c] = login[c]
  PROVE  QueueInv'
BY DEF QueueInv, Waiting

LEMMA QueueConnect ==
  ASSUME TypeOK, QueueInv, NEW c \in Conns, PeerConnect(c) PROVE QueueInv'
<1>1. backlog \in Seq(Conns) /\ backlog' = Append(backlog, c) /\ ~Waiting(c)
  BY DEF TypeOK, NetworkType, PeerConnect, Reusable
<1>2. /\ DOMAIN backlog' = 1 .. Len(backlog) + 1
      /\ \A i \in 1 .. Len(backlog) : backlog'[i] = backlog[i]
      /\ backlog'[Len(backlog) + 1] = c
      /\ DOMAIN backlog = 1 .. Len(backlog)
  BY <1>1
<1>3. \A i, j \in DOMAIN backlog' : backlog'[i] = backlog'[j] => i = j
  BY <1>1, <1>2 DEF QueueInv, Waiting
<1>4. \A d \in Conns : Waiting(d)' => Waiting(d) \/ d = c
  BY <1>1, <1>2 DEF Waiting
<1>5. \A d \in Conns : InUse(d)' <=> InUse(d)
  BY DEF PeerConnect, InUse, threads, acceptor
<1>6. \A d \in Conns : Waiting(d)' => ~InUse(d)' /\ login'[d] = NOBODY
  BY <1>4, <1>5
  DEF QueueInv, PeerConnect, Reusable, TypeOK, NetworkType
<1>7. QED
  BY <1>3, <1>6 DEF QueueInv

LEMMA QueueAccept ==
  ASSUME TypeOK, QueueInv, Accept PROVE QueueInv'
<1>1. backlog \in Seq(Conns) /\ backlog # <<>> /\ backlog' = Tail(backlog)
  BY DEF TypeOK, NetworkType, Accept
<1>2. /\ DOMAIN backlog = 1 .. Len(backlog) /\ Len(backlog) \in Nat \ {0}
      /\ DOMAIN backlog' = 1 .. Len(backlog) - 1
      /\ \A i \in DOMAIN backlog' : backlog'[i] = backlog[i + 1]
      /\ Head(backlog) = backlog[1]
  BY <1>1, HeadTailProperties
<1>3. \A i, j \in DOMAIN backlog' : backlog'[i] = backlog'[j] => i = j
  <2> SUFFICES ASSUME NEW i \in DOMAIN backlog', NEW j \in DOMAIN backlog',
                      backlog'[i] = backlog'[j]
               PROVE  i = j
    OBVIOUS
  <2>1. i + 1 \in DOMAIN backlog /\ j + 1 \in DOMAIN backlog
    BY <1>2
  <2>2. i + 1 = j + 1
    BY <1>2, <2>1 DEF QueueInv
  <2>3. QED
    BY <1>2, <2>2
<1>4. \A d \in Conns : Waiting(d)' => Waiting(d) /\ d # Head(backlog)
  <2> SUFFICES ASSUME NEW d \in Conns, NEW i \in DOMAIN backlog',
                      backlog'[i] = d
               PROVE  Waiting(d) /\ d # Head(backlog)
    BY DEF Waiting
  <2>1. i + 1 \in DOMAIN backlog /\ 1 \in DOMAIN backlog /\ i + 1 # 1
        /\ backlog[i + 1] = d
    BY <1>2
  <2>2. QED
    BY <1>2, <2>1 DEF QueueInv, Waiting
<1>5. \A d \in Conns : InUse(d)' => InUse(d) \/ d = Head(backlog)
  BY NoConnAssumption
  DEF Accept, InUse, threads, TypeOK, NetworkType
<1>6. \A d \in Conns : Waiting(d)' => ~InUse(d)' /\ login'[d] = NOBODY
  BY <1>4, <1>5 DEF QueueInv, Accept
<1>7. QED
  BY <1>3, <1>6 DEF QueueInv

\* Every other step takes up a connection only through a descriptor.
LEMMA QueueOthers ==
  ASSUME TypeOK, QueueInv,
         \/ EnterRead \/ LoginEnds \/ LoginUnknown \/ LoginRefused
         \/ LoginMatched \/ LoginLock \/ LoginCount \/ LoginCreate
         \/ \E t \in Threads : ThreadNext(t)
         \/ \E c \in Conns : \E s :
              PeerLogin(c, s) \/ PeerSend(c, s) \/ PeerClose(c)
         \/ UNCHANGED vars
  PROVE  QueueInv'
<1>1. backlog' = backlog
  BY DEF EnterRead, LoginEnds, LoginUnknown, LoginRefused, LoginMatched,
         LoginLock, LoginCount, LoginCreate, ThreadNext, Read, ReadEnds,
         Receive, Send, Write, Sent, Close, Lock, Clear, PeerLogin, PeerSend,
         PeerClose, vars, network
<1>2. \A c \in Conns : Waiting(c) => login'[c] = login[c]
  BY DEF EnterRead, LoginEnds, LoginUnknown, LoginRefused, LoginMatched,
         LoginRead, LoginLock, LoginCount, LoginCreate, ThreadNext, Read,
         ReadEnds, Receive, Send, Write, Sent, Close, Lock, Clear, PeerLogin,
         PeerSend, PeerClose, vars, network, QueueInv, InUse, TypeOK,
         NetworkType
<1>3. /\ \A f \in Fds : open'[f] \in {open[f], NoConn}
      /\ aconn' \in {aconn, NoConn, ConnOf(afd)}
      /\ \A t \in Threads :
           reading'[t] \in {reading[t], NoConn, ConnOf(fd[slot[t]])}
  <2>1. CASE \E t \in Threads : ThreadNext(t)
    <3>1. PICK t \in Threads : ThreadNext(t)
      BY <2>1
    <3>2. aconn' = aconn
      BY <3>1 DEF ThreadNext, Read, ReadEnds, Receive, Send, Write, Sent,
                  Close, Lock, Clear, acceptor
    <3>3. open' = open \/ Close(t)
      BY <3>1 DEF ThreadNext, Read, ReadEnds, Receive, Send, Write, Sent, Lock,
                  Clear, network
    <3>4. \A f \in Fds : open'[f] \in {open[f], NoConn}
      BY <3>3 DEF Close, TypeOK, NetworkType
    <3>5. \E c \in {reading[t], NoConn, ConnOf(fd[slot[t]])} :
            reading' = [reading EXCEPT ![t] = c]
      BY <3>1 DEF ThreadNext, Read, ReadEnds, Receive, Send, Write, Sent,
                  Close, Lock, Clear, TypeOK, ThreadsType
    <3>6. QED
      BY <3>2, <3>4, <3>5 DEF TypeOK, ThreadsType
  <2>2. CASE \/ EnterRead \/ LoginEnds \/ LoginUnknown \/ LoginRefused
             \/ LoginMatched \/ LoginLock \/ LoginCount \/ LoginCreate
    BY <2>2
    DEF EnterRead, LoginEnds, LoginUnknown, LoginRefused, LoginMatched,
        LoginRead, LoginLock, LoginCount, LoginCreate, threads, network
  <2>3. CASE \/ \E c \in Conns : \E s : \/ PeerLogin(c, s) \/ PeerSend(c, s)
                                  \/ PeerClose(c)
             \/ UNCHANGED vars
    BY <2>3
    DEF PeerLogin, PeerSend, PeerClose, vars, acceptor, threads, network
  <2>4. QED
    BY <2>1, <2>2, <2>3
<1>4. \A c \in Conns : Waiting(c) => ~InUse(c)'
  BY <1>3, NoConnAssumption DEF QueueInv, InUse, ConnOf
<1>5. QED
  BY <1>1, <1>2, <1>4, QueueUndisturbed

LEMMA QueueNext == TypeOK /\ QueueInv /\ [Next]_vars => QueueInv'
BY QueueConnect, QueueAccept, QueueOthers
DEF Next, PeerNext, AcceptorNext

\* A thread that attends to a slot goes on attending while it is not the one
\* that moves, as long as the slot's number and its client change only from the
\* slot's own client to something else.
LEMMA AttendsOthers ==
  ASSUME NEW t \in Threads, NEW s \in Slots, Attends(t, s),
         pc'[t] = pc[t], slot'[t] = slot[t], reading'[t] = reading[t],
         HoldsOwn(s)' => HoldsOwn(s) /\ ConnOf(fd[s])' = ConnOf(fd[s])
  PROVE  Attends(t, s)'
BY DEF Attends, Live

\* A step that touches no thread and no slot.
LEMMA AttendedUndisturbed ==
  ASSUME TakenSlotAttended,
         fd' = fd, pc' = pc, slot' = slot, reading' = reading,
         apc \in {"count", "create"} =>
           apc' \in {"count", "create"} /\ aslot' = aslot,
         \A s \in Slots : fd[s] # -1 =>
           (HoldsOwn(s)' => HoldsOwn(s) /\ ConnOf(fd[s])' = ConnOf(fd[s]))
  PROVE  TakenSlotAttended'
<1> SUFFICES ASSUME NEW s \in Slots, fd'[s] # -1,
                    ~(apc' \in {"count", "create"} /\ aslot' = s)
             PROVE  \E t \in Threads : Attends(t, s)'
  BY DEF TakenSlotAttended
<1>1. PICK t \in Threads : Attends(t, s)
  BY DEF TakenSlotAttended
<1>2. QED
  BY <1>1, AttendsOthers

LEMMA AttendedPeers ==
  ASSUME AttendedInv, NEW c \in Conns, PeerNext(c) PROVE TakenSlotAttended'
<1>1. /\ fd' = fd /\ open' = open /\ apc' = apc /\ aslot' = aslot
      /\ pc' = pc /\ slot' = slot /\ reading' = reading
  BY DEF PeerNext, PeerConnect, PeerLogin, PeerSend, PeerClose, table,
         acceptor, threads
<1>2. login' = login \/ login' = [login EXCEPT ![c] = NOBODY]
  BY DEF PeerNext, PeerConnect, PeerLogin, PeerSend, PeerClose
<1>3. \A s \in Slots : ConnOf(fd[s])' = ConnOf(fd[s])
  BY <1>1 DEF ConnOf
<1>4. \A s \in Slots : HoldsOwn(s)' => HoldsOwn(s)
  BY <1>2, <1>3, ConnOfType, NamesAssumption
  DEF HoldsOwn, AttendedInv, TypeOK, NetworkType
<1>5. QED
  BY <1>1, <1>3, <1>4, AttendedUndisturbed DEF AttendedInv

\* accept() may put a new connection behind a number that some slot still
\* holds, but that connection is not the slot's own client.
LEMMA AttendedAccept ==
  ASSUME AttendedInv, Accept PROVE TakenSlotAttended'
<1>1. Head(backlog) \in Conns /\ Waiting(Head(backlog))
  <2>1. backlog \in Seq(Conns) /\ backlog # <<>>
    BY DEF AttendedInv, TypeOK, NetworkType, Accept
  <2>2. 1 \in DOMAIN backlog /\ Head(backlog) = backlog[1]
    BY <2>1
  <2>3. QED
    BY <2>1, <2>2, HeadTailProperties DEF Waiting
<1>2. login[Head(backlog)] = NOBODY
  BY <1>1 DEF AttendedInv, QueueInv
<1>3. PICK f \in Fds : open' = [open EXCEPT ![f] = Head(backlog)]
  BY DEF Accept
<1>4. /\ fd' = fd /\ login' = login /\ apc \notin {"count", "create"}
      /\ pc' = pc /\ slot' = slot /\ reading' = reading
  BY DEF Accept, table, threads
<1>5. \A s \in Slots : HoldsOwn(s)' =>
        HoldsOwn(s) /\ ConnOf(fd[s])' = ConnOf(fd[s])
  <2> SUFFICES ASSUME NEW s \in Slots, HoldsOwn(s)'
               PROVE  HoldsOwn(s) /\ ConnOf(fd[s])' = ConnOf(fd[s])
    OBVIOUS
  <2>1. CASE fd[s] = f
    <3>1. ConnOf(fd[s])' = Head(backlog)
      BY <1>3, <1>4, <2>1 DEF ConnOf, AttendedInv, TypeOK, NetworkType
    <3>2. QED
      BY <3>1, <1>2, <1>4, NamesAssumption DEF HoldsOwn
  <2>2. CASE fd[s] # f
    <3>1. ConnOf(fd[s])' = ConnOf(fd[s])
      BY <1>3, <1>4, <2>2 DEF ConnOf, AttendedInv, TypeOK, NetworkType
    <3>2. QED
      BY <3>1, <1>4 DEF HoldsOwn
  <2>3. QED
    BY <2>1, <2>2
<1>6. QED
  BY <1>4, <1>5, AttendedUndisturbed DEF AttendedInv

LEMMA AttendedLogin ==
  ASSUME AttendedInv,
         EnterRead \/ LoginEnds \/ LoginUnknown \/ LoginCount
  PROVE  TakenSlotAttended'
<1>1. /\ fd' = fd /\ open' = open /\ login' = login
      /\ pc' = pc /\ slot' = slot /\ reading' = reading
      /\ apc \in {"count", "create"} =>
           apc' \in {"count", "create"} /\ aslot' = aslot
  BY DEF EnterRead, LoginEnds, LoginUnknown, LoginRead, LoginCount, table,
         threads, network
<1>2. \A s \in Slots : /\ ConnOf(fd[s])' = ConnOf(fd[s])
                       /\ HoldsOwn(s)' => HoldsOwn(s)
  BY <1>1 DEF ConnOf, HoldsOwn
<1>3. QED
  BY <1>1, <1>2, AttendedUndisturbed DEF AttendedInv

\* The refused login clears the slot it was for.
LEMMA AttendedRefused ==
  ASSUME AttendedInv, LoginRefused PROVE TakenSlotAttended'
<1>1. PICK r \in Slots : fd' = [fd EXCEPT ![r] = -1]
  BY DEF LoginRefused
<1>2. /\ open' = open /\ login' = login /\ pc' = pc /\ slot' = slot
      /\ reading' = reading /\ apc \notin {"count", "create"}
  BY DEF LoginRefused, LoginRead, threads
<1>3. fd \in [Slots -> Fds \cup {-1}]
  BY DEF AttendedInv, TypeOK, TableType
<1>4. SUFFICES ASSUME NEW s \in Slots, fd'[s] # -1
               PROVE  \E t \in Threads : Attends(t, s)'
  BY DEF TakenSlotAttended
<1>5. fd'[s] = fd[s]
  BY <1>1, <1>3, <1>4
<1>6. PICK t \in Threads : Attends(t, s)
  BY <1>2, <1>4, <1>5 DEF AttendedInv, TakenSlotAttended
<1>7. ConnOf(fd[s])' = ConnOf(fd[s]) /\ (HoldsOwn(s)' => HoldsOwn(s))
  BY <1>2, <1>5 DEF ConnOf, HoldsOwn
<1>8. QED
  BY <1>2, <1>6, <1>7, AttendsOthers

\* The login gives the connection to a slot that is free.
LEMMA AttendedMatched ==
  ASSUME AttendedInv, LoginMatched PROVE TakenSlotAttended'
<1>1. PICK r \in Slots : fd[r] = -1 /\ login' = [login EXCEPT ![aconn] = r]
  BY DEF LoginMatched
<1>2. /\ fd' = fd /\ open' = open /\ pc' = pc /\ slot' = slot
      /\ reading' = reading /\ apc \notin {"count", "create"}
  BY DEF LoginMatched, LoginRead, table, threads
<1>3. \A s \in Slots : fd[s] # -1 =>
        (HoldsOwn(s)' => HoldsOwn(s) /\ ConnOf(fd[s])' = ConnOf(fd[s]))
  BY <1>1, <1>2, ConnOfType
  DEF ConnOf, HoldsOwn, AttendedInv, TypeOK, NetworkType
<1>4. QED
  BY <1>2, <1>3, AttendedUndisturbed DEF AttendedInv

LEMMA AttendedLock ==
  ASSUME AttendedInv, LoginLock PROVE TakenSlotAttended'
<1>1. /\ fd' = [fd EXCEPT ![aslot] = afd] /\ aslot' = aslot
      /\ open' = open /\ login' = login /\ pc' = pc /\ slot' = slot
      /\ reading' = reading /\ apc \notin {"count", "create"}
      /\ apc' = "count"
  BY DEF LoginLock, threads, network
<1>2. fd \in [Slots -> Fds \cup {-1}]
  BY DEF AttendedInv, TypeOK, TableType
<1>3. SUFFICES ASSUME NEW s \in Slots, fd'[s] # -1, s # aslot
               PROVE  \E t \in Threads : Attends(t, s)'
  BY <1>1 DEF TakenSlotAttended
<1>4. fd'[s] = fd[s]
  BY <1>1, <1>2, <1>3
<1>5. PICK t \in Threads : Attends(t, s)
  BY <1>1, <1>3, <1>4 DEF AttendedInv, TakenSlotAttended
<1>6. ConnOf(fd[s])' = ConnOf(fd[s]) /\ (HoldsOwn(s)' => HoldsOwn(s))
  BY <1>1, <1>4 DEF ConnOf, HoldsOwn
<1>7. QED
  BY <1>1, <1>5, <1>6, AttendsOthers

\* The new thread attends to the slot it is created for.
LEMMA AttendedCreate ==
  ASSUME AttendedInv, LoginCreate PROVE TakenSlotAttended'
<1>1. PICK u \in Threads : /\ pc[u] = "idle"
                           /\ pc' = [pc EXCEPT ![u] = "read"]
                           /\ slot' = [slot EXCEPT ![u] = aslot]
  BY DEF LoginCreate, Lowest, IdleThreads
<1>2. fd' = fd /\ open' = open /\ login' = login /\ reading' = reading
  BY DEF LoginCreate, table
<1>3. /\ pc \in [Threads -> ThreadLabels] /\ slot \in [Threads -> Slots]
  BY DEF AttendedInv, TypeOK, ThreadsType
<1>4. SUFFICES ASSUME NEW s \in Slots, fd[s] # -1
               PROVE  \E t \in Threads : Attends(t, s)'
  BY <1>2 DEF TakenSlotAttended
<1>5. CASE aslot = s
  BY <1>1, <1>3, <1>5 DEF Attends, Live
<1>6. CASE aslot # s
  <2>1. PICK t \in Threads : Attends(t, s)
    BY <1>4, <1>6 DEF AttendedInv, TakenSlotAttended
  <2>2. t # u
    BY <1>1, <2>1 DEF Attends, Live
  <2>3. HoldsOwn(s)' => HoldsOwn(s) /\ ConnOf(fd[s])' = ConnOf(fd[s])
    BY <1>2 DEF HoldsOwn, ConnOf
  <2>4. QED
    BY <1>1, <1>2, <1>3, <2>1, <2>2, <2>3, AttendsOthers
<1>7. QED
  BY <1>5, <1>6

\* A step of a live thread that stays live.
LEMMA AttendedSession ==
  ASSUME AttendedInv, NEW t \in Threads,
         \/ Read(t) \/ ReadEnds(t) \/ Receive(t) \/ Send(t) \/ Write(t)
         \/ Sent(t) \/ Close(t) \/ Lock(t)
  PROVE  TakenSlotAttended'
<1>1. /\ fd' = fd /\ login' = login /\ slot' = slot
      /\ apc' = apc /\ aslot' = aslot
  BY DEF Read, ReadEnds, Receive, Send, Write, Sent, Close, Lock, table,
         acceptor
<1>2. /\ Live(t) /\ Live(t)'
      /\ pc'[t] = "blocked" =>
           reading'[t] = ConnOf(fd[slot[t]]) /\ open' = open
  BY DEF Read, ReadEnds, Receive, Send, Write, Sent, Close, Lock, At, Live,
         AttendedInv, TypeOK, ThreadsType, network
<1>3. \A u \in Threads \ {t} : pc'[u] = pc[u] /\ reading'[u] = reading[u]
  BY DEF Read, ReadEnds, Receive, Send, Write, Sent, Close, Lock,
         AttendedInv, TypeOK, ThreadsType
<1>4. open' = open \/ \E f : open' = [open EXCEPT ![f] = NoConn]
  BY DEF Read, ReadEnds, Receive, Send, Write, Sent, Close, Lock, network
<1>5. \A s \in Slots : HoldsOwn(s)' =>
        HoldsOwn(s) /\ ConnOf(fd[s])' = ConnOf(fd[s])
  BY <1>1, <1>4 DEF HoldsOwn, ConnOf, AttendedInv, TypeOK, NetworkType
<1>6. SUFFICES ASSUME NEW s \in Slots, fd[s] # -1,
                      ~(apc \in {"count", "create"} /\ aslot = s)
               PROVE  \E u \in Threads : Attends(u, s)'
  BY <1>1 DEF TakenSlotAttended
<1>7. PICK u \in Threads : Attends(u, s)
  BY <1>6 DEF AttendedInv, TakenSlotAttended
<1>8. CASE u = t
  BY <1>1, <1>2, <1>7, <1>8 DEF Attends, ConnOf
<1>9. CASE u # t
  BY <1>1, <1>3, <1>5, <1>7, <1>9, AttendsOthers
<1>10. QED
  BY <1>8, <1>9

\* The thread that ends clears its own slot.
LEMMA AttendedClear ==
  ASSUME AttendedInv, NEW t \in Threads, Clear(t) PROVE TakenSlotAttended'
<1>1. /\ fd' = [fd EXCEPT ![slot[t]] = -1]
      /\ open' = open /\ login' = login /\ reading' = reading
      /\ apc' = apc /\ aslot' = aslot
  BY DEF Clear, acceptor, network
<1>2. \A u \in Threads \ {t} : pc'[u] = pc[u] /\ slot'[u] = slot[u]
  BY DEF Clear, AttendedInv, TypeOK, ThreadsType
<1>3. fd \in [Slots -> Fds \cup {-1}] /\ slot[t] \in Slots
  BY DEF AttendedInv, TypeOK, TableType, ThreadsType
<1>4. SUFFICES ASSUME NEW s \in Slots, fd'[s] # -1,
                      ~(apc \in {"count", "create"} /\ aslot = s)
               PROVE  \E u \in Threads : Attends(u, s)'
  BY <1>1 DEF TakenSlotAttended
<1>5. fd'[s] = fd[s] /\ s # slot[t]
  BY <1>1, <1>3, <1>4
<1>6. PICK u \in Threads : Attends(u, s)
  BY <1>4, <1>5 DEF AttendedInv, TakenSlotAttended
<1>7. u # t
  BY <1>5, <1>6 DEF Attends
<1>8. HoldsOwn(s)' => HoldsOwn(s) /\ ConnOf(fd[s])' = ConnOf(fd[s])
  BY <1>1, <1>5 DEF HoldsOwn, ConnOf
<1>9. QED
  BY <1>1, <1>2, <1>6, <1>7, <1>8, AttendsOthers

LEMMA AttendedNext == AttendedInv /\ [Next]_vars => TakenSlotAttended'
<1> SUFFICES ASSUME AttendedInv, [Next]_vars PROVE TakenSlotAttended'
  OBVIOUS
<1>1. CASE \E c \in Conns : PeerNext(c)
  BY <1>1, AttendedPeers
<1>2. CASE AcceptorNext
  BY <1>2, AttendedAccept, AttendedLogin, AttendedRefused, AttendedMatched,
     AttendedLock, AttendedCreate
  DEF AcceptorNext
<1>3. CASE \E t \in Threads : ThreadNext(t)
  BY <1>3, AttendedSession, AttendedClear DEF ThreadNext
<1>4. CASE UNCHANGED vars
  BY <1>4 DEF AttendedInv, TakenSlotAttended, Attends, Live, HoldsOwn, ConnOf,
              vars, table, acceptor, threads, network
<1>5. QED
  BY <1>1, <1>2, <1>3, <1>4 DEF Next

\* Whatever the clients do, a taken slot has a thread that will look at it
\* again, on the slot's own connection if the slot still stands for one.
THEOREM AttendedCorrect == Spec => []TakenSlotAttended
<1>1. Init => AttendedInv
  <2>1. Init => QueueInv /\ TakenSlotAttended
    BY DEF Init, QueueInv, Waiting, TakenSlotAttended
  <2>2. QED
    BY <2>1, TypeInit DEF AttendedInv
<1>2. AttendedInv /\ [Next]_vars => AttendedInv'
  BY TypeNext, QueueNext, AttendedNext DEF AttendedInv
<1>3. AttendedInv => TakenSlotAttended
  BY DEF AttendedInv
<1>4. QED
  BY <1>1, <1>2, <1>3, PTL DEF Spec

==============================================================================
