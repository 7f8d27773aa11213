---------------------------- MODULE SessionProofs ----------------------------
(***************************************************************************)
(* Proofs about the sessions of CmsServer, for every value of its          *)
(* constants and whatever the clients do, as long as no login is refused   *)
(* because its slot is taken (NoEviction): sessions stay apart, each has a *)
(* thread that serves it, and the server implements Relay.                 *)
(***************************************************************************)
EXTENDS CmsServerProofs

USE CountAssumption, NoConnAssumption DEF Slots, Fds, Threads, Acceptor, Nobody

-----------------------------------------------------------------------------
(* The invariant. *)

LoggingIn == apc \in {"lock", "count", "create"}

\* The number in the acceptor's hands stands for the connection that it accepts
\* or logs in, to a slot that has no thread.
AcceptorInv ==
  /\ apc \in {"enter", "read"} =>
       ConnOf(afd) \in Conns /\ login[ConnOf(afd)] = NOBODY
  /\ apc = "read" => aconn = ConnOf(afd)
  /\ LoggingIn => ConnOf(afd) \in Conns /\ login[ConnOf(afd)] = aslot
  /\ apc = "lock" => fd[aslot] = -1
  /\ apc \in {"count", "create"} => fd[aslot] = afd
  /\ LoggingIn => \A t \in Threads : Live(t) => slot[t] # aslot

\* A thread has a slot to itself, which is taken; it is blocked on the slot's
\* own connection, and closes one that has ended.
SessionInv ==
  /\ \A t \in Threads : Live(t) => fd[slot[t]] # -1
  /\ OneThreadPerSlot
  /\ SlotHoldsItsClient
  /\ \A t \in Threads : pc[t] = "blocked" => reading[t] = ConnOf(fd[slot[t]])
  /\ \A t \in Threads : pc[t] = "close" => Ended(ConnOf(fd[slot[t]]))

Inv == TypeOK /\ CountMatchesThreads /\ QueueInv /\ AcceptorInv /\ SessionInv

-----------------------------------------------------------------------------
(* What the invariant says of one connection, one thread, one number. *)

\* Until it has closed its descriptor, a thread's slot holds its own client.
LEMMA ThreadHolds ==
  ASSUME TypeOK, SessionInv, NEW t \in Threads, Live(t),
         pc[t] \notin {"lock", "clear"}
  PROVE  /\ fd[slot[t]] \in Fds
         /\ HoldsOwn(slot[t])
         /\ ConnOf(fd[slot[t]]) \in Conns
         /\ InUse(ConnOf(fd[slot[t]]))
<1>1. slot[t] \in Slots /\ fd[slot[t]] \in Fds
  BY DEF TypeOK, TableType, ThreadsType, SessionInv
<1>2. \A u \in Threads : ~(slot[u] = slot[t] /\ pc[u] \in {"lock", "clear"})
  BY DEF SessionInv, OneThreadPerSlot, Live
<1>3. HoldsOwn(slot[t])
  BY <1>1, <1>2 DEF SessionInv, SlotHoldsItsClient
<1>4. QED
  BY <1>1, <1>3 DEF HoldsOwn, ConnOf, InUse, TypeOK, NetworkType

\* The number of a session is not the one in the acceptor's hands.
LEMMA Apart ==
  ASSUME TypeOK, AcceptorInv, apc # "accept",
         NEW s \in Slots, HoldsOwn(s), ~(LoggingIn /\ aslot = s)
  PROVE  fd[s] # afd
BY NamesAssumption
DEF TypeOK, AcceptorType, AcceptorLabels, AcceptorInv, LoggingIn, HoldsOwn

\* The acceptor reads from a connection that nobody has logged in on.
LEMMA AcceptorReads ==
  ASSUME Inv, apc = "read"
  PROVE  /\ aconn \in Conns /\ aconn = ConnOf(afd) /\ login[aconn] = NOBODY
         /\ ~Waiting(aconn) /\ InUse(aconn)
BY DEF Inv, AcceptorInv, QueueInv, InUse

\* A thread reads from the client it was started for.
LEMMA ThreadReads ==
  ASSUME Inv, NEW t \in Threads, pc[t] = "blocked"
  PROVE  /\ reading[t] \in Conns /\ login[reading[t]] = slot[t]
         /\ login[reading[t]] # NOBODY /\ InUse(reading[t])
<1>1. /\ HoldsOwn(slot[t]) /\ reading[t] = ConnOf(fd[slot[t]])
      /\ reading[t] \in Conns /\ InUse(reading[t])
  BY ThreadHolds DEF Inv, SessionInv, Live
<1>2. login[reading[t]] = slot[t] /\ slot[t] # NOBODY
  BY <1>1, NamesAssumption DEF HoldsOwn, Inv, TypeOK, ThreadsType
<1>3. QED
  BY <1>1, <1>2

\* Neither the server nor its clients bring an ended connection back to life.
LEMMA PeersKept ==
  ASSUME TypeOK, NEW c, ShutDown(c) \/ WriteTo(c) \/ peer' = peer
  PROVE  \A d \in Conns : /\ peer'[d] \in {"none", "silent", "talking"} =>
                               peer'[d] = peer[d]
                          /\ Ended(d) => Ended(d)'
BY DEF ShutDown, WriteTo, Ended, TypeOK, NetworkType

-----------------------------------------------------------------------------
(* The acceptor's connection. *)

\* A step of somebody else that leaves the acceptor's number, its connection and
\* its slot alone.
LEMMA AcceptorFrame ==
  ASSUME AcceptorInv,
         apc' = apc, afd' = afd, aconn' = aconn, aslot' = aslot,
         apc # "accept" => ConnOf(afd)' = ConnOf(afd),
         apc # "accept" /\ ConnOf(afd) \in Conns =>
           login'[ConnOf(afd)] = login[ConnOf(afd)],
         LoggingIn => fd'[aslot] = fd[aslot],
         \A t \in Threads : Live(t)' => Live(t) /\ slot'[t] = slot[t]
  PROVE  AcceptorInv'
BY DEF AcceptorInv, LoggingIn

LEMMA AcceptorConnect ==
  ASSUME Inv, NEW c \in Conns, PeerConnect(c) PROVE AcceptorInv'
<1>1. /\ apc' = apc /\ afd' = afd /\ aconn' = aconn /\ aslot' = aslot
      /\ fd' = fd /\ open' = open /\ pc' = pc /\ slot' = slot
      /\ ~InUse(c) /\ \A d \in Conns \ {c} : login'[d] = login[d]
  BY DEF PeerConnect, Reusable, table, acceptor, threads, Inv, TypeOK,
         NetworkType
<1>2. ConnOf(afd) \in Conns => ConnOf(afd) # c
  BY <1>1 DEF ConnOf, InUse, Inv, TypeOK, NetworkType
<1>3. QED
  BY <1>1, <1>2, AcceptorFrame DEF ConnOf, Live, Inv

LEMMA AcceptorOther ==
  ASSUME Inv,
         \/ \E c \in Conns : \E s : PeerLogin(c, s) \/ PeerSend(c, s)
         \/ \E c \in Conns : PeerClose(c)
         \/ UNCHANGED vars
  PROVE  AcceptorInv'
<1>1. /\ apc' = apc /\ afd' = afd /\ aconn' = aconn /\ aslot' = aslot
      /\ fd' = fd /\ open' = open /\ pc' = pc /\ slot' = slot
      /\ login' = login
  BY DEF PeerLogin, PeerSend, PeerClose, vars, table, acceptor, threads,
         network
<1>2. QED
  BY <1>1, AcceptorFrame DEF ConnOf, Live, Inv

LEMMA AcceptorThread ==
  ASSUME Inv, NEW t \in Threads, ThreadNext(t) PROVE AcceptorInv'
<1>1. /\ apc' = apc /\ afd' = afd /\ aconn' = aconn /\ aslot' = aslot
      /\ login' = login /\ Live(t)
  BY DEF ThreadNext, Read, ReadEnds, Receive, Send, Write, Sent, Close, Lock,
         Clear, acceptor, At, Live
<1>2. \A u \in Threads : Live(u)' => Live(u) /\ slot'[u] = slot[u]
  BY DEF ThreadNext, Read, ReadEnds, Receive, Send, Write, Sent, Close, Lock,
         Clear, At, Live, Inv, TypeOK, ThreadsType
<1>3. apc # "accept" => ConnOf(afd)' = ConnOf(afd)
  <2>1. CASE Close(t)
    <3>1. HoldsOwn(slot[t]) /\ slot[t] \in Slots
      BY <2>1, <1>1, ThreadHolds
      DEF Close, At, Inv, TypeOK, ThreadsType
    <3>2. ~(LoggingIn /\ aslot = slot[t])
      BY <1>1 DEF Inv, AcceptorInv
    <3>3. apc # "accept" => fd[slot[t]] # afd
      BY <3>1, <3>2, Apart DEF Inv
    <3>4. QED
      BY <1>1, <2>1, <3>3 DEF Close, ConnOf, Inv, TypeOK, NetworkType
  <2>2. CASE ~Close(t)
    <3>1. open' = open
      BY <2>2 DEF ThreadNext, Read, ReadEnds, Receive, Send, Write, Sent, Lock,
                  Clear, network
    <3>2. QED
      BY <1>1, <3>1 DEF ConnOf
  <2>3. QED
    BY <2>1, <2>2
<1>4. LoggingIn => fd'[aslot] = fd[aslot]
  <2>1. CASE Clear(t)
    <3>1. LoggingIn => aslot # slot[t]
      BY <1>1 DEF Inv, AcceptorInv
    <3>2. QED
      BY <2>1, <3>1 DEF Clear, Inv, TypeOK, TableType, AcceptorType
  <2>2. CASE ~Clear(t)
    BY <2>2 DEF ThreadNext, Read, ReadEnds, Receive, Send, Write, Sent, Close,
                Lock, table
  <2>3. QED
    BY <2>1, <2>2
<1>5. QED
  BY <1>1, <1>2, <1>3, <1>4, AcceptorFrame DEF Inv

LEMMA AcceptorStep ==
  ASSUME Inv, AcceptorNext PROVE AcceptorInv'
<1>1. CASE apc' = "accept"
  BY <1>1 DEF AcceptorInv, LoggingIn
<1>2. CASE Accept /\ apc' # "accept"
  <2>1. backlog \in Seq(Conns) /\ backlog # <<>>
    BY <1>2 DEF Inv, TypeOK, NetworkType, Accept
  <2>2. Head(backlog) \in Conns /\ Waiting(Head(backlog))
    <3>1. 1 \in DOMAIN backlog /\ backlog[1] = Head(backlog)
          /\ backlog[1] \in Conns
      BY <2>1
    <3>2. QED
      BY <3>1 DEF Waiting
  <2>3. login'[Head(backlog)] = NOBODY
    BY <1>2, <2>2 DEF Inv, QueueInv, Accept
  <2>4. apc' = "enter" /\ ConnOf(afd)' = Head(backlog)
    BY <1>2 DEF Accept, ConnOf, Inv, TypeOK, NetworkType
  <2>5. QED
    BY <2>2, <2>3, <2>4 DEF AcceptorInv, LoggingIn
<1>3. CASE EnterRead /\ apc' # "accept"
  BY <1>3 DEF EnterRead, AcceptorInv, LoggingIn, ConnOf, network, Inv
<1>4. CASE LoginMatched
  <2>1. /\ apc = "read" /\ apc' = "lock" /\ afd' = afd /\ open' = open
        /\ fd' = fd /\ pc' = pc /\ slot' = slot
    BY <1>4 DEF LoginMatched, LoginRead, table, threads
  <2>2. PICK s \in Slots : /\ fd[s] = -1 /\ aslot' = s
                           /\ login' = [login EXCEPT ![aconn] = s]
    BY <1>4 DEF LoginMatched
  <2>3. aconn \in Conns /\ aconn = ConnOf(afd)
    BY <2>1, AcceptorReads
  <2>4. ConnOf(afd)' = aconn /\ login'[aconn] = s
    BY <2>1, <2>2, <2>3 DEF ConnOf, Inv, TypeOK, NetworkType
  <2>5. \A t \in Threads : Live(t)' => slot'[t] # s
    BY <2>1, <2>2 DEF Live, Inv, SessionInv
  <2>6. QED
    BY <2>1, <2>2, <2>3, <2>4, <2>5 DEF AcceptorInv, LoggingIn
<1>5. CASE LoginLock \/ LoginCount
  <2>1. /\ LoggingIn /\ apc' \in {"count", "create"}
        /\ afd' = afd /\ aslot' = aslot /\ open' = open /\ login' = login
        /\ pc' = pc /\ slot' = slot
    BY <1>5 DEF LoginLock, LoginCount, LoggingIn, network, threads
  <2>2. fd'[aslot] = afd
    BY <1>5 DEF LoginLock, LoginCount, Inv, AcceptorInv, TypeOK,
                TableType, AcceptorType
  <2>3. QED
    BY <2>1, <2>2
    DEF AcceptorInv, LoggingIn, ConnOf, Live, Inv
<1>6. QED
  BY <1>1, <1>2, <1>3, <1>4, <1>5
  DEF AcceptorNext, LoginEnds, LoginUnknown, LoginRefused, LoginCreate

LEMMA AcceptorInvNext == Inv /\ [Next]_vars => AcceptorInv'
BY AcceptorConnect, AcceptorOther, AcceptorThread, AcceptorStep
DEF Next, PeerNext


-----------------------------------------------------------------------------
(* Sessions. *)

\* What keeps a slot's session: its connection stays under its number, logged
\* in to it, and does not come back to life.
Keeps(s) ==
  /\ ConnOf(fd[s])' = ConnOf(fd[s])
  /\ HoldsOwn(s)'
  /\ Ended(ConnOf(fd[s])) => Ended(ConnOf(fd[s]))'

\* A step that moves no thread and no slot.
LEMMA SessionFrame ==
  ASSUME TypeOK, SessionInv,
         fd' = fd, pc' = pc, slot' = slot, reading' = reading,
         \A s \in Slots : HoldsOwn(s) => Keeps(s)
  PROVE  SessionInv'
<1>1. \A t \in Threads : pc[t] = "blocked" =>
        reading'[t] = ConnOf(fd[slot[t]])'
  BY ThreadHolds DEF SessionInv, Keeps, Live, TypeOK, ThreadsType
<1>2. \A t \in Threads : pc[t] = "close" => Ended(ConnOf(fd[slot[t]]))'
  BY ThreadHolds DEF SessionInv, Keeps, Live, TypeOK, ThreadsType
<1>3. SlotHoldsItsClient'
  BY DEF SessionInv, SlotHoldsItsClient, Keeps
<1>4. (\A t \in Threads : Live(t) => fd[slot[t]] # -1)' /\ OneThreadPerSlot'
  BY DEF SessionInv, OneThreadPerSlot, Live
<1>5. QED
  BY <1>1, <1>2, <1>3, <1>4 DEF SessionInv

\* A step after which every number stands for what it stood for, and every
\* connection in use that has logged in is still logged in.
LEMMA KeepsAll ==
  ASSUME TypeOK, fd' = fd,
         \A f \in Fds : open[f] # NoConn => open'[f] = open[f],
         \A c \in Conns : InUse(c) /\ login[c] # NOBODY =>
           login'[c] = login[c] /\ (Ended(c) => Ended(c)')
  PROVE  \A s \in Slots : HoldsOwn(s) => Keeps(s)
<1> SUFFICES ASSUME NEW s \in Slots, HoldsOwn(s) PROVE Keeps(s)
  OBVIOUS
<1>1. /\ fd[s] \in Fds /\ ConnOf(fd[s]) = open[fd[s]]
      /\ open[fd[s]] \in Conns /\ InUse(open[fd[s]])
      /\ login[open[fd[s]]] = s /\ s # NOBODY
  BY NamesAssumption DEF HoldsOwn, ConnOf, InUse, TypeOK, NetworkType
<1>2. ConnOf(fd[s])' = open[fd[s]]
  BY <1>1 DEF ConnOf
<1>3. login'[open[fd[s]]] = s
  BY <1>1
<1>4. QED
  BY <1>1, <1>2, <1>3 DEF Keeps, HoldsOwn, Ended

LEMMA SessionPeers ==
  ASSUME Inv, NEW c \in Conns, PeerNext(c) PROVE SessionInv'
<1>1. /\ fd' = fd /\ pc' = pc /\ slot' = slot /\ reading' = reading
      /\ open' = open
  BY DEF PeerNext, PeerConnect, PeerLogin, PeerSend, PeerClose, table, threads
<1>2. \A d \in Conns : InUse(d) => login'[d] = login[d]
  BY DEF PeerNext, PeerConnect, Reusable, PeerLogin, PeerSend, PeerClose, Inv,
         TypeOK, NetworkType
<1>3. \A d \in Conns : InUse(d) => (Ended(d) => Ended(d)')
  BY DEF PeerNext, PeerConnect, Reusable, PeerLogin, PeerSend, PeerClose, Inv,
         TypeOK, NetworkType, Ended
<1>4. QED
  BY <1>1, <1>2, <1>3, KeepsAll, SessionFrame DEF Inv

LEMMA SessionAcceptor ==
  ASSUME Inv, AcceptorNext, ~LoginRefused PROVE SessionInv'
<1>1. CASE \/ Accept \/ EnterRead \/ LoginEnds \/ LoginUnknown
           \/ LoginMatched \/ LoginCount
  <2>1. fd' = fd /\ pc' = pc /\ slot' = slot /\ reading' = reading
    BY <1>1
    DEF Accept, EnterRead, LoginEnds, LoginUnknown, LoginMatched, LoginCount,
        table, threads
  <2>2. \A f \in Fds : open[f] # NoConn => open'[f] = open[f]
    BY <1>1
    DEF Accept, EnterRead, LoginEnds, LoginUnknown, LoginMatched, LoginCount,
        network, Lowest, FreeFds, Inv, TypeOK, NetworkType
  <2>3. \A d \in Conns : login[d] # NOBODY => login'[d] = login[d]
    <3>1. CASE LoginMatched
      <4>1. aconn \in Conns /\ login[aconn] = NOBODY
        BY <3>1, AcceptorReads DEF LoginMatched, LoginRead
      <4>2. QED
        BY <3>1, <4>1 DEF LoginMatched, Inv, TypeOK, NetworkType
    <3>2. CASE ~LoginMatched
      BY <1>1, <3>2
      DEF Accept, EnterRead, LoginEnds, LoginUnknown, LoginCount
    <3>3. QED
      BY <3>1, <3>2
  <2>4. \A d \in Conns : Ended(d) => Ended(d)'
    <3>1. peer' = peer \/ \E c : ShutDown(c)
      BY <1>1
      DEF Accept, EnterRead, LoginEnds, LoginUnknown, LoginMatched, LoginCount,
          network
    <3>2. QED
      BY <3>1, PeersKept DEF Inv
  <2>5. QED
    BY <2>1, <2>2, <2>3, <2>4, KeepsAll, SessionFrame DEF Inv
<1>2. CASE LoginLock
  <2>1. /\ open' = open /\ login' = login /\ peer' = peer
        /\ pc' = pc /\ slot' = slot /\ reading' = reading
        /\ aslot \in Slots /\ LoggingIn
        /\ fd'[aslot] = afd
        /\ \A s \in Slots \ {aslot} : fd'[s] = fd[s]
    BY <1>2 DEF LoginLock, LoggingIn, network, threads, Inv, TypeOK, TableType,
                AcceptorType
  <2>2. \A t \in Threads : Live(t) => slot[t] # aslot
    BY <2>1 DEF Inv, AcceptorInv
  <2>3. \A s \in Slots \ {aslot} : HoldsOwn(s) => Keeps(s)
    BY <2>1 DEF HoldsOwn, Keeps, ConnOf, Ended
  <2>4. \A s \in Slots : s = aslot => HoldsOwn(s)'
    <3>1. ConnOf(afd) \in Conns /\ login[ConnOf(afd)] = aslot
      BY <2>1 DEF Inv, AcceptorInv
    <3>2. QED
      BY <2>1, <3>1 DEF HoldsOwn, ConnOf
  <2>5. SlotHoldsItsClient'
    BY <2>1, <2>3, <2>4
    DEF Inv, SessionInv, SlotHoldsItsClient, Keeps, HoldsOwn
  <2>6. \A t \in Threads : Live(t) =>
          slot[t] \in Slots \ {aslot} /\ fd'[slot[t]] = fd[slot[t]]
    BY <2>1, <2>2 DEF Inv, TypeOK, ThreadsType
  <2>7. /\ (\A t \in Threads : Live(t) => fd[slot[t]] # -1)'
        /\ OneThreadPerSlot'
    BY <2>1, <2>6
    DEF Inv, SessionInv, OneThreadPerSlot, Live
  <2>8. \A t \in Threads : pc'[t] = "blocked" =>
          reading'[t] = ConnOf(fd[slot[t]])'
    BY <2>1, <2>6 DEF Inv, SessionInv, Live, ConnOf
  <2>9. \A t \in Threads : pc'[t] = "close" => Ended(ConnOf(fd[slot[t]]))'
    BY <2>1, <2>6 DEF Inv, SessionInv, Live, ConnOf, Ended
  <2>10. QED
    BY <2>5, <2>7, <2>8, <2>9 DEF SessionInv
<1>3. CASE LoginCreate
  <2>1. /\ fd' = fd /\ open' = open /\ login' = login /\ reading' = reading
        /\ LoggingIn /\ fd[aslot] = afd /\ afd \in Fds /\ aslot \in Slots
    BY <1>3 DEF LoginCreate, LoggingIn, table, Inv, AcceptorInv,
                TypeOK, AcceptorType
  <2>2. PICK t \in Threads :
          /\ pc[t] = "idle"
          /\ pc' = [pc EXCEPT ![t] = "read"]
          /\ slot' = [slot EXCEPT ![t] = aslot]
    BY <1>3 DEF LoginCreate, Lowest, IdleThreads
  <2>3. /\ pc'[t] = "read" /\ slot'[t] = aslot
        /\ \A u \in Threads \ {t} : pc'[u] = pc[u] /\ slot'[u] = slot[u]
    BY <2>2 DEF Inv, TypeOK, ThreadsType
  <2>4. \A u \in Threads : Live(u) => u # t /\ slot[u] # aslot
    BY <2>1, <2>2 DEF Live, Inv, AcceptorInv
  <2>5. \A c \in Conns : Ended(c) => Ended(c)'
    BY <1>3, PeersKept DEF LoginCreate, Inv
  <2>6. \A s \in Slots : HoldsOwn(s) => Keeps(s)
    BY <2>1, <2>5, KeepsAll DEF Inv
  <2>7. SlotHoldsItsClient'
    <3>1. \A s \in Slots : fd[s] # -1 =>
            \/ HoldsOwn(s)'
            \/ \E u \in Threads : slot'[u] = s /\ pc'[u] \in {"lock", "clear"}
      BY <2>2, <2>3, <2>6
      DEF Inv, SessionInv, SlotHoldsItsClient, Keeps
    <3>2. QED
      BY <2>1, <3>1 DEF SlotHoldsItsClient
  <2>8. OneThreadPerSlot'
    BY <2>3, <2>4 DEF Inv, SessionInv, OneThreadPerSlot, Live
  <2>9. (\A u \in Threads : Live(u) => fd[slot[u]] # -1)'
    BY <2>1, <2>3 DEF Inv, SessionInv, Live
  <2>10. \A u \in Threads : pc'[u] \in {"blocked", "close"} =>
           /\ pc'[u] = pc[u] /\ slot'[u] = slot[u] /\ slot[u] \in Slots
           /\ HoldsOwn(slot[u])
    BY <2>3, ThreadHolds DEF Inv, Live, TypeOK, ThreadsType
  <2>11. \A u \in Threads : pc'[u] = "blocked" =>
           reading'[u] = ConnOf(fd[slot[u]])'
    BY <2>1, <2>6, <2>10 DEF Inv, SessionInv, Keeps
  <2>12. \A u \in Threads : pc'[u] = "close" => Ended(ConnOf(fd[slot[u]]))'
    BY <2>1, <2>6, <2>10 DEF Inv, SessionInv, Keeps
  <2>13. QED
    BY <2>7, <2>8, <2>9, <2>11, <2>12 DEF SessionInv
<1>4. QED
  BY <1>1, <1>2, <1>3 DEF AcceptorNext

\* A thread moves on and leaves the table and the descriptors alone.
LEMMA SessionMoves ==
  ASSUME Inv, NEW t \in Threads, Live(t), NEW label, NEW c,
         fd' = fd, open' = open, login' = login, slot' = slot,
         \A d \in Conns : Ended(d) => Ended(d)',
         pc' = [pc EXCEPT ![t] = label],
         reading' = [reading EXCEPT ![t] = c],
         label # "idle",
         pc[t] \in {"lock", "clear"} => label \in {"lock", "clear"},
         label = "blocked" => c = ConnOf(fd[slot[t]]),
         label = "close" => Ended(ConnOf(fd[slot[t]]))'
  PROVE  SessionInv'
<1>1. /\ pc'[t] = label /\ reading'[t] = c
      /\ \A u \in Threads \ {t} : pc'[u] = pc[u] /\ reading'[u] = reading[u]
  BY DEF Inv, TypeOK, ThreadsType
<1>2. \A u \in Threads : Live(u)' <=> Live(u)
  BY <1>1 DEF Live
<1>3. \A s \in Slots : HoldsOwn(s) => Keeps(s)
  BY KeepsAll DEF Inv
<1>4. \A s \in Slots : fd[s] # -1 =>
        \/ HoldsOwn(s)'
        \/ \E u \in Threads : slot'[u] = s /\ pc'[u] \in {"lock", "clear"}
  BY <1>1, <1>3 DEF Inv, SessionInv, SlotHoldsItsClient, Keeps
<1>5. SlotHoldsItsClient'
  BY <1>4 DEF SlotHoldsItsClient
<1>6. (\A u \in Threads : Live(u) => fd[slot[u]] # -1)' /\ OneThreadPerSlot'
  BY <1>2 DEF Inv, SessionInv, OneThreadPerSlot
<1>7. \A u \in Threads \ {t} : pc'[u] \in {"blocked", "close"} =>
        slot[u] \in Slots /\ HoldsOwn(slot[u]) /\ pc[u] = pc'[u]
  BY <1>1, ThreadHolds DEF Inv, Live, TypeOK, ThreadsType
<1>8. \A u \in Threads : pc'[u] = "blocked" =>
        reading'[u] = ConnOf(fd[slot[u]])'
  BY <1>1, <1>3, <1>7 DEF Inv, SessionInv, Keeps, ConnOf
<1>9. \A u \in Threads : pc'[u] = "close" => Ended(ConnOf(fd[slot[u]]))'
  BY <1>1, <1>3, <1>7 DEF Inv, SessionInv, Keeps
<1>10. QED
  BY <1>5, <1>6, <1>8, <1>9 DEF SessionInv

LEMMA SessionClose ==
  ASSUME Inv, NEW t \in Threads, Close(t) PROVE SessionInv'
<1> DEFINE s == slot[t]
<1>1. /\ s \in Slots /\ fd[s] \in Fds /\ HoldsOwn(s) /\ Live(t)
  BY ThreadHolds
  DEF Close, At, Live, Inv, TypeOK, ThreadsType
<1>2. /\ fd' = fd /\ slot' = slot /\ reading' = reading /\ login' = login
      /\ peer' = peer
      /\ pc'[t] = "lock" /\ \A u \in Threads \ {t} : pc'[u] = pc[u]
      /\ open' = [open EXCEPT ![fd[s]] = NoConn]
  BY <1>1 DEF Close, table, Inv, TypeOK, ThreadsType
<1>3. \A r \in Slots \ {s} : HoldsOwn(r) => fd[r] # fd[s]
  BY <1>1 DEF HoldsOwn
<1>4. \A r \in Slots \ {s} : HoldsOwn(r) => Keeps(r)
  <2> SUFFICES ASSUME NEW r \in Slots \ {s}, HoldsOwn(r) PROVE Keeps(r)
    OBVIOUS
  <2>1. ConnOf(fd[r])' = ConnOf(fd[r])
    BY <1>2, <1>3 DEF ConnOf, Inv, TypeOK, NetworkType
  <2>2. QED
    BY <1>2, <2>1 DEF Keeps, HoldsOwn, Ended
<1>5. \A r \in Slots : fd[r] # -1 =>
        \/ HoldsOwn(r)'
        \/ \E u \in Threads : slot'[u] = r /\ pc'[u] \in {"lock", "clear"}
  BY <1>1, <1>2, <1>4
  DEF Inv, SessionInv, SlotHoldsItsClient, Keeps
<1>6. SlotHoldsItsClient'
  BY <1>2, <1>5 DEF SlotHoldsItsClient
<1>7. \A u \in Threads : Live(u)' <=> Live(u)
  BY <1>1, <1>2 DEF Live
<1>8. (\A u \in Threads : Live(u) => fd[slot[u]] # -1)' /\ OneThreadPerSlot'
  BY <1>2, <1>7 DEF Inv, SessionInv, OneThreadPerSlot
<1>9. \A u \in Threads : pc'[u] \in {"blocked", "close"} =>
        /\ slot[u] \in Slots \ {s} /\ pc[u] = pc'[u] /\ HoldsOwn(slot[u])
  BY <1>1, <1>2, ThreadHolds
  DEF Inv, SessionInv, OneThreadPerSlot, Live, TypeOK, ThreadsType
<1>10. \A u \in Threads : pc'[u] = "blocked" =>
         reading'[u] = ConnOf(fd[slot[u]])'
  BY <1>2, <1>4, <1>9 DEF Inv, SessionInv, Keeps
<1>11. \A u \in Threads : pc'[u] = "close" => Ended(ConnOf(fd[slot[u]]))'
  BY <1>2, <1>4, <1>9 DEF Inv, SessionInv, Keeps
<1>12. QED
  BY <1>6, <1>8, <1>10, <1>11 DEF SessionInv

LEMMA SessionClear ==
  ASSUME Inv, NEW t \in Threads, Clear(t) PROVE SessionInv'
<1> DEFINE s == slot[t]
<1>1. /\ s \in Slots /\ Live(t)
      /\ reading' = reading /\ login' = login /\ peer' = peer /\ open' = open
      /\ fd'[s] = -1 /\ \A r \in Slots \ {s} : fd'[r] = fd[r]
      /\ pc'[t] = "idle"
      /\ \A u \in Threads \ {t} : pc'[u] = pc[u] /\ slot'[u] = slot[u]
  BY DEF Clear, At, Live, network, Inv, TypeOK, TableType, ThreadsType
<1>2. \A u \in Threads : Live(u)' =>
        /\ u # t /\ Live(u) /\ slot'[u] = slot[u] /\ slot[u] \in Slots \ {s}
        /\ fd'[slot[u]] = fd[slot[u]]
  BY <1>1 DEF Live, Inv, SessionInv, OneThreadPerSlot, TypeOK,
              ThreadsType
<1>3. \A r \in Slots \ {s} : HoldsOwn(r) => HoldsOwn(r)'
  BY <1>1 DEF HoldsOwn, ConnOf
<1>4. \A r \in Slots \ {s} : fd[r] # -1 =>
        \/ HoldsOwn(r)'
        \/ \E u \in Threads : slot'[u] = r /\ pc'[u] \in {"lock", "clear"}
  BY <1>1, <1>3 DEF Inv, SessionInv, SlotHoldsItsClient
<1>5. SlotHoldsItsClient'
  BY <1>1, <1>4 DEF SlotHoldsItsClient
<1>6. (\A u \in Threads : Live(u) => fd[slot[u]] # -1)' /\ OneThreadPerSlot'
  BY <1>2 DEF Inv, SessionInv, OneThreadPerSlot
<1>7. \A u \in Threads : pc'[u] = "blocked" =>
        reading'[u] = ConnOf(fd[slot[u]])'
  BY <1>1, <1>2 DEF Inv, SessionInv, Live, ConnOf
<1>8. \A u \in Threads : pc'[u] = "close" => Ended(ConnOf(fd[slot[u]]))'
  BY <1>1, <1>2 DEF Inv, SessionInv, Live, ConnOf, Ended
<1>9. QED
  BY <1>5, <1>6, <1>7, <1>8 DEF SessionInv

LEMMA SessionThread ==
  ASSUME Inv, NEW t \in Threads, ThreadNext(t) PROVE SessionInv'
<1>1. Live(t)
  BY DEF ThreadNext, Read, ReadEnds, Receive, Send, Write, Sent, Close, Lock,
         Clear, At, Live
<1>2. CASE Read(t)
  <2>1. ConnOf(fd[slot[t]]) # NoConn
    BY <1>1, <1>2, ThreadHolds DEF Read, At, HoldsOwn, Inv
  <2>2. /\ fd' = fd /\ open' = open /\ login' = login /\ slot' = slot
        /\ peer' = peer
        /\ pc' = [pc EXCEPT ![t] = "blocked"]
        /\ reading' = [reading EXCEPT ![t] = ConnOf(fd[slot[t]])]
        /\ pc[t] = "read"
    BY <1>2, <2>1 DEF Read, At, table, network
  <2>3. QED
    BY <1>1, <2>2, SessionMoves DEF Ended
<1>3. CASE ReadEnds(t)
  <2>1. Ended(ConnOf(fd[slot[t]]))
    BY <1>3 DEF ReadEnds, At, Inv, SessionInv
  <2>2. /\ fd' = fd /\ open' = open /\ login' = login /\ slot' = slot
        /\ peer' = peer
        /\ pc' = [pc EXCEPT ![t] = "close"]
        /\ reading' = [reading EXCEPT ![t] = NoConn]
        /\ pc[t] = "blocked"
    BY <1>3 DEF ReadEnds, At, table, network
  <2>3. Ended(ConnOf(fd[slot[t]]))'
    BY <2>1, <2>2 DEF Ended, ConnOf
  <2>4. QED
    BY <1>1, <2>2, <2>3, SessionMoves DEF Ended
<1>4. CASE Receive(t) \/ Send(t) \/ Write(t) \/ Sent(t) \/ Lock(t)
  <2>1. /\ fd' = fd /\ open' = open /\ login' = login /\ slot' = slot
    BY <1>4 DEF Receive, Send, Write, Sent, Lock, table, network
  <2>2. \A d \in Conns : Ended(d) => Ended(d)'
    <3>1. peer' = peer \/ \E c : WriteTo(c)
      BY <1>4 DEF Receive, Send, Write, Sent, Lock, network
    <3>2. QED
      BY <3>1, PeersKept DEF Inv
  <2>3. \E c : reading' = [reading EXCEPT ![t] = c]
    BY <1>4 DEF Receive, Send, Write, Sent, Lock, Inv, TypeOK, ThreadsType
  <2>4. \E label \in {"read", "send", "write", "clear"} :
          /\ pc' = [pc EXCEPT ![t] = label]
          /\ pc[t] \in {"lock", "clear"} => label = "clear"
    BY <1>4 DEF Receive, Send, Write, Sent, Lock, At, Inv, TypeOK, ThreadsType
  <2>5. QED
    BY <1>1, <2>1, <2>2, <2>3, <2>4, SessionMoves
<1>5. QED
  BY <1>2, <1>3, <1>4, SessionClose, SessionClear DEF ThreadNext

LEMMA SessionNext ==
  Inv /\ [Next]_vars /\ [~LoginRefused]_vars => SessionInv'
<1> SUFFICES ASSUME Inv, [Next]_vars, [~LoginRefused]_vars PROVE SessionInv'
  OBVIOUS
<1>1. CASE UNCHANGED vars
  BY <1>1, KeepsAll, SessionFrame
  DEF vars, table, threads, network, Ended, Inv
<1>2. QED
  BY <1>1, SessionPeers, SessionAcceptor, SessionThread DEF Next

-----------------------------------------------------------------------------
(* Every session is served. *)

\* Number f is that of a login to slot s: in the acceptor's hands, or in the
\* slot with a thread that has not closed it.
Served(f, s) ==
  \/ apc = "lock" /\ afd = f /\ aslot = s
  \/ fd[s] = f /\ apc \in {"count", "create"} /\ aslot = s
  \/ /\ fd[s] = f
     /\ \E t \in Threads :
          Live(t) /\ slot[t] = s /\ pc[t] \notin {"lock", "clear"}

\* A connection has one number at most, and one that has logged in is served.
ServedInv ==
  /\ \A f, g \in Fds : open[f] # NoConn /\ open[f] = open[g] => f = g
  /\ \A f \in Fds : \A s \in Slots :
       open[f] # NoConn /\ login[open[f]] = s => Served(f, s)

\* A step that opens no number, and leaves those that it does not close logged
\* in where they were, and served.
LEMMA ServedFrame ==
  ASSUME ServedInv, TypeOK,
         \A f \in Fds : open'[f] \in {open[f], NoConn},
         \A f \in Fds : open'[f] # NoConn => login'[open[f]] = login[open[f]],
         \A f \in Fds : \A s \in Slots :
           open'[f] # NoConn /\ Served(f, s) => Served(f, s)'
  PROVE  ServedInv'
<1>1. \A f, g \in Fds : open'[f] # NoConn /\ open'[f] = open'[g] => f = g
  BY DEF ServedInv
<1>2. \A f \in Fds : \A s \in Slots :
        open'[f] # NoConn /\ login'[open'[f]] = s => Served(f, s)'
  BY DEF ServedInv
<1>3. QED
  BY <1>1, <1>2 DEF ServedInv

LEMMA ServedPeers ==
  ASSUME Inv, ServedInv, NEW c \in Conns, PeerNext(c) PROVE ServedInv'
<1>1. /\ fd' = fd /\ pc' = pc /\ slot' = slot /\ open' = open
      /\ apc' = apc /\ afd' = afd /\ aslot' = aslot
  BY DEF PeerNext, PeerConnect, PeerLogin, PeerSend, PeerClose, table,
         acceptor, threads
<1>2. \A d \in Conns : InUse(d) => login'[d] = login[d]
  BY DEF PeerNext, PeerConnect, Reusable, PeerLogin, PeerSend, PeerClose, Inv,
         TypeOK, NetworkType
<1>3. \A f \in Fds : open[f] # NoConn => open[f] \in Conns /\ InUse(open[f])
  BY DEF InUse, Inv, TypeOK, NetworkType
<1>4. \A f \in Fds : \A s \in Slots : Served(f, s) => Served(f, s)'
  BY <1>1 DEF Served, Live
<1>5. QED
  BY <1>1, <1>2, <1>3, <1>4, ServedFrame DEF Inv

\* The connection that is accepted has no other number and has not logged in.
LEMMA ServedAccept ==
  ASSUME Inv, ServedInv, Accept PROVE ServedInv'
<1> DEFINE c == Head(backlog)
<1>1. c \in Conns /\ Waiting(c)
  <2>1. backlog \in Seq(Conns) /\ backlog # <<>>
    BY DEF Inv, TypeOK, NetworkType, Accept
  <2>2. 1 \in DOMAIN backlog /\ backlog[1] = c /\ backlog[1] \in Conns
    BY <2>1
  <2>3. QED
    BY <2>2 DEF Waiting
<1>2. login[c] = NOBODY /\ \A g \in Fds : open[g] # c
  BY <1>1 DEF Inv, QueueInv, InUse
<1>3. PICK f \in Fds : open' = [open EXCEPT ![f] = c]
  BY DEF Accept
<1>4. /\ open'[f] = c
      /\ \A g \in Fds \ {f} : open'[g] = open[g]
  BY <1>3 DEF Inv, TypeOK, NetworkType
<1>5. fd' = fd /\ pc' = pc /\ slot' = slot /\ login' = login /\ apc = "accept"
  BY DEF Accept, table, threads
<1>6. \A g \in Fds : \A s \in Slots : Served(g, s) => Served(g, s)'
  BY <1>5 DEF Served, Live
<1>7. \A g, h \in Fds : open'[g] # NoConn /\ open'[g] = open'[h] => g = h
  BY <1>2, <1>4 DEF ServedInv
<1>8. \A g \in Fds : \A s \in Slots :
        open'[g] # NoConn /\ login'[open'[g]] = s => Served(g, s)'
  BY <1>2, <1>4, <1>5, <1>6, NamesAssumption DEF ServedInv
<1>9. QED
  BY <1>7, <1>8 DEF ServedInv

\* The login that matches is that of the number in the acceptor's hands.
LEMMA ServedMatched ==
  ASSUME Inv, ServedInv, LoginMatched PROVE ServedInv'
<1>1. PICK r \in Slots : aslot' = r /\ login' = [login EXCEPT ![aconn] = r]
  BY DEF LoginMatched
<1>2. /\ apc = "read" /\ apc' = "lock" /\ afd' = afd /\ fd' = fd
      /\ open' = open /\ pc' = pc /\ slot' = slot
  BY DEF LoginMatched, LoginRead, table, threads
<1>3. afd \in Fds /\ aconn \in Conns /\ open[afd] = aconn
  BY <1>2, AcceptorReads DEF Inv, TypeOK, AcceptorType, ConnOf
<1>4. login'[aconn] = r /\ \A d \in Conns \ {aconn} : login'[d] = login[d]
  BY <1>1, <1>3 DEF Inv, TypeOK, NetworkType
<1>5. \A f \in Fds : \A s \in Slots : f = afd /\ s = r => Served(f, s)'
  BY <1>1, <1>2 DEF Served
<1>6. \A f \in Fds : \A s \in Slots : Served(f, s) => Served(f, s)'
  BY <1>2 DEF Served, Live
<1>7. \A f, g \in Fds : open'[f] # NoConn /\ open'[f] = open'[g] => f = g
  BY <1>2 DEF ServedInv
<1>8. ASSUME NEW f \in Fds, NEW s \in Slots,
             open'[f] # NoConn, login'[open'[f]] = s
      PROVE  Served(f, s)'
  <2>1. open[f] \in Conns
    BY <1>2, <1>8 DEF Inv, TypeOK, NetworkType
  <2>2. CASE open[f] = aconn
    <3>1. f = afd /\ s = r
      BY <1>2, <1>3, <1>4, <1>8, <2>1, <2>2 DEF ServedInv
    <3>2. QED
      BY <1>5, <3>1
  <2>3. CASE open[f] # aconn
    <3>1. login[open[f]] = s
      BY <1>2, <1>4, <1>8, <2>1, <2>3
    <3>2. QED
      BY <1>2, <1>6, <1>8, <3>1 DEF ServedInv
  <2>4. QED
    BY <2>2, <2>3
<1>9. QED
  BY <1>7, <1>8 DEF ServedInv

LEMMA ServedAcceptor ==
  ASSUME Inv, ServedInv, AcceptorNext, ~LoginRefused PROVE ServedInv'
<1>1. CASE \/ EnterRead \/ LoginEnds \/ LoginUnknown \/ LoginLock
           \/ LoginCount \/ LoginCreate
  <2>1. open' = open /\ login' = login
    BY <1>1
    DEF EnterRead, LoginEnds, LoginUnknown, LoginLock, LoginCount, LoginCreate,
        network
  <2>2. \A f \in Fds : \A s \in Slots : Served(f, s) => Served(f, s)'
    <3> SUFFICES ASSUME NEW f \in Fds, NEW s \in Slots, Served(f, s)
                 PROVE  Served(f, s)'
      OBVIOUS
    <3>1. CASE LoginLock
      <4>1. /\ fd[aslot] = -1 /\ fd' = [fd EXCEPT ![aslot] = afd]
            /\ apc = "lock" /\ apc' = "count" /\ aslot' = aslot
            /\ pc' = pc /\ slot' = slot
        BY <3>1 DEF LoginLock, Inv, AcceptorInv, threads
      <4>2. s # aslot => fd'[s] = fd[s]
        BY <4>1 DEF Inv, TypeOK, TableType
      <4>3. s = aslot => fd[s] # f /\ fd'[s] = afd
        BY <4>1 DEF Inv, TypeOK, TableType
      <4>4. QED
        BY <4>1, <4>2, <4>3 DEF Served, Live
    <3>2. CASE LoginCreate
      <4>1. PICK t \in Threads :
              /\ pc[t] = "idle"
              /\ pc' = [pc EXCEPT ![t] = "read"]
              /\ slot' = [slot EXCEPT ![t] = aslot]
        BY <3>2 DEF LoginCreate, Lowest, IdleThreads
      <4>2. /\ pc'[t] = "read" /\ slot'[t] = aslot
            /\ \A u \in Threads \ {t} : pc'[u] = pc[u] /\ slot'[u] = slot[u]
            /\ fd' = fd /\ apc = "create"
        BY <3>2, <4>1 DEF LoginCreate, table, Inv, TypeOK, ThreadsType
      <4>3. QED
        BY <4>1, <4>2 DEF Served, Live
    <3>3. CASE LoginCount
      BY <3>3 DEF LoginCount, Served, Live, threads
    <3>4. CASE EnterRead \/ LoginEnds \/ LoginUnknown
      BY <3>4
      DEF EnterRead, LoginEnds, LoginUnknown, LoginRead, Served, Live, table,
          threads
    <3>5. QED
      BY <1>1, <3>1, <3>2, <3>3, <3>4
  <2>3. QED
    BY <2>1, <2>2, ServedFrame DEF Inv
<1>2. QED
  BY <1>1, ServedAccept, ServedMatched DEF AcceptorNext

LEMMA ServedThread ==
  ASSUME Inv, ServedInv, NEW t \in Threads, ThreadNext(t) PROVE ServedInv'
<1>1. /\ apc' = apc /\ afd' = afd /\ aslot' = aslot
      /\ login' = login /\ Live(t)
  BY DEF ThreadNext, Read, ReadEnds, Receive, Send, Write, Sent, Close, Lock,
         Clear, acceptor, At, Live
<1>2. CASE Close(t)
  <2>1. fd[slot[t]] \in Fds
    BY <1>2, ThreadHolds DEF Close, At, Live, Inv
  <2>2. /\ fd' = fd /\ slot' = slot
        /\ open' = [open EXCEPT ![fd[slot[t]]] = NoConn]
        /\ \A u \in Threads \ {t} : pc'[u] = pc[u]
    BY <1>2, <2>1 DEF Close, table, Inv, TypeOK, ThreadsType
  <2>3. \A f \in Fds : open'[f] \in {open[f], NoConn}
    BY <2>2 DEF Inv, TypeOK, NetworkType
  <2>4. open'[fd[slot[t]]] = NoConn
    BY <2>1, <2>2 DEF Inv, TypeOK, NetworkType
  <2>5. \A f \in Fds : \A s \in Slots :
          open'[f] # NoConn /\ Served(f, s) => Served(f, s)'
    BY <1>1, <2>2, <2>4 DEF Served, Live
  <2>6. QED
    BY <1>1, <2>3, <2>5, ServedFrame DEF Inv
<1>3. CASE Clear(t)
  <2>1. /\ open' = open /\ fd' = [fd EXCEPT ![slot[t]] = -1]
        /\ pc[t] = "clear"
        /\ \A u \in Threads \ {t} : pc'[u] = pc[u] /\ slot'[u] = slot[u]
    BY <1>3 DEF Clear, At, network, Inv, TypeOK, ThreadsType
  <2>2. \A s \in Slots : s # slot[t] => fd'[s] = fd[s]
    BY <2>1 DEF Inv, TypeOK, TableType
  <2>3. LoggingIn => aslot # slot[t]
    BY <1>1 DEF Inv, AcceptorInv
  <2>4. \A u \in Threads : Live(u) /\ u # t => slot[u] # slot[t]
    BY <1>1 DEF Inv, SessionInv, OneThreadPerSlot
  <2>5. \A f \in Fds : \A s \in Slots : Served(f, s) => Served(f, s)'
    BY <1>1, <2>1, <2>2, <2>3, <2>4 DEF Served, Live, LoggingIn
  <2>6. QED
    BY <1>1, <2>1, <2>5, ServedFrame DEF Inv
<1>4. CASE ~Close(t) /\ ~Clear(t)
  <2>1. open' = open /\ fd' = fd /\ slot' = slot
    BY <1>4 DEF ThreadNext, Read, ReadEnds, Receive, Send, Write, Sent, Lock,
                network, table
  <2>2. /\ pc'[t] # "idle"
        /\ pc[t] \notin {"lock", "clear"} => pc'[t] \notin {"lock", "clear"}
        /\ \A u \in Threads \ {t} : pc'[u] = pc[u]
    BY <1>4 DEF ThreadNext, Read, ReadEnds, Receive, Send, Write, Sent, Lock,
                At, Inv, TypeOK, ThreadsType
  <2>3. \A f \in Fds : \A s \in Slots : Served(f, s) => Served(f, s)'
    BY <1>1, <2>1, <2>2 DEF Served, Live
  <2>4. QED
    BY <1>1, <2>1, <2>3, ServedFrame DEF Inv
<1>5. QED
  BY <1>2, <1>3, <1>4

LEMMA ServedNext ==
  Inv /\ ServedInv /\ [Next]_vars /\ [~LoginRefused]_vars => ServedInv'
<1> SUFFICES ASSUME Inv, ServedInv, [Next]_vars, [~LoginRefused]_vars
             PROVE  ServedInv'
  OBVIOUS
<1>1. CASE UNCHANGED vars
  <2>1. /\ fd' = fd /\ pc' = pc /\ slot' = slot /\ open' = open
        /\ apc' = apc /\ afd' = afd /\ aslot' = aslot /\ login' = login
    BY <1>1 DEF vars, table, acceptor, threads, network
  <2>2. \A f \in Fds : \A s \in Slots : Served(f, s) => Served(f, s)'
    BY <2>1 DEF Served, Live
  <2>3. QED
    BY <2>1, <2>2, ServedFrame DEF Inv
<1>2. QED
  BY <1>1, ServedPeers, ServedAcceptor, ServedThread DEF Next

\* In the table a session's number is in its own slot, and the thread that is
\* blocked is blocked on it.
LEMMA ServedSessions == Inv /\ ServedInv => SessionIsServed
<1> SUFFICES ASSUME Inv, ServedInv, NEW f \in Fds,
                    open[f] # NoConn, login[open[f]] # NOBODY,
                    NEW s, s = login[open[f]]
             PROVE  \/ apc = "lock" /\ afd = f /\ aslot = s
                    \/ fd[s] = f /\ apc \in {"count", "create"} /\ aslot = s
                    \/ /\ fd[s] = f
                       /\ \E t \in Threads :
                            Attends(t, s) /\ pc[t] \notin {"lock", "clear"}
  BY DEF SessionIsServed
<1>1. s \in Slots
  BY DEF Inv, TypeOK, NetworkType
<1>2. Served(f, s)
  BY <1>1 DEF ServedInv
<1>3. \A t \in Threads : Live(t) /\ slot[t] = s => Attends(t, s)
  BY DEF Attends, Inv, SessionInv
<1>4. QED
  BY <1>2, <1>3 DEF Served

-----------------------------------------------------------------------------
(* What holds as long as no login is refused for a taken slot. *)

LEMMA InvInit == Init => Inv /\ ServedInv
<1> SUFFICES ASSUME Init PROVE Inv /\ ServedInv
  OBVIOUS
<1>1. TypeOK
  BY TypeInit
<1>2. CountMatchesThreads
  <2>1. Counted = {}
    BY DEF Init, Counted
  <2>2. QED
    BY <2>1, FS_EmptySet DEF Init, CountMatchesThreads
<1>3. QueueInv
  BY DEF Init, QueueInv, Waiting
<1>4. AcceptorInv
  BY DEF Init, AcceptorInv, LoggingIn
<1>5. SessionInv
  BY DEF Init, SessionInv, OneThreadPerSlot, SlotHoldsItsClient, Live
<1>6. ServedInv
  BY DEF Init, ServedInv
<1>7. QED
  BY <1>1, <1>2, <1>3, <1>4, <1>5, <1>6 DEF Inv

LEMMA InvNext == Inv /\ [Next]_vars /\ [~LoginRefused]_vars => Inv'
BY TypeNext, CountNext, QueueNext, AcceptorInvNext, SessionNext
DEF Inv, CountInv

LEMMA InvCorrect == Spec /\ NoEviction => []Inv
<1>1. Init => Inv
  BY InvInit
<1>2. Inv /\ [Next]_vars /\ [~LoginRefused]_vars => Inv'
  BY InvNext
<1>3. QED
  BY <1>1, <1>2, PTL DEF Spec, NoEviction

\* As long as no login is refused for a taken slot, a slot never has two
\* threads.
THEOREM OneThreadCorrect == Spec /\ NoEviction => []OneThreadPerSlot
<1>1. Inv => OneThreadPerSlot
  BY DEF Inv, SessionInv
<1>2. QED
  BY <1>1, InvCorrect, PTL

\* As long as no login is refused for a taken slot, the number in a slot stands
\* for the slot's own client until the client's thread has closed it.
THEOREM SlotHoldsCorrect == Spec /\ NoEviction => []SlotHoldsItsClient
<1>1. Inv => SlotHoldsItsClient
  BY DEF Inv, SessionInv
<1>2. QED
  BY <1>1, InvCorrect, PTL

\* As long as no login is refused for a taken slot, the name on a relayed
\* message is the sender's.
THEOREM SenderCorrect == Spec /\ NoEviction => []SenderIsAuthentic
<1>1. Inv => SenderIsAuthentic
  BY ThreadReads DEF SenderIsAuthentic
<1>2. QED
  BY <1>1, InvCorrect, PTL

\* As long as no login is refused for a taken slot, every connection that has
\* logged in is in its slot with a thread that attends to it, until the thread
\* closes it.
THEOREM ServedCorrect == Spec /\ NoEviction => []SessionIsServed
<1>1. Init => Inv /\ ServedInv
  BY InvInit
<1>2. Inv /\ ServedInv /\ [Next]_vars /\ [~LoginRefused]_vars =>
        Inv' /\ ServedInv'
  BY InvNext, ServedNext
<1>3. Inv /\ ServedInv => SessionIsServed
  BY ServedSessions
<1>4. QED
  BY <1>1, <1>2, <1>3, PTL DEF Spec, NoEviction

\* A message for slot s is about to be written to another client's connection.
Misrouted(t, s) ==
  /\ pc[t] = "write" /\ Lowest(s, todo[t])
  /\ ConnOf(fd[s]) # NoConn /\ login[ConnOf(fd[s])] # s

\* As long as no login is refused for a taken slot, the addressee's thread has
\* closed its descriptor and not yet cleared the slot whenever a message is
\* written to another client: nothing but the time between lines 289 and 296
\* misroutes.
THEOREM MisroutedOnlyWhileLeaving ==
  Spec /\ NoEviction =>
    [](\A t \in Threads, s \in Slots : Misrouted(t, s) =>
         \E u \in Threads : slot[u] = s /\ pc[u] \in {"lock", "clear"})
<1> DEFINE Window ==
      \A t \in Threads, s \in Slots : Misrouted(t, s) =>
        \E u \in Threads : slot[u] = s /\ pc[u] \in {"lock", "clear"}
<1>1. Inv => Window
  BY DEF Inv, SessionInv, SlotHoldsItsClient, HoldsOwn, Misrouted, ConnOf
<1>2. QED
  BY <1>1, InvCorrect, PTL

\* The counted threads, and the acceptor when it is about to start one, have a
\* taken slot each.
LEMMA CountedReachable == Inv => CountedAreReachable
<1> SUFFICES ASSUME Inv PROVE CountedAreReachable
  OBVIOUS
<1> DEFINE Taken == {s \in Slots : fd[s] # -1}
           Starting == IF apc = "create" THEN {Acceptor} ELSE {}
           Sharers == Counted \cup Starting
           f == [p \in Sharers |-> IF p = Acceptor THEN aslot ELSE slot[p]]
<1>1. \A t \in Threads : t # Acceptor
  OBVIOUS
<1>2. \A t \in Counted : Live(t) /\ t \in Threads
  BY DEF Counted, Live
<1>3. \A p \in Sharers : f[p] \in Taken
  <2>1. \A t \in Counted : f[t] = slot[t] /\ slot[t] \in Taken
    BY <1>1, <1>2 DEF Inv, SessionInv, TypeOK, ThreadsType
  <2>2. Acceptor \in Sharers => apc = "create"
    BY <1>1, <1>2
  <2>3. apc = "create" => aslot \in Taken
    BY DEF Inv, AcceptorInv, TypeOK, AcceptorType
  <2>4. QED
    BY <1>1, <1>2, <2>1, <2>2, <2>3
<1>4. \A p, q \in Sharers : f[p] = f[q] => p = q
  <2>1. \A t, u \in Counted : slot[t] = slot[u] => t = u
    BY <1>2 DEF Inv, SessionInv, OneThreadPerSlot
  <2>2. \A t \in Counted : apc = "create" => slot[t] # aslot
    BY <1>2 DEF Inv, AcceptorInv, LoggingIn
  <2>3. QED
    BY <1>1, <1>2, <2>1, <2>2
<1>5. IsFiniteSet(Slots)
  BY FS_Interval
<1>6. IsFiniteSet(Taken)
  BY <1>5, FS_Subset
<1>7. f \in Injection(Sharers, Taken)
  BY <1>3, <1>4 DEF Injection, IsInjective
<1>8. Cardinality(Sharers) <= Cardinality(Taken)
  BY <1>6, <1>7, FS_Injection
<1>9. client_count = Cardinality(Sharers)
  <2>1. client_count = Cardinality(Counted) + (IF apc = "create" THEN 1 ELSE 0)
    BY DEF Inv, CountMatchesThreads
  <2>2. IsFiniteSet(Counted) /\ Acceptor \notin Counted
        /\ Cardinality(Counted) \in Nat
    BY <1>1, <1>2, CountedFinite
  <2>3. Cardinality(Counted \cup {Acceptor}) = Cardinality(Counted) + 1
    BY <2>2, FS_AddElement
  <2>4. QED
    BY <2>1, <2>2, <2>3
<1>10. QED
  BY <1>8, <1>9 DEF CountedAreReachable

\* As long as no login is refused for a taken slot, every client counted
\* against the limit has a slot.
THEOREM CountedReachableCorrect == Spec /\ NoEviction => []CountedAreReachable
<1>1. Inv => CountedAreReachable
  BY CountedReachable
<1>2. QED
  BY <1>1, InvCorrect, PTL

\* As long as no login is refused for a taken slot, the server closes no session
\* that its client keeps open: a number that is closed is that of a client that
\* has ended.
THEOREM SessionsCorrect == Spec /\ NoEviction => SessionsSurvive
<1> DEFINE Survive ==
      \A f \in Fds :
        LET c == open[f]
        IN  c # NoConn /\ login[c] # NOBODY /\ ~Ended(c) => open'[f] = c
<1>1. Inv /\ [Next]_vars => [Survive]_vars
  <2> SUFFICES ASSUME Inv, [Next]_vars PROVE Survive \/ UNCHANGED vars
    OBVIOUS
  <2>1. ASSUME NEW t \in Threads, Close(t) PROVE Survive
    <3>1. fd[slot[t]] \in Fds /\ Ended(open[fd[slot[t]]])
      BY <2>1, ThreadHolds
      DEF Close, At, Live, Inv, SessionInv, ConnOf
    <3>2. open' = [open EXCEPT ![fd[slot[t]]] = NoConn]
      BY <2>1, <3>1 DEF Close
    <3>3. QED
      BY <3>1, <3>2 DEF Inv, TypeOK, NetworkType
  <2>2. CASE Accept
    BY <2>2 DEF Accept, Lowest, FreeFds, Inv, TypeOK, NetworkType
  <2>3. CASE ~Accept /\ ~(\E t \in Threads : Close(t)) /\ ~(UNCHANGED vars)
    <3>1. open' = open
      BY <2>3
      DEF Next, PeerNext, PeerConnect, PeerLogin, PeerSend, PeerClose,
          AcceptorNext, EnterRead, LoginEnds, LoginUnknown, LoginRefused,
          LoginMatched, LoginLock, LoginCount, LoginCreate, ThreadNext, Read,
          ReadEnds, Receive, Send, Write, Sent, Lock, Clear, network
    <3>2. QED
      BY <3>1
  <2>4. QED
    BY <2>1, <2>2, <2>3
<1>2. QED
  BY <1>1, InvCorrect, PTL DEF Spec, SessionsSurvive

-----------------------------------------------------------------------------
(* The server implements Relay. *)

\* Between the close of its descriptor and the end of its thread a slot's
\* number never stands for a client of the slot.
Released ==
  \A t \in Threads : pc[t] \in {"lock", "clear"} => ~HoldsOwn(slot[t])

\* Only LoginLock makes a slot hold a client that it did not hold.
LEMMA NothingGained ==
  ASSUME Inv, [Next]_vars, NEW s \in Slots, HoldsOwn(s)',
         fd'[s] = fd[s] \/ (fd'[s] # -1 /\ ~LoginLock)
  PROVE  /\ fd'[s] = fd[s]
         /\ HoldsOwn(s)
         /\ ConnOf(fd[s])' = ConnOf(fd[s])
<1>1. fd'[s] = fd[s]
  <2>1. CASE LoginRefused
    BY <2>1 DEF LoginRefused, Inv, TypeOK, TableType
  <2>2. ASSUME NEW t \in Threads, Clear(t) PROVE fd'[s] = fd[s]
    BY <2>2 DEF Clear, Inv, TypeOK, TableType, ThreadsType
  <2>3. CASE ~LoginRefused /\ ~LoginLock /\ ~(\E t \in Threads : Clear(t))
    BY <2>3
    DEF Next, PeerNext, PeerConnect, PeerLogin, PeerSend, PeerClose,
        AcceptorNext, Accept, EnterRead, LoginEnds, LoginUnknown, LoginMatched,
        LoginCount, LoginCreate, ThreadNext, Read, ReadEnds, Receive, Send,
        Write, Sent, Close, Lock, table, vars
  <2>4. QED
    BY <2>1, <2>2, <2>3
<1>2. fd[s] \in Fds \cup {-1}
  BY DEF Inv, TypeOK, TableType
<1>3. ConnOf(fd[s])' = ConnOf(fd[s]) /\ login[ConnOf(fd[s])] = s
  <2>1. CASE Accept
    <3>1. backlog \in Seq(Conns) /\ backlog # <<>>
      BY <2>1 DEF Inv, TypeOK, NetworkType, Accept
    <3>2. 1 \in DOMAIN backlog /\ backlog[1] = Head(backlog)
          /\ backlog[1] \in Conns
      BY <3>1
    <3>3. login[Head(backlog)] = NOBODY /\ login' = login
      BY <2>1, <3>2 DEF Inv, QueueInv, Waiting, Accept
    <3>4. PICK f \in Fds : open' = [open EXCEPT ![f] = Head(backlog)]
      BY <2>1 DEF Accept
    <3>5. fd[s] # f
      BY <1>1, <3>3, <3>4, NamesAssumption
      DEF HoldsOwn, ConnOf, Inv, TypeOK, NetworkType
    <3>6. QED
      BY <1>1, <1>2, <3>3, <3>4, <3>5
      DEF HoldsOwn, ConnOf, Inv, TypeOK, NetworkType
  <2>2. CASE LoginMatched
    <3>1. open' = open /\ fd' = fd
      BY <2>2 DEF LoginMatched, table
    <3>2. PICK u \in Slots : fd[u] = -1 /\ login' = [login EXCEPT ![aconn] = u]
      BY <2>2 DEF LoginMatched
    <3>3. s # u
      BY <3>1, <3>2 DEF HoldsOwn, ConnOf
    <3>4. QED
      BY <1>1, <3>1, <3>2, <3>3
      DEF HoldsOwn, ConnOf, Inv, TypeOK, NetworkType
  <2>3. ASSUME NEW c \in Conns, PeerConnect(c)
        PROVE  ConnOf(fd[s])' = ConnOf(fd[s]) /\ login[ConnOf(fd[s])] = s
    BY <1>1, <2>3, NamesAssumption
    DEF PeerConnect, HoldsOwn, ConnOf, Inv, TypeOK, NetworkType
  <2>4. ASSUME NEW t \in Threads, Close(t)
        PROVE  ConnOf(fd[s])' = ConnOf(fd[s]) /\ login[ConnOf(fd[s])] = s
    <3>1. login' = login /\ \A f \in Fds : open'[f] \in {open[f], NoConn}
      BY <2>4 DEF Close, Inv, TypeOK, NetworkType
    <3>2. QED
      BY <1>1, <1>2, <3>1 DEF HoldsOwn, ConnOf
  <2>5. CASE /\ ~Accept /\ ~LoginMatched
             /\ ~(\E c \in Conns : PeerConnect(c))
             /\ ~(\E t \in Threads : Close(t))
    <3>1. open' = open /\ login' = login
      BY <2>5
      DEF Next, PeerNext, PeerLogin, PeerSend, PeerClose, AcceptorNext,
          EnterRead, LoginEnds, LoginUnknown, LoginRefused, LoginLock,
          LoginCount, LoginCreate, ThreadNext, Read, ReadEnds, Receive, Send,
          Write, Sent, Lock, Clear, network, vars
    <3>2. QED
      BY <1>1, <3>1 DEF HoldsOwn, ConnOf
  <2>6. QED
    BY <2>1, <2>2, <2>3, <2>4, <2>5
<1>4. QED
  BY <1>1, <1>3 DEF HoldsOwn

LEMMA ReleasedNext == Inv /\ Released /\ [Next]_vars => Released'
<1> SUFFICES ASSUME Inv, Released, [Next]_vars,
                    NEW t \in Threads, pc'[t] \in {"lock", "clear"},
                    NEW s \in Slots, s = slot'[t], HoldsOwn(s)'
             PROVE  FALSE
  BY TypeNext DEF Released, Inv, TypeOK, ThreadsType
<1>1. CASE Close(t)
  <2>1. fd[slot[t]] \in Fds /\ open' = [open EXCEPT ![fd[slot[t]]] = NoConn]
        /\ slot' = slot /\ fd' = fd
    BY <1>1, ThreadHolds DEF Close, At, Live, Inv, table
  <2>2. QED
    BY <2>1 DEF HoldsOwn, ConnOf, Inv, TypeOK, NetworkType
<1>2. CASE ~Close(t)
  <2>1. pc[t] \in {"lock", "clear"} /\ slot'[t] = slot[t]
    BY <1>2
    DEF Next, PeerNext, PeerConnect, PeerLogin, PeerSend, PeerClose,
        AcceptorNext, Accept, EnterRead, LoginEnds, LoginUnknown, LoginRefused,
        LoginMatched, LoginLock, LoginCount, LoginCreate, ThreadNext, Read,
        ReadEnds, Receive, Send, Write, Sent, Close, Lock, Clear, threads,
        vars, At, Inv, TypeOK, ThreadsType
  <2>2. fd'[s] = fd[s] \/ (fd'[s] # -1 /\ ~LoginLock)
    <3>1. CASE LoginLock
      <4>1. aslot # s
        BY <2>1, <3>1
        DEF LoginLock, LoggingIn, Live, Inv, AcceptorInv
      <4>2. QED
        BY <3>1, <4>1 DEF LoginLock, Inv, TypeOK, TableType, AcceptorType
    <3>2. CASE ~LoginLock
      BY <3>2 DEF HoldsOwn, ConnOf
    <3>3. QED
      BY <3>1, <3>2
  <2>3. HoldsOwn(s)
    BY <2>2, NothingGained
  <2>4. QED
    BY <2>1, <2>3 DEF Released
<1>3. QED
  BY <1>1, <1>2

\* A slot keeps its own client until its thread closes the descriptor.
LEMMA NothingLost ==
  ASSUME Inv, Released, [Next]_vars, [~LoginRefused]_vars,
         NEW s \in Slots, HoldsOwn(s),
         \A t \in Threads : Close(t) => slot[t] # s
  PROVE  fd'[s] = fd[s] /\ Keeps(s)
<1>1. /\ fd[s] \in Fds /\ open[fd[s]] \in Conns /\ login[open[fd[s]]] = s
      /\ InUse(open[fd[s]]) /\ s # NOBODY
  BY NamesAssumption
  DEF HoldsOwn, ConnOf, InUse, Inv, TypeOK, TableType, NetworkType
<1>2. CASE \/ \E c \in Conns : PeerNext(c)
           \/ AcceptorNext /\ ~LoginLock /\ ~LoginRefused
  <2>1. fd' = fd
    BY <1>2
    DEF PeerNext, PeerConnect, PeerLogin, PeerSend, PeerClose, AcceptorNext,
        Accept, EnterRead, LoginEnds, LoginUnknown, LoginMatched, LoginCount,
        LoginCreate, table
  <2>2. \A f \in Fds : open[f] # NoConn => open'[f] = open[f]
    BY <1>2
    DEF PeerNext, PeerConnect, PeerLogin, PeerSend, PeerClose, AcceptorNext,
        Accept, EnterRead, LoginEnds, LoginUnknown, LoginMatched, LoginCount,
        LoginCreate, network, Lowest, FreeFds, Inv, TypeOK, NetworkType
  <2>3. \A d \in Conns : InUse(d) /\ login[d] # NOBODY => login'[d] = login[d]
    <3>1. CASE LoginMatched
      <4>1. aconn \in Conns /\ login[aconn] = NOBODY
        BY <3>1, AcceptorReads DEF LoginMatched, LoginRead
      <4>2. QED
        BY <3>1, <4>1 DEF LoginMatched, Inv, TypeOK, NetworkType
    <3>2. CASE ~LoginMatched
      BY <1>2, <3>2
      DEF PeerNext, PeerConnect, Reusable, PeerLogin, PeerSend, PeerClose,
          AcceptorNext, Accept, EnterRead, LoginEnds, LoginUnknown, LoginCount,
          LoginCreate, Inv, TypeOK, NetworkType
    <3>3. QED
      BY <3>1, <3>2
  <2>4. \A d \in Conns : InUse(d) /\ Ended(d) => Ended(d)'
    <3>1. CASE AcceptorNext /\ ~LoginLock /\ ~LoginRefused
      <4>1. peer' = peer \/ (\E c : ShutDown(c)) \/ (\E c : WriteTo(c))
        BY <3>1
        DEF AcceptorNext, Accept, EnterRead, LoginEnds, LoginUnknown,
            LoginMatched, LoginCount, LoginCreate, network
      <4>2. QED
        BY <4>1, PeersKept DEF Inv
    <3>2. CASE \E c \in Conns : PeerNext(c)
      BY <3>2
      DEF PeerNext, PeerConnect, Reusable, PeerLogin, PeerSend, PeerClose, Inv,
          TypeOK, NetworkType, Ended
    <3>3. QED
      BY <1>2, <3>1, <3>2
  <2>5. QED
    BY <2>1, <2>2, <2>3, <2>4, KeepsAll DEF Inv
<1>3. CASE LoginLock
  <2>1. s # aslot
    BY <1>1, <1>3 DEF LoginLock, Inv, AcceptorInv
  <2>2. fd'[s] = fd[s] /\ open' = open /\ login' = login /\ peer' = peer
    BY <1>3, <2>1 DEF LoginLock, network, Inv, TypeOK, TableType, AcceptorType
  <2>3. QED
    BY <2>2 DEF Keeps, HoldsOwn, ConnOf, Ended
<1>4. ASSUME NEW t \in Threads, ThreadNext(t)
      PROVE  fd'[s] = fd[s] /\ Keeps(s)
  <2>1. fd'[s] = fd[s]
    <3>1. CASE Clear(t)
      <4>1. slot[t] # s
        BY <3>1 DEF Clear, At, Released
      <4>2. QED
        BY <3>1, <4>1 DEF Clear, Inv, TypeOK, TableType, ThreadsType
    <3>2. CASE ~Clear(t)
      BY <1>4, <3>2
      DEF ThreadNext, Read, ReadEnds, Receive, Send, Write, Sent, Close, Lock,
          table
    <3>3. QED
      BY <3>1, <3>2
  <2>2. open'[fd[s]] = open[fd[s]]
    <3>1. CASE Close(t)
      <4>1. /\ HoldsOwn(slot[t]) /\ slot[t] # s /\ fd[slot[t]] \in Fds
        BY <3>1, ThreadHolds DEF Close, At, Live, Inv
      <4>2. fd[slot[t]] # fd[s]
        BY <4>1 DEF HoldsOwn
      <4>3. QED
        BY <3>1, <1>1, <4>1, <4>2 DEF Close, Inv, TypeOK, NetworkType
    <3>2. CASE ~Close(t)
      BY <1>4, <3>2
      DEF ThreadNext, Read, ReadEnds, Receive, Send, Write, Sent, Clear, Lock,
          network
    <3>3. QED
      BY <3>1, <3>2
  <2>3. /\ login' = login
        /\ peer' = peer \/ \E c : WriteTo(c)
    BY <1>4
    DEF ThreadNext, Read, ReadEnds, Receive, Send, Write, Sent, Close, Lock,
        Clear, network
  <2>4. \A d \in Conns : Ended(d) => Ended(d)'
    BY <2>3, PeersKept DEF Inv
  <2>5. ConnOf(fd[s]) = open[fd[s]] /\ ConnOf(fd[s])' = open[fd[s]]
    BY <1>1, <2>1, <2>2 DEF ConnOf
  <2>6. QED
    BY <1>1, <2>1, <2>3, <2>4, <2>5, NoConnAssumption
    DEF Keeps, HoldsOwn
<1>5. CASE UNCHANGED vars
  BY <1>5 DEF vars, table, network, Keeps, HoldsOwn, ConnOf, Ended
<1>6. QED
  BY <1>2, <1>3, <1>4, <1>5 DEF Next

\* A session changes only where the acceptor takes a slot and where a thread
\* closes its descriptor.
LEMMA SessionSame ==
  ASSUME Inv, Released, [Next]_vars, [~LoginRefused]_vars, NEW s \in Slots,
         LoginLock => aslot # s,
         \A t \in Threads : Close(t) => slot[t] # s
  PROVE  SessionOf(s)' = SessionOf(s)
<1>1. LoginLock => fd'[s] = fd[s]
  BY DEF LoginLock, Inv, TypeOK, TableType, AcceptorType
<1>2. HoldsOwn(s) => fd'[s] = fd[s] /\ HoldsOwn(s)'
                     /\ ConnOf(fd[s])' = ConnOf(fd[s])
  BY NothingLost DEF Keeps
<1>3. HoldsOwn(s)' /\ fd'[s] # -1 => HoldsOwn(s)
  BY <1>1, NothingGained
<1>4. HoldsOwn(s) => fd[s] # -1
  BY DEF HoldsOwn, ConnOf
<1>5. QED
  BY <1>2, <1>3, <1>4 DEF SessionOf

\* A step changes Gone as Relay's clients do; a client that comes back is in no
\* session.
LEMMA GoneSteps ==
  ASSUME Inv, [Next]_vars
  PROVE  \/ Gone' = Gone
         \/ \E c \in Conns : Gone' = Gone \cup {c}
         \/ \E c \in Conns : Gone' = Gone \ {c} /\ ~InUse(c)
<1>1. ASSUME NEW c \in Conns, PeerConnect(c)
      PROVE  Gone' = Gone \ {c} /\ ~InUse(c)
  BY <1>1 DEF PeerConnect, Reusable, Gone, Ended, Inv, TypeOK, NetworkType
<1>2. ASSUME NEW c \in Conns, PeerClose(c) PROVE Gone' = Gone \cup {c}
  BY <1>2 DEF PeerClose, Gone, Ended, Inv, TypeOK, NetworkType
<1>3. ASSUME NEW c \in Conns, NEW s, PeerLogin(c, s) \/ PeerSend(c, s)
      PROVE  Gone' = Gone
  BY <1>3 DEF PeerLogin, PeerSend, Gone, Ended, Inv, TypeOK, NetworkType
<1>4. CASE AcceptorNext \/ (\E t \in Threads : ThreadNext(t)) \/ UNCHANGED vars
  <2>1. peer' = peer \/ (\E c : ShutDown(c)) \/ (\E c : WriteTo(c))
    BY <1>4
    DEF AcceptorNext, Accept, EnterRead, LoginEnds, LoginUnknown, LoginRefused,
        LoginMatched, LoginLock, LoginCount, LoginCreate, ThreadNext, Read,
        ReadEnds, Receive, Send, Write, Sent, Close, Lock, Clear, network, vars
  <2>2. QED
    BY <2>1
    DEF ShutDown, WriteTo, Gone, Ended, Inv, TypeOK, NetworkType
<1>5. QED
  BY <1>1, <1>2, <1>3, <1>4 DEF Next, PeerNext

LEMMA RelayInit == Init => R!Init
BY DEF Init, R!Init, Sessions, SessionOf, Gone, Ended

\* A session is a connection in use.
LEMMA SessionInUse ==
  ASSUME Inv, NEW s \in Slots, NEW c \in Conns, SessionOf(s) = c
  PROVE  HoldsOwn(s) /\ ConnOf(fd[s]) = c /\ InUse(c)
BY DEF SessionOf, HoldsOwn, ConnOf, InUse, Inv, TypeOK, TableType, NetworkType

LEMMA RelayJoin ==
  ASSUME Inv, Released, LoginLock PROVE \E c \in Conns : R!Join(aslot, c)
<1> DEFINE c == ConnOf(afd)
<1>1. /\ c \in Conns /\ login[c] = aslot /\ aslot \in Slots
      /\ fd[aslot] = -1 /\ fd' = [fd EXCEPT ![aslot] = afd]
      /\ open' = open /\ login' = login /\ peer' = peer /\ aslot' = aslot
      /\ afd \in Fds
  BY DEF LoginLock, network, LoggingIn, Inv, AcceptorInv, TypeOK,
         AcceptorType
<1>2. \A s \in Slots : SessionOf(s) # c
  BY <1>1, SessionInUse DEF HoldsOwn, SessionOf
<1>3. SessionOf(aslot) = NoConn
  BY <1>1 DEF SessionOf
<1>4. Next /\ ~LoginRefused /\ ~(\E t \in Threads : Close(t))
  BY DEF Next, AcceptorNext, LoginLock, LoginRefused, LoginRead, Close, acceptor
<1>5. \A s \in Slots \ {aslot} : SessionOf(s)' = SessionOf(s)
  BY <1>4, SessionSame
<1>6. \A s \in Slots : s = aslot => SessionOf(s)' = c
  BY <1>1 DEF SessionOf, HoldsOwn, ConnOf, Inv, TypeOK, TableType
<1>7. Sessions' = [Sessions EXCEPT ![aslot] = c]
  BY <1>1, <1>5, <1>6 DEF Sessions
<1>8. Gone' = Gone
  BY <1>1 DEF Gone, Ended
<1>9. QED
  BY <1>1, <1>2, <1>3, <1>7, <1>8 DEF R!Join, R!Holds, Sessions

LEMMA RelayLeave ==
  ASSUME Inv, Released, NEW t \in Threads, Close(t) PROVE R!Leave(slot[t])
<1> DEFINE s == slot[t]
<1>1. /\ s \in Slots /\ fd[s] \in Fds /\ HoldsOwn(s)
      /\ ConnOf(fd[s]) \in Conns /\ Ended(ConnOf(fd[s]))
  BY ThreadHolds
  DEF Close, At, Live, Inv, SessionInv, TypeOK, ThreadsType
<1>2. /\ open' = [open EXCEPT ![fd[s]] = NoConn] /\ peer' = peer
      /\ fd' = fd /\ slot' = slot
  BY <1>1 DEF Close, table
<1>3. SessionOf(s) \in Gone
  BY <1>1 DEF SessionOf, Gone
<1>4. \A r \in Slots : r = s => SessionOf(r)' = NoConn
  BY <1>1, <1>2 DEF SessionOf, HoldsOwn, ConnOf, Inv, TypeOK, NetworkType
<1>5. Next /\ ~LoginRefused /\ ~LoginLock
  BY DEF Next, ThreadNext, LoginLock, LoginRefused, LoginRead, Close, acceptor,
         At, Inv, TypeOK, AcceptorType
<1>6. \A u \in Threads : Close(u) => slot[u] = s
  BY DEF Close, At, Inv, TypeOK, ThreadsType
<1>7. \A r \in Slots \ {s} : SessionOf(r)' = SessionOf(r)
  BY <1>5, <1>6, SessionSame
<1>8. Sessions' = [Sessions EXCEPT ![s] = NoConn]
  BY <1>1, <1>4, <1>7 DEF Sessions
<1>9. Gone' = Gone
  BY <1>2 DEF Gone, Ended
<1>10. QED
  BY <1>1, <1>3, <1>8, <1>9 DEF R!Leave, Sessions

LEMMA RelayNext ==
  Inv /\ Released /\ [Next]_vars /\ [~LoginRefused]_vars =>
    [R!Next]_<<Sessions, Gone>>
<1> SUFFICES ASSUME Inv, Released, [Next]_vars, [~LoginRefused]_vars
             PROVE  [R!Next]_<<Sessions, Gone>>
  OBVIOUS
<1>1. CASE LoginLock
  <2>1. aslot \in Slots
    BY DEF Inv, TypeOK, AcceptorType
  <2>2. QED
    BY <1>1, <2>1, RelayJoin DEF R!Next
<1>2. ASSUME NEW t \in Threads, Close(t) PROVE R!Next
  <2>1. slot[t] \in Slots
    BY DEF Inv, TypeOK, ThreadsType
  <2>2. QED
    BY <1>2, <2>1, RelayLeave DEF R!Next
<1>3. CASE ~LoginLock /\ ~(\E t \in Threads : Close(t))
  <2>1. Sessions' = Sessions
    BY <1>3, SessionSame DEF Sessions
  <2>2. ASSUME NEW c \in Conns, Gone' = Gone \cup {c} PROVE R!Go(c)
    BY <2>1, <2>2 DEF R!Go
  <2>3. ASSUME NEW c \in Conns, Gone' = Gone \ {c}, ~InUse(c) PROVE R!Return(c)
    BY <2>1, <2>3, SessionInUse DEF R!Return, R!Holds, Sessions
  <2>4. QED
    BY <2>1, <2>2, <2>3, GoneSteps DEF R!Next
<1>4. QED
  BY <1>1, <1>2, <1>3

\* As long as no login is refused for a taken slot, the server implements Relay:
\* sessions begin where a slot is taken under the mutex and end where a thread
\* closes its descriptor, and whatever else overlaps with these steps is
\* invisible.
THEOREM RelayCorrect == Spec /\ NoEviction => ImplementsRelay
<1>1. Init => R!Init /\ Inv /\ Released
  BY RelayInit, InvInit DEF Init, Released
<1>2. Inv /\ Released /\ [Next]_vars /\ [~LoginRefused]_vars =>
        Inv' /\ Released'
  BY InvNext, ReleasedNext
<1>3. Inv /\ Released /\ [Next]_vars /\ [~LoginRefused]_vars =>
        [R!Next]_<<Sessions, Gone>>
  BY RelayNext
<1>4. QED
  BY <1>1, <1>2, <1>3, PTL DEF Spec, NoEviction, ImplementsRelay, R!Spec

==============================================================================
