---------------------------- MODULE PatientProofs ----------------------------
(***************************************************************************)
(* Proofs about CmsServer with patient devices, for every value of its     *)
(* other constants: a device that found its slot free is never refused, so *)
(* all that SessionProofs shows of sessions holds.                         *)
(***************************************************************************)
EXTENDS SessionProofs

USE CountAssumption, NoConnAssumption DEF Slots, Fds, Threads, Acceptor, Nobody

-----------------------------------------------------------------------------
(* The invariant. *)

\* The first unread line of c asks for slot s.
Asks(c, s) ==
  inbox[c] # <<>> /\ inbox[c][1] = [cmd |-> "LOGIN", to |-> s]

\* The server has not yet read a line of c.
Unread(c) ==
  Waiting(c) \/ (apc \in {"enter", "read"} /\ ConnOf(afd) = c)

\* A connection starts with its login line and has no other.
LinesInv ==
  /\ \A c \in Conns : \A i \in DOMAIN inbox[c] :
       inbox[c][i].cmd = "LOGIN" => i = 1
  /\ \A c \in Conns : peer[c] \in {"none", "silent"} => inbox[c] = <<>>
  /\ \A c \in Conns : Unread(c) =>
       /\ peer[c] = "talking" => inbox[c] # <<>>
       /\ inbox[c] # <<>> => inbox[c][1].cmd = "LOGIN"

\* A slot is asked for by one connection, and only while it is free.
AsksInv ==
  /\ \A c, d \in Conns : \A s \in Slots : Asks(c, s) /\ Asks(d, s) => c = d
  /\ \A c \in Conns : \A s \in Slots : Asks(c, s) =>
       fd[s] = -1 /\ ~(LoggingIn /\ aslot = s)

-----------------------------------------------------------------------------
(* What the server reads. *)

\* The acceptor reads the login line of a connection that nobody else reads.
LEMMA AcceptorUnread ==
  ASSUME Inv, apc = "read" PROVE Unread(aconn)
BY AcceptorReads DEF Unread

\* A login line that the acceptor reads is a request for its slot.
LEMMA AcceptorAsked ==
  ASSUME Inv, LinesInv, LoginRead, NEW s \in Slots, Head(inbox[aconn]).to = s
  PROVE  Asks(aconn, s)
<1>1. aconn \in Conns /\ Unread(aconn) /\ inbox[aconn] # <<>>
  BY AcceptorReads, AcceptorUnread DEF LoginRead
<1>2. inbox[aconn] \in Seq(Lines) /\ inbox[aconn][1].cmd = "LOGIN"
  BY <1>1 DEF Inv, LinesInv, TypeOK, NetworkType
<1>3. inbox[aconn][1] \in Lines /\ Head(inbox[aconn]) = inbox[aconn][1]
  BY <1>1, <1>2
<1>4. inbox[aconn][1] = [cmd |-> "LOGIN", to |-> s]
  BY <1>2, <1>3 DEF Lines
<1>5. QED
  BY <1>1, <1>4 DEF Asks

\* A thread does not read from a connection before the acceptor has.
LEMMA ThreadUnread ==
  ASSUME Inv, NEW t \in Threads, pc[t] = "blocked" PROVE ~Unread(reading[t])
<1>1. /\ reading[t] \in Conns /\ login[reading[t]] # NOBODY /\ InUse(reading[t])
  BY ThreadReads
<1>2. QED
  BY <1>1 DEF Unread, Inv, AcceptorInv, QueueInv

\* What a read leaves behind has no login line.
LEMMA ChunkLines ==
  ASSUME TypeOK, LinesInv, NEW c \in Conns, inbox[c] # <<>>, TakeChunk(c)
  PROVE  /\ \A i \in DOMAIN inbox'[c] : inbox'[c][i].cmd # "LOGIN"
         /\ \A s \in Slots : ~Asks(c, s)'
         /\ \A d \in Conns \ {c} : inbox'[d] = inbox[d]
<1>1. PICK n \in 1 .. Len(inbox[c]) :
        inbox' = [inbox EXCEPT ![c] = SubSeq(@, n + 1, Len(@))]
  BY DEF TakeChunk
<1>2. inbox[c] \in Seq(Lines) /\ inbox \in [Conns -> Seq(Lines)]
  BY DEF TypeOK, NetworkType
<1>3. inbox'[c] = SubSeq(inbox[c], n + 1, Len(inbox[c]))
  BY <1>1, <1>2
<1>4. /\ Len(inbox'[c]) = Len(inbox[c]) - n
      /\ DOMAIN inbox'[c] = 1 .. Len(inbox[c]) - n
      /\ \A i \in 1 .. Len(inbox[c]) - n : inbox'[c][i] = inbox[c][i + n]
  BY <1>2, <1>3
<1>5. \A i \in DOMAIN inbox'[c] :
        i + n \in DOMAIN inbox[c] /\ i + n # 1 /\ inbox'[c][i] = inbox[c][i + n]
  BY <1>2, <1>4
<1>6. \A i \in DOMAIN inbox'[c] : inbox'[c][i].cmd # "LOGIN"
  BY <1>5 DEF LinesInv
<1>7. inbox'[c] # <<>> => 1 \in DOMAIN inbox'[c]
  BY <1>2, <1>4
<1>8. \A s \in Slots : ~Asks(c, s)'
  BY <1>6, <1>7 DEF Asks
<1>9. \A d \in Conns \ {c} : inbox'[d] = inbox[d]
  BY <1>1, <1>2
<1>10. QED
  BY <1>6, <1>8, <1>9

-----------------------------------------------------------------------------
(* Login lines. *)

\* A step that sends and reads nothing.
LEMMA LinesFrame ==
  ASSUME LinesInv, inbox' = inbox,
         \A c \in Conns : peer'[c] \in {"none", "silent", "talking"} =>
           peer'[c] = peer[c],
         \A c \in Conns : Unread(c)' => Unread(c)
  PROVE  LinesInv'
BY DEF LinesInv

LEMMA LinesConnect ==
  ASSUME Inv, LinesInv, NEW c \in Conns, PeerConnect(c) PROVE LinesInv'
<1>1. /\ inbox' = [inbox EXCEPT ![c] = <<>>]
      /\ peer' = [peer EXCEPT ![c] = "silent"]
      /\ inbox'[c] = <<>> /\ peer'[c] = "silent"
      /\ \A d \in Conns \ {c} : inbox'[d] = inbox[d] /\ peer'[d] = peer[d]
  BY DEF PeerConnect, Inv, TypeOK, NetworkType
<1>2. \A d \in Conns : Unread(d)' => Unread(d) \/ d = c
  BY DEF PeerConnect, Unread, Waiting, ConnOf, acceptor, Inv, TypeOK,
         NetworkType
<1>3. \A d \in Conns \ {c} : /\ Unread(d)' => Unread(d)
                             /\ inbox'[d] = inbox[d] /\ peer'[d] = peer[d]
  BY <1>1, <1>2
<1>4. QED
  BY <1>1, <1>3 DEF LinesInv, Inv

LEMMA LinesLogin ==
  ASSUME Inv, LinesInv, NEW c \in Conns, NEW s \in Registered \cup {NOBODY},
         PeerLogin(c, s)
  PROVE  LinesInv'
<1> DEFINE line == [cmd |-> "LOGIN", to |-> s]
<1>1. inbox[c] = <<>>
  BY DEF PeerLogin, Inv, LinesInv
<1>2. /\ inbox'[c] = <<line>>
      /\ peer'[c] = "talking"
      /\ \A d \in Conns \ {c} : inbox'[d] = inbox[d] /\ peer'[d] = peer[d]
  BY <1>1 DEF PeerLogin, Inv, TypeOK, NetworkType
<1>3. \A d \in Conns : Unread(d)' => Unread(d)
  BY DEF PeerLogin, Unread, Waiting, ConnOf, acceptor
<1>4. /\ \A i \in DOMAIN inbox'[c] : i = 1
      /\ inbox'[c] # <<>> /\ inbox'[c][1].cmd = "LOGIN"
  BY <1>2
<1>5. QED
  BY <1>2, <1>3, <1>4 DEF LinesInv, Inv

LEMMA LinesSend ==
  ASSUME Inv, LinesInv, NEW c \in Conns, NEW s \in Registered \cup {ALL},
         PeerSend(c, s)
  PROVE  LinesInv'
<1> DEFINE line == [cmd |-> "MSG", to |-> s]
<1>1. /\ inbox[c] \in Seq(Lines) /\ peer[c] = "talking" /\ peer' = peer
      /\ inbox'[c] = Append(inbox[c], line)
      /\ \A d \in Conns \ {c} : inbox'[d] = inbox[d]
  BY DEF PeerSend, Inv, TypeOK, NetworkType
<1>2. /\ DOMAIN inbox'[c] = 1 .. Len(inbox[c]) + 1
      /\ DOMAIN inbox[c] = 1 .. Len(inbox[c])
      /\ \A i \in DOMAIN inbox[c] : inbox'[c][i] = inbox[c][i]
      /\ inbox'[c][Len(inbox[c]) + 1] = line
  BY <1>1
<1>3. \A d \in Conns : Unread(d)' => Unread(d)
  BY DEF PeerSend, Unread, Waiting, ConnOf, acceptor
<1>4. \A i \in DOMAIN inbox'[c] : inbox'[c][i].cmd = "LOGIN" => i = 1
  <2>1. SUFFICES ASSUME NEW i \in DOMAIN inbox'[c],
                        inbox'[c][i].cmd = "LOGIN"
                 PROVE  i = 1
    OBVIOUS
  <2>2. i # Len(inbox[c]) + 1
    BY <1>2, <2>1
  <2>3. i \in DOMAIN inbox[c]
    BY <1>1, <1>2, <2>1, <2>2
  <2>4. QED
    BY <1>2, <2>1, <2>3 DEF LinesInv, Inv
<1>5. inbox[c] # <<>> =>
        inbox'[c] # <<>> /\ inbox'[c][1] = inbox[c][1]
  BY <1>1, <1>2
<1>6. Unread(c) => inbox'[c] # <<>> /\ inbox'[c][1].cmd = "LOGIN"
  BY <1>1, <1>5 DEF LinesInv, Inv
<1>7. QED
  BY <1>1, <1>3, <1>4, <1>6 DEF LinesInv, Inv

\* Whoever reads a connection has taken its login line.
LEMMA LinesRead ==
  ASSUME Inv, LinesInv, NEW c \in Conns, inbox[c] # <<>>, TakeChunk(c),
         \A d \in Conns : peer'[d] \in {"none", "silent", "talking"} =>
           peer'[d] = peer[d],
         \A d \in Conns : Unread(d)' => Unread(d) /\ d # c
  PROVE  LinesInv'
<1>1. /\ \A i \in DOMAIN inbox'[c] : inbox'[c][i].cmd # "LOGIN"
      /\ \A d \in Conns \ {c} : inbox'[d] = inbox[d]
  BY ChunkLines DEF Inv
<1>2. peer'[c] \notin {"none", "silent"}
  BY DEF Inv, LinesInv
<1>3. QED
  BY <1>1, <1>2 DEF LinesInv, Inv

LEMMA LinesAcceptor ==
  ASSUME Inv, LinesInv, AcceptorNext PROVE LinesInv'
<1>1. CASE Accept
  <2>1. \A d \in Conns : Waiting(d)' => Waiting(d)
    <3>1. backlog \in Seq(Conns) /\ backlog # <<>> /\ backlog' = Tail(backlog)
      BY <1>1 DEF Inv, TypeOK, NetworkType, Accept
    <3>2. /\ DOMAIN backlog' = 1 .. Len(backlog) - 1
          /\ \A i \in DOMAIN backlog' :
               i + 1 \in DOMAIN backlog /\ backlog'[i] = backlog[i + 1]
      BY <3>1
    <3>3. QED
      BY <3>2 DEF Waiting
  <2>2. Waiting(Head(backlog))
    <3>1. backlog \in Seq(Conns) /\ backlog # <<>>
      BY <1>1 DEF Inv, TypeOK, NetworkType, Accept
    <3>2. 1 \in DOMAIN backlog /\ backlog[1] = Head(backlog)
      BY <3>1
    <3>3. QED
      BY <3>2 DEF Waiting
  <2>3. \A d \in Conns : Unread(d)' => Unread(d)
    <3>1. PICK f \in Fds :
            /\ open' = [open EXCEPT ![f] = Head(backlog)]
            /\ \/ apc' = "accept"
               \/ apc' = "enter" /\ afd' = f
      BY <1>1 DEF Accept
    <3>2. open'[f] = Head(backlog)
      BY <3>1 DEF Inv, TypeOK, NetworkType
    <3>3. QED
      BY <2>1, <2>2, <3>1, <3>2 DEF Unread, ConnOf
  <2>4. /\ inbox' = inbox
        /\ ShutDown(Head(backlog)) \/ peer' = peer
    BY <1>1 DEF Accept
  <2>5. QED
    BY <2>3, <2>4, PeersKept, LinesFrame DEF Inv
<1>2. CASE \/ EnterRead \/ LoginEnds \/ LoginLock \/ LoginCount \/ LoginCreate
  <2>1. \A d \in Conns : Unread(d)' => Unread(d)
    BY <1>2
    DEF EnterRead, LoginEnds, LoginLock, LoginCount, LoginCreate, Unread,
        Waiting, ConnOf, network
  <2>2. inbox' = inbox /\ (WriteTo(ConnOf(afd)) \/ peer' = peer)
    BY <1>2
    DEF EnterRead, LoginEnds, LoginLock, LoginCount, LoginCreate, network
  <2>3. QED
    BY <2>1, <2>2, PeersKept, LinesFrame DEF Inv
<1>3. CASE LoginUnknown \/ LoginRefused \/ LoginMatched
  <2>1. /\ LoginRead /\ backlog' = backlog /\ apc' \in {"accept", "lock"}
        /\ ShutDown(aconn) \/ peer' = peer
    BY <1>3 DEF LoginUnknown, LoginRefused, LoginMatched
  <2>2. /\ aconn \in Conns /\ inbox[aconn] # <<>> /\ TakeChunk(aconn)
        /\ ~Waiting(aconn)
    BY <2>1, AcceptorReads DEF LoginRead
  <2>3. \A d \in Conns : Unread(d)' => Unread(d) /\ d # aconn
    BY <2>1, <2>2 DEF Unread, Waiting
  <2>4. QED
    BY <2>1, <2>2, <2>3, PeersKept, LinesRead DEF Inv
<1>4. QED
  BY <1>1, <1>2, <1>3 DEF AcceptorNext

LEMMA LinesThread ==
  ASSUME Inv, LinesInv, NEW t \in Threads, ThreadNext(t) PROVE LinesInv'
<1>1. /\ apc' = apc /\ afd' = afd /\ backlog' = backlog
      /\ \A f \in Fds : open'[f] \in {open[f], NoConn}
  <2>1. CASE Close(t)
    BY <2>1 DEF Close, acceptor, Inv, TypeOK, NetworkType
  <2>2. CASE ~Close(t)
    BY <2>2 DEF ThreadNext, Read, ReadEnds, Receive, Send, Write, Sent, Lock,
                Clear, acceptor, network
  <2>3. QED
    BY <2>1, <2>2
<1>2. \A d \in Conns : Unread(d)' => Unread(d)
  BY <1>1 DEF Unread, Waiting, ConnOf
<1>3. CASE Receive(t)
  <2>1. /\ reading[t] \in Conns /\ ~Unread(reading[t])
        /\ inbox[reading[t]] # <<>> /\ TakeChunk(reading[t]) /\ peer' = peer
    BY <1>3, ThreadReads, ThreadUnread DEF Receive, At
  <2>2. QED
    BY <1>2, <2>1, LinesRead
<1>4. CASE ~Receive(t)
  <2>1. inbox' = inbox /\ (peer' = peer \/ \E c : WriteTo(c))
    BY <1>4 DEF ThreadNext, Read, ReadEnds, Send, Write, Sent, Close, Lock,
                Clear, network
  <2>2. QED
    BY <1>2, <2>1, PeersKept, LinesFrame DEF Inv
<1>5. QED
  BY <1>3, <1>4

LEMMA LinesNext == Inv /\ LinesInv /\ [Next]_vars => LinesInv'
<1> SUFFICES ASSUME Inv, LinesInv, [Next]_vars PROVE LinesInv'
  OBVIOUS
<1>1. ASSUME NEW c \in Conns, PeerClose(c) PROVE LinesInv'
  <2>1. /\ inbox' = inbox
        /\ \A d \in Conns : Unread(d)' => Unread(d)
    BY <1>1 DEF PeerClose, Unread, Waiting, ConnOf, acceptor
  <2>2. \A d \in Conns : peer'[d] \in {"none", "silent", "talking"} =>
          peer'[d] = peer[d]
    BY <1>1 DEF PeerClose, Inv, TypeOK, NetworkType
  <2>3. QED
    BY <2>1, <2>2, LinesFrame DEF Inv
<1>2. CASE UNCHANGED vars
  BY <1>2, LinesFrame
  DEF vars, network, acceptor, Unread, Waiting, ConnOf, Inv
<1>3. QED
  BY <1>1, <1>2, LinesConnect, LinesLogin, LinesSend, LinesAcceptor,
     LinesThread
  DEF Next, PeerNext

-----------------------------------------------------------------------------
(* Requests for slots. *)

\* A step that makes no request, and takes or assigns no slot that is asked for.
LEMMA AsksFrame ==
  ASSUME AsksInv,
         \A c \in Conns, s \in Slots : Asks(c, s)' => Asks(c, s),
         \A s \in Slots : (\E c \in Conns : Asks(c, s)') /\ fd[s] = -1
           => fd'[s] = -1,
         \A s \in Slots : (\E c \in Conns : Asks(c, s)') /\ LoggingIn'
           /\ aslot' = s => LoggingIn /\ aslot = s
  PROVE  AsksInv'
<1>1. \A c, d \in Conns : \A s \in Slots :
        Asks(c, s)' /\ Asks(d, s)' => c = d
  BY DEF AsksInv
<1>2. \A c \in Conns : \A s \in Slots : Asks(c, s)' =>
        fd'[s] = -1 /\ ~(LoggingIn' /\ aslot' = s)
  BY DEF AsksInv
<1>3. QED
  BY <1>1, <1>2 DEF AsksInv

LEMMA AsksConnect ==
  ASSUME Inv, LinesInv, AsksInv, NEW c \in Conns, PeerConnect(c) PROVE AsksInv'
<1>1. /\ inbox'[c] = <<>> /\ \A d \in Conns \ {c} : inbox'[d] = inbox[d]
      /\ fd' = fd /\ apc' = apc /\ aslot' = aslot
  BY DEF PeerConnect, Inv, TypeOK, NetworkType, table, acceptor
<1>2. \A d \in Conns, s \in Slots : Asks(d, s)' => Asks(d, s)
  BY <1>1 DEF Asks
<1>3. QED
  BY <1>1, <1>2, AsksFrame DEF Inv, LoggingIn

\* A patient device asks for a slot that is free and that nobody asks for.
LEMMA AsksLogin ==
  ASSUME PatientClients = TRUE, Inv, LinesInv, AsksInv,
         NEW c \in Conns, NEW s \in Registered \cup {NOBODY}, PeerLogin(c, s)
  PROVE  AsksInv'
<1> DEFINE line == [cmd |-> "LOGIN", to |-> s]
<1>1. /\ inbox[c] = <<>>
      /\ fd' = fd /\ apc' = apc /\ aslot' = aslot
  BY DEF PeerLogin, Inv, LinesInv, table, acceptor
<1>2. inbox'[c] = <<line>> /\ \A d \in Conns \ {c} : inbox'[d] = inbox[d]
  BY <1>1 DEF PeerLogin, Inv, TypeOK, NetworkType
<1>3. \A u \in Slots : Asks(c, u)' => u = s
  BY <1>2 DEF Asks
<1>4. \A d \in Conns \ {c}, u \in Slots : Asks(d, u)' <=> Asks(d, u)
  BY <1>2 DEF Asks
<1>5. CASE s \notin Slots
  <2>1. \A d \in Conns, u \in Slots : Asks(d, u)' => Asks(d, u)
    BY <1>3, <1>4, <1>5
  <2>2. QED
    BY <1>1, <2>1, AsksFrame DEF Inv, LoggingIn
<1>6. CASE s \in Slots
  <2>1. SlotQuiet(s)
    BY <1>6, NamesAssumption DEF PeerLogin
  <2>2. fd[s] = -1 /\ ~(LoggingIn /\ aslot = s)
    BY <2>1
    DEF SlotQuiet, LoggingIn, Inv, AcceptorInv, TypeOK, AcceptorType
  <2>3. \A d \in Conns : ~Asks(d, s)
    <3>1. \A d \in Conns : inbox[d] # <<>> => 1 \in DOMAIN inbox[d]
      BY DEF Inv, TypeOK, NetworkType
    <3>2. QED
      BY <2>1, <3>1 DEF SlotQuiet, Asks
  <2>4. \A d, e \in Conns : \A u \in Slots :
          Asks(d, u)' /\ Asks(e, u)' => d = e
    BY <1>3, <1>4, <2>3 DEF Inv, AsksInv
  <2>5. \A d \in Conns : \A u \in Slots : Asks(d, u)' =>
          fd[u] = -1 /\ ~(LoggingIn /\ aslot = u)
    BY <1>3, <1>4, <2>2 DEF Inv, AsksInv
  <2>6. QED
    BY <1>1, <2>4, <2>5 DEF AsksInv, LoggingIn
<1>7. QED
  BY <1>5, <1>6

LEMMA AsksSend ==
  ASSUME Inv, LinesInv, AsksInv, NEW c \in Conns,
         NEW s \in Registered \cup {ALL}, PeerSend(c, s)
  PROVE  AsksInv'
<1> DEFINE line == [cmd |-> "MSG", to |-> s]
<1>1. /\ inbox[c] \in Seq(Lines) /\ inbox'[c] = Append(inbox[c], line)
      /\ \A d \in Conns \ {c} : inbox'[d] = inbox[d]
      /\ fd' = fd /\ apc' = apc /\ aslot' = aslot
  BY DEF PeerSend, Inv, TypeOK, NetworkType, table, acceptor
<1>2. \/ inbox'[c][1] = inbox[c][1] /\ inbox[c] # <<>>
      \/ inbox'[c][1] = line
  BY <1>1
<1>3. \A u \in Slots : Asks(c, u)' => Asks(c, u)
  BY <1>2 DEF Asks
<1>4. \A d \in Conns, u \in Slots : Asks(d, u)' => Asks(d, u)
  BY <1>1, <1>3 DEF Asks
<1>5. QED
  BY <1>1, <1>4, AsksFrame DEF Inv, LoggingIn

\* Reading takes a request away and makes none.
LEMMA AsksRead ==
  ASSUME Inv, LinesInv, AsksInv, NEW c \in Conns, inbox[c] # <<>>, TakeChunk(c)
  PROVE  \A d \in Conns, s \in Slots : Asks(d, s)' => Asks(d, s) /\ d # c
<1>1. /\ \A s \in Slots : ~Asks(c, s)'
      /\ \A d \in Conns \ {c} : inbox'[d] = inbox[d]
  BY ChunkLines DEF Inv
<1>2. QED
  BY <1>1 DEF Asks

LEMMA AsksAcceptor ==
  ASSUME Inv, LinesInv, AsksInv, AcceptorNext PROVE AsksInv'
<1>1. CASE \/ Accept \/ EnterRead \/ LoginEnds \/ LoginCount \/ LoginCreate
  <2>1. inbox' = inbox /\ fd' = fd
    BY <1>1
    DEF Accept, EnterRead, LoginEnds, LoginCount, LoginCreate, table, network
  <2>2. LoggingIn' => LoggingIn /\ aslot' = aslot
    BY <1>1
    DEF Accept, EnterRead, LoginEnds, LoginCount, LoginCreate, LoggingIn
  <2>3. QED
    BY <2>1, <2>2, AsksFrame DEF Asks, Inv
<1>2. CASE LoginUnknown \/ LoginRefused
  <2>1. /\ LoginRead /\ apc' = "accept"
        /\ \A s \in Slots : fd[s] = -1 => fd'[s] = -1
    BY <1>2 DEF LoginUnknown, LoginRefused, table, Inv, TypeOK, TableType
  <2>2. \A d \in Conns, s \in Slots : Asks(d, s)' => Asks(d, s)
    BY <2>1, AsksRead, AcceptorReads DEF LoginRead
  <2>3. ~LoggingIn'
    BY <2>1 DEF LoggingIn
  <2>4. QED
    BY <2>1, <2>2, <2>3, AsksFrame DEF Inv
<1>3. CASE LoginMatched
  <2>1. /\ LoginRead /\ fd' = fd
        /\ aslot' \in Slots /\ Head(inbox[aconn]).to = aslot'
    BY <1>3 DEF LoginMatched, table
  <2>2. aconn \in Conns /\ \A s \in Slots : s = aslot' => Asks(aconn, s)
    BY <2>1, AcceptorReads, AcceptorAsked DEF LoginRead
  <2>3. \A d \in Conns, s \in Slots : Asks(d, s)' => Asks(d, s) /\ d # aconn
    BY <2>1, <2>2, AsksRead DEF LoginRead
  <2>4. \A d \in Conns, s \in Slots : Asks(d, s)' => s # aslot'
    BY <2>2, <2>3 DEF Inv, AsksInv
  <2>5. QED
    BY <2>1, <2>3, <2>4, AsksFrame DEF Inv
<1>4. CASE LoginLock
  <2>1. /\ inbox' = inbox /\ LoggingIn /\ aslot' = aslot
        /\ \A s \in Slots : s # aslot => fd'[s] = fd[s]
    BY <1>4 DEF LoginLock, LoggingIn, network, Inv, TypeOK, TableType
  <2>2. \A d \in Conns, s \in Slots : Asks(d, s)' => Asks(d, s) /\ s # aslot
    BY <2>1 DEF Asks, Inv, AsksInv
  <2>3. QED
    BY <2>1, <2>2, AsksFrame DEF Inv
<1>5. QED
  BY <1>1, <1>2, <1>3, <1>4 DEF AcceptorNext

LEMMA AsksThread ==
  ASSUME Inv, LinesInv, AsksInv, NEW t \in Threads, ThreadNext(t) PROVE AsksInv'
<1>1. /\ apc' = apc /\ aslot' = aslot
      /\ \A s \in Slots : fd[s] = -1 => fd'[s] = -1
  <2>1. CASE Clear(t)
    BY <2>1 DEF Clear, acceptor, Inv, TypeOK, TableType
  <2>2. CASE ~Clear(t)
    BY <2>2 DEF ThreadNext, Read, ReadEnds, Receive, Send, Write, Sent, Close,
                Lock, acceptor, table
  <2>3. QED
    BY <2>1, <2>2
<1>2. \A d \in Conns, s \in Slots : Asks(d, s)' => Asks(d, s)
  <2>1. CASE Receive(t)
    BY <2>1, AsksRead, ThreadReads DEF Receive, At
  <2>2. CASE ~Receive(t)
    <3>1. inbox' = inbox
      BY <2>2 DEF ThreadNext, Read, ReadEnds, Send, Write, Sent, Close, Lock,
                  Clear, network
    <3>2. QED
      BY <3>1 DEF Asks
  <2>3. QED
    BY <2>1, <2>2
<1>3. QED
  BY <1>1, <1>2, AsksFrame DEF Inv, LoggingIn

LEMMA AsksNext ==
  ASSUME PatientClients = TRUE
  PROVE  Inv /\ LinesInv /\ AsksInv /\ [Next]_vars => AsksInv'
<1> SUFFICES ASSUME Inv, LinesInv, AsksInv, [Next]_vars PROVE AsksInv'
  OBVIOUS
<1>1. ASSUME NEW c \in Conns, PeerClose(c) PROVE AsksInv'
  BY <1>1, AsksFrame
  DEF PeerClose, table, acceptor, Asks, LoggingIn, Inv
<1>2. CASE UNCHANGED vars
  BY <1>2, AsksFrame
  DEF vars, table, network, acceptor, Asks, LoggingIn, Inv
<1>3. QED
  BY <1>1, <1>2, AsksConnect, AsksLogin, AsksSend, AsksAcceptor, AsksThread
  DEF Next, PeerNext

-----------------------------------------------------------------------------
(* What holds with patient devices. *)

PatientInv == Inv /\ LinesInv /\ AsksInv

\* A login that the acceptor reads asks for a slot that is free.
LEMMA NotRefused == PatientInv => ~LoginRefused
<1> SUFFICES ASSUME PatientInv, LoginRefused PROVE FALSE
  OBVIOUS
<1>1. PICK s \in Slots : Head(inbox[aconn]).to = s /\ fd[s] # -1
  BY DEF LoginRefused
<1>2. aconn \in Conns /\ Asks(aconn, s)
  BY <1>1, AcceptorReads, AcceptorAsked DEF LoginRefused, LoginRead, PatientInv
<1>3. QED
  BY <1>1, <1>2 DEF PatientInv, AsksInv

LEMMA PatientInit == Init => PatientInv
<1> SUFFICES ASSUME Init PROVE PatientInv
  OBVIOUS
<1>1. LinesInv
  BY DEF Init, LinesInv, Unread, Waiting
<1>2. AsksInv
  BY DEF Init, AsksInv, Asks
<1>3. QED
  BY <1>1, <1>2, InvInit DEF PatientInv

LEMMA PatientNext ==
  ASSUME PatientClients = TRUE PROVE PatientInv /\ [Next]_vars => PatientInv'
BY NotRefused, InvNext, LinesNext, AsksNext DEF PatientInv

\* The acceptor reads a line that a client has written, and reads it first, as
\* long as no session is evicted.
THEOREM HeardCorrect == Spec /\ NoEviction => []LoginIsHeard
<1>1. Init => Inv /\ LinesInv
  BY PatientInit DEF PatientInv
<1>2. Inv /\ LinesInv /\ [Next]_vars /\ [~LoginRefused]_vars
        => (Inv /\ LinesInv)'
  BY InvNext, LinesNext
<1>3. Inv /\ LinesInv => LoginIsHeard
  <2>1. SUFFICES ASSUME Inv, LinesInv, apc = "read", peer[aconn] = "talking"
                 PROVE  inbox[aconn] # <<>> /\ Head(inbox[aconn]).cmd = "LOGIN"
    BY DEF LoginIsHeard
  <2>2. aconn \in Conns /\ Unread(aconn)
    BY <2>1, AcceptorReads, AcceptorUnread
  <2>3. inbox[aconn] # <<>> /\ inbox[aconn][1].cmd = "LOGIN"
    BY <2>1, <2>2 DEF LinesInv
  <2>4. inbox[aconn] \in Seq(Lines)
    BY <2>1, <2>2 DEF Inv, TypeOK, NetworkType
  <2>5. Head(inbox[aconn]) = inbox[aconn][1]
    BY <2>3, <2>4
  <2>6. QED
    BY <2>3, <2>5
<1>4. QED
  BY <1>1, <1>2, <1>3, PTL DEF Spec, NoEviction

\* With patient devices no login is refused because its slot is taken: a slot
\* that is asked for is free and stays free until its login is read.
THEOREM NeverRefused == ASSUME PatientClients = TRUE PROVE Spec => NoEviction
<1>1. Init => PatientInv
  BY PatientInit
<1>2. PatientInv /\ [Next]_vars => PatientInv'
  BY PatientNext
<1>3. PatientInv /\ [Next]_vars => [~LoginRefused]_vars
  BY NotRefused
<1>4. QED
  BY <1>1, <1>2, <1>3, PTL DEF Spec, NoEviction

\* With patient devices sessions stay apart, are served and counted, end only
\* when their client has gone, and implement Relay, and the acceptor hears the
\* login of every connection that it waits for.
THEOREM PatientCorrect ==
  ASSUME PatientClients = TRUE
  PROVE  Spec => /\ []OneThreadPerSlot
                 /\ []SlotHoldsItsClient
                 /\ []SenderIsAuthentic
                 /\ []SessionIsServed
                 /\ []CountedAreReachable
                 /\ []LoginIsHeard
                 /\ SessionsSurvive
                 /\ ImplementsRelay
BY NeverRefused, OneThreadCorrect, SlotHoldsCorrect, SenderCorrect,
   ServedCorrect, CountedReachableCorrect, HeardCorrect, SessionsCorrect,
   RelayCorrect, PTL

==============================================================================
