------------------------------ MODULE CmsServer ------------------------------
(***************************************************************************)
(* The TCP relay server, src/RaspberryPI/cms_server.c.                     *)
(*                                                                         *)
(* One acceptor (main) authenticates each connection against the table     *)
(* client_info[] and starts one detached thread per login; each thread     *)
(* relays the messages it reads to the slots they address.  The threads    *)
(* share the table, client_count and the process's descriptor numbers.     *)
(* The mutex covers the two places that write both fd and client_count,    *)
(* and no other access.                                                    *)
(*                                                                         *)
(* A descriptor is a NUMBER: the kernel hands the lowest free number to    *)
(* each accepted connection, so a number that one thread has closed may    *)
(* mean another client's connection when somebody uses it next.            *)
(***************************************************************************)
EXTENDS Integers, Sequences, FiniteSets

CONSTANTS
  CLIENT_MAX_COUNT, \* slots of client_info[], and the most clients served
  Registered,       \* the slots that a line of idpw.txt gave a name
  MaxFd,            \* bound: descriptor numbers the process may hold
  Conns,            \* bound: TCP connections that exist at one time
  NoConn,           \* "no connection"
  MaxInbox,         \* bound: lines the peer may have sent and nobody read
  ALL,              \* the recipient of [DEBUG:ALL]
  NOBODY,           \* a name or password that no line of idpw.txt has
  PatientClients    \* TRUE: a device logs in only when its slot is free

ASSUME CountAssumption == CLIENT_MAX_COUNT \in Nat \ {0}
ASSUME RegisteredAssumption == Registered \subseteq 0 .. CLIENT_MAX_COUNT - 1
ASSUME BoundsAssumption == MaxFd \in Nat \ {0} /\ MaxInbox \in Nat \ {0}
ASSUME NoConnAssumption == NoConn \notin Conns
ASSUME PatientAssumption == PatientClients \in BOOLEAN
ASSUME NamesAssumption ==
  /\ ALL \notin 0 .. CLIENT_MAX_COUNT - 1
  /\ NOBODY \notin 0 .. CLIENT_MAX_COUNT - 1
  /\ ALL # NOBODY

Slots == 0 .. CLIENT_MAX_COUNT - 1
Fds == 1 .. MaxFd
\* Sessions alive at one time; CountMatchesThreads shows that they suffice.
Threads == 1 .. CLIENT_MAX_COUNT
Acceptor == 0
Nobody == -1

VARIABLES
  fd,           \* client_info[s].fd, -1 when nobody is logged in
  client_count, \* client_count
  mutex,        \* who holds the mutex: Nobody, Acceptor or a thread
  apc,          \* where the acceptor is in its loop
  afd,          \* its client_socket
  aconn,        \* the connection it is blocked in read() on
  aslot,        \* its i, once a login matched
  pc,           \* where each session thread is in client_connection
  slot,         \* the slot each thread was started for (its _arg)
  reading,      \* the connection a thread is blocked in read() on
  todo,         \* slots a thread's send_message has still to visit
  open,         \* the connection each descriptor number refers to
  backlog,      \* connections accept() has not returned yet
  peer,         \* what the other end of each connection has done
  inbox,        \* lines sent by the peer and not yet read
  login,        \* the slot a connection was logged in to (history)
  alive         \* FALSE once SIGPIPE has killed the process

table == <<fd, client_count, mutex>>
acceptor == <<apc, afd, aconn, aslot>>
threads == <<pc, slot, reading, todo>>
network == <<open, backlog, peer, inbox>>
vars == <<table, acceptor, threads, network, login, alive>>

Lines == [cmd : {"LOGIN"}, to : Registered \cup {NOBODY}]
           \cup [cmd : {"MSG"}, to : Registered \cup {ALL}]

Lowest(x, S) == x \in S /\ \A y \in S : x <= y

-----------------------------------------------------------------------------
(* The kernel: descriptor numbers and connections. *)

FreeFds == {f \in Fds : open[f] = NoConn}

\* What a number stands for: nothing when it is -1 or has been closed.
ConnOf(f) == IF f \in Fds THEN open[f] ELSE NoConn

Waiting(c) == \E i \in DOMAIN backlog : backlog[i] = c

InUse(c) == \/ \E f \in Fds : open[f] = c
            \/ \E t \in Threads : reading[t] = c
            \/ aconn = c

Ended(c) == peer[c] \in {"closed", "reset"}

\* A member of Conns that a new connection may take: never used, or closed by
\* the peer and given up by the server.
Reusable(c) == /\ peer[c] = "none" \/ Ended(c)
               /\ ~Waiting(c) /\ ~InUse(c)

\* One read() returns the first line and whatever has arrived behind it.
TakeChunk(c) ==
  \E n \in 1 .. Len(inbox[c]) :
    inbox' = [inbox EXCEPT ![c] = SubSeq(@, n + 1, Len(@))]

\* write() to a connection.  The first one after the peer has closed makes the
\* peer answer RST, sooner or later; one after the RST raises SIGPIPE, which
\* nothing in the program handles.
WriteTo(c) ==
  /\ peer' \in IF c \in Conns /\ peer[c] = "closed"
               THEN {peer, [peer EXCEPT ![c] = "reset"]} ELSE {peer}
  /\ alive' = ~(c \in Conns /\ peer[c] = "reset")

\* shutdown(SHUT_WR): the peer reads the end of the stream.
ShutDown(c) ==
  peer' = IF c \in Conns /\ peer[c] \in {"silent", "talking"}
          THEN [peer EXCEPT ![c] = "hungup"] ELSE peer

-----------------------------------------------------------------------------
(* The other ends of the connections. *)

\* connect(): the connection waits in the listen queue.
PeerConnect(c) ==
  /\ Reusable(c)
  /\ peer' = [peer EXCEPT ![c] = "silent"]
  /\ inbox' = [inbox EXCEPT ![c] = <<>>]
  /\ login' = [login EXCEPT ![c] = NOBODY]
  /\ backlog' = Append(backlog, c)
  /\ UNCHANGED <<table, acceptor, threads, open, alive>>

\* What a patient device waits for: its slot is free and nobody asks for it.
SlotQuiet(s) ==
  /\ fd[s] = -1
  /\ apc = "lock" => aslot # s
  /\ \A c \in Conns : \A i \in DOMAIN inbox[c] :
       inbox[c][i] # [cmd |-> "LOGIN", to |-> s]

\* [LOGIN]id|pw, with s = NOBODY when the server knows no such pair.
PeerLogin(c, s) ==
  /\ peer[c] = "silent"
  /\ (PatientClients /\ s # NOBODY) => SlotQuiet(s)
  /\ peer' = [peer EXCEPT ![c] = "talking"]
  /\ inbox' = [inbox EXCEPT ![c] = Append(@, [cmd |-> "LOGIN", to |-> s])]
  /\ UNCHANGED <<table, acceptor, threads, open, backlog, login, alive>>

\* [cmd:id]text or [DEBUG:ALL]text.  A name that no slot has is like one that
\* nobody is logged in under.
PeerSend(c, s) ==
  /\ peer[c] = "talking"
  /\ Waiting(c) \/ InUse(c)
  /\ Len(inbox[c]) < MaxInbox
  /\ inbox' = [inbox EXCEPT ![c] = Append(@, [cmd |-> "MSG", to |-> s])]
  /\ UNCHANGED <<table, acceptor, threads, open, backlog, peer, login, alive>>

PeerClose(c) ==
  /\ peer[c] \in {"silent", "talking", "hungup"}
  /\ peer' = [peer EXCEPT ![c] = "closed"]
  /\ UNCHANGED <<table, acceptor, threads, open, backlog, inbox, login, alive>>

-----------------------------------------------------------------------------
(* The acceptor: the while loop of main().  client_socket and i are set anew *)
(* before they are next read, and the model clears them when the loop starts *)
(* over.                                                                     *)

\* Mutant: the limit is tested with > instead of >=.
AcceptOneTooMany ==
  /\ alive /\ apc = "accept" /\ backlog # <<>>
  /\ \E f \in Fds :
       /\ Lowest(f, FreeFds)
       /\ open' = [open EXCEPT ![f] = Head(backlog)]
       /\ IF client_count > CLIENT_MAX_COUNT
          THEN ShutDown(Head(backlog)) /\ UNCHANGED <<apc, afd>>
          ELSE apc' = "enter" /\ afd' = f /\ UNCHANGED peer
  /\ backlog' = Tail(backlog)
  /\ UNCHANGED <<table, aconn, aslot, threads, inbox, login, alive>>

\* accept(); a full server shuts the connection down and goes on, and never
\* closes the descriptor.  Without a free number accept() fails and the loop
\* goes round with nothing changed.
Accept ==
  /\ alive /\ apc = "accept" /\ backlog # <<>>
  /\ \E f \in Fds :
       /\ Lowest(f, FreeFds)
       /\ open' = [open EXCEPT ![f] = Head(backlog)]
       /\ IF client_count >= CLIENT_MAX_COUNT
          THEN ShutDown(Head(backlog)) /\ UNCHANGED <<apc, afd>>
          ELSE apc' = "enter" /\ afd' = f /\ UNCHANGED peer
  /\ backlog' = Tail(backlog)
  /\ UNCHANGED <<table, aconn, aslot, threads, inbox, login, alive>>

\* The call of read(client_socket, idpw, ...).
EnterRead ==
  /\ alive /\ apc = "enter"
  /\ aconn' = ConnOf(afd)
  /\ IF ConnOf(afd) = NoConn
     THEN apc' = "accept" /\ afd' = -1
     ELSE apc' = "read" /\ UNCHANGED afd
  /\ UNCHANGED <<table, aslot, threads, network, login, alive>>

\* Mutant: the end of the stream before the login is read over and over.
LoginEndsRetries ==
  /\ alive /\ apc = "read" /\ inbox[aconn] = <<>> /\ Ended(aconn)
  /\ UNCHANGED vars

\* The read returns nothing: shut down, and the descriptor stays open.
LoginEnds ==
  /\ alive /\ apc = "read" /\ inbox[aconn] = <<>> /\ Ended(aconn)
  /\ apc' = "accept" /\ afd' = -1
  /\ aconn' = NoConn
  /\ UNCHANGED <<table, aslot, threads, network, login, alive>>

\* The read returns a line.  The next three actions are what the loop over
\* client_info[] makes of it.
LoginRead ==
  /\ alive /\ apc = "read" /\ inbox[aconn] # <<>>
  /\ TakeChunk(aconn)
  /\ aconn' = NoConn

\* No slot has this name and password, or the line is no login at all (the
\* login has been read by a thread that took the connection for its own): the
\* connection is refused.
LoginUnknown ==
  /\ LoginRead
  /\ Head(inbox[aconn]).cmd = "LOGIN" => Head(inbox[aconn]).to = NOBODY
  /\ ShutDown(aconn)
  /\ apc' = "accept" /\ afd' = -1
  /\ UNCHANGED <<table, aslot, threads, open, backlog, login, alive>>

\* "Already logged!": the connection is refused, and the slot is taken away
\* from the session that holds it, without the mutex.
LoginRefused ==
  /\ LoginRead
  /\ \E s \in Slots :
       /\ Head(inbox[aconn]) = [cmd |-> "LOGIN", to |-> s]
       /\ fd[s] # -1
       /\ fd' = [fd EXCEPT ![s] = -1]
  /\ ShutDown(aconn)
  /\ apc' = "accept" /\ afd' = -1
  /\ UNCHANGED <<client_count, mutex, aslot, threads, open, backlog, login,
                 alive>>

\* Mutant: a login takes the first free slot of the table.
LoginMatchedFirstFree ==
  /\ LoginRead
  /\ Head(inbox[aconn]) \in [cmd : {"LOGIN"}, to : Slots]
  /\ \E s \in Slots :
       /\ Lowest(s, {r \in Slots : fd[r] = -1})
       /\ aslot' = s
       /\ login' = [login EXCEPT ![aconn] = s]
  /\ apc' = "lock"
  /\ UNCHANGED <<table, afd, threads, open, backlog, peer, alive>>

LoginMatched ==
  /\ LoginRead
  /\ \E s \in Slots :
       /\ Head(inbox[aconn]) = [cmd |-> "LOGIN", to |-> s]
       /\ fd[s] = -1
       /\ aslot' = s
       /\ login' = [login EXCEPT ![aconn] = s]
  /\ apc' = "lock"
  /\ UNCHANGED <<table, afd, threads, open, backlog, peer, alive>>

\* Under the mutex: index and fd, then client_count.
LoginLock ==
  /\ alive /\ apc = "lock" /\ mutex = Nobody
  /\ mutex' = Acceptor
  /\ fd' = [fd EXCEPT ![aslot] = afd]
  /\ apc' = "count"
  /\ UNCHANGED <<client_count, afd, aconn, aslot, threads, network, login,
                 alive>>

LoginCount ==
  /\ alive /\ apc = "count"
  /\ client_count' = client_count + 1
  /\ mutex' = Nobody
  /\ apc' = "create"
  /\ UNCHANGED <<fd, afd, aconn, aslot, threads, network, login, alive>>

IdleThreads == {t \in Threads : pc[t] = "idle"}

\* write() of "New connected!", then pthread_create and pthread_detach.
LoginCreate ==
  /\ alive /\ apc = "create"
  /\ WriteTo(ConnOf(afd))
  /\ \E t \in Threads :
       /\ Lowest(t, IdleThreads)
       /\ pc' = [pc EXCEPT ![t] = "read"]
       /\ slot' = [slot EXCEPT ![t] = aslot]
  /\ apc' = "accept" /\ afd' = -1 /\ aslot' = 0
  /\ UNCHANGED <<table, aconn, reading, todo, open, backlog, inbox, login>>

AcceptorNext ==
  \/ Accept \/ EnterRead \/ LoginEnds \/ LoginUnknown \/ LoginRefused
  \/ LoginMatched \/ LoginLock \/ LoginCount \/ LoginCreate

-----------------------------------------------------------------------------
(* A session thread: client_connection() and the send_message() it calls. *)

At(t, label) == alive /\ pc[t] = label

\* The call of read(client_info->fd, ...): the slot's fd of this moment.
Read(t) ==
  /\ At(t, "read")
  /\ reading' = [reading EXCEPT ![t] = ConnOf(fd[slot[t]])]
  /\ pc' = [pc EXCEPT ![t] = IF ConnOf(fd[slot[t]]) = NoConn
                             THEN "close" ELSE "blocked"]
  /\ UNCHANGED <<table, acceptor, slot, todo, network, login, alive>>

\* Mutant: the loop ends on an error only, not at the end of the stream.
ReadEndsOnError(t) ==
  /\ At(t, "blocked")
  /\ inbox[reading[t]] = <<>> /\ Ended(reading[t])
  /\ pc' = [pc EXCEPT ![t] = IF peer[reading[t]] = "reset"
                             THEN "close" ELSE "read"]
  /\ reading' = [reading EXCEPT ![t] = NoConn]
  /\ UNCHANGED <<table, acceptor, slot, todo, network, login, alive>>

\* Mutant: a read that finds nothing ends the loop, as with a time limit.
ReadGivesUp(t) ==
  /\ At(t, "blocked")
  /\ inbox[reading[t]] = <<>>
  /\ pc' = [pc EXCEPT ![t] = "close"]
  /\ reading' = [reading EXCEPT ![t] = NoConn]
  /\ UNCHANGED <<table, acceptor, slot, todo, network, login, alive>>

\* read() returns 0 or an error, and the loop ends.
ReadEnds(t) ==
  /\ At(t, "blocked")
  /\ inbox[reading[t]] = <<>> /\ Ended(reading[t])
  /\ pc' = [pc EXCEPT ![t] = "close"]
  /\ reading' = [reading EXCEPT ![t] = NoConn]
  /\ UNCHANGED <<table, acceptor, slot, todo, network, login, alive>>

\* The slots a message is for.  strcmp finds the name of at most one of them,
\* and a login line that ends up here names none.
Recipients(line) ==
  IF line.cmd = "MSG" /\ line.to = ALL THEN Slots
  ELSE {s \in Slots : line.cmd = "MSG" /\ line.to = s}

\* read() returns a message.  strtok sees the first one of the chunk only.
\* (What overlapping parses do to each other is module MessageParse.)
Receive(t) ==
  /\ At(t, "blocked") /\ inbox[reading[t]] # <<>>
  /\ TakeChunk(reading[t])
  /\ reading' = [reading EXCEPT ![t] = NoConn]
  /\ todo' = [todo EXCEPT ![t] = Recipients(Head(inbox[reading[t]]))]
  /\ pc' = [pc EXCEPT ![t] = "send"]
  /\ UNCHANGED <<table, acceptor, slot, open, backlog, peer, login, alive>>

\* send_message: the next slot is skipped when nobody is logged in there.
Send(t) ==
  /\ At(t, "send")
  /\ \E s \in Slots :
       /\ Lowest(s, todo[t])
       /\ IF fd[s] # -1
          THEN pc' = [pc EXCEPT ![t] = "write"] /\ UNCHANGED todo
          ELSE todo' = [todo EXCEPT ![t] = @ \ {s}] /\ UNCHANGED pc
  /\ UNCHANGED <<table, acceptor, slot, reading, network, login, alive>>

\* write() to whatever the slot's fd stands for now; the result is ignored.
Write(t) ==
  /\ At(t, "write")
  /\ \E s \in Slots :
       /\ Lowest(s, todo[t])
       /\ WriteTo(ConnOf(fd[s]))
       /\ todo' = [todo EXCEPT ![t] = @ \ {s}]
  /\ pc' = [pc EXCEPT ![t] = "send"]
  /\ UNCHANGED <<table, acceptor, slot, reading, open, backlog, inbox, login>>

\* send_message returns, and the loop goes round.
Sent(t) ==
  /\ At(t, "send") /\ todo[t] = {}
  /\ pc' = [pc EXCEPT ![t] = "read"]
  /\ UNCHANGED <<table, acceptor, slot, reading, todo, network, login, alive>>

\* Mutant: the slot is freed together with the close, before the count.
CloseFreesSlot(t) ==
  /\ At(t, "close")
  /\ open' = IF fd[slot[t]] \in Fds
             THEN [open EXCEPT ![fd[slot[t]]] = NoConn] ELSE open
  /\ fd' = [fd EXCEPT ![slot[t]] = -1]
  /\ pc' = [pc EXCEPT ![t] = "lock"]
  /\ UNCHANGED <<client_count, mutex, acceptor, slot, reading, todo, backlog,
                 peer, inbox, login, alive>>

\* Mutant: after the close the thread goes round the loop again.
CloseGoesOn(t) ==
  /\ At(t, "close")
  /\ open' = IF fd[slot[t]] \in Fds
             THEN [open EXCEPT ![fd[slot[t]]] = NoConn] ELSE open
  /\ pc' = [pc EXCEPT ![t] = IF fd[slot[t]] \in Fds THEN "read" ELSE "lock"]
  /\ UNCHANGED <<table, acceptor, slot, reading, todo, backlog, peer, inbox,
                 login, alive>>

\* Mutant: the connection is shut down, and its descriptor stays open.
CloseKeepsNumber(t) ==
  /\ At(t, "close")
  /\ ShutDown(ConnOf(fd[slot[t]]))
  /\ pc' = [pc EXCEPT ![t] = "lock"]
  /\ UNCHANGED <<table, acceptor, slot, reading, todo, open, backlog, inbox,
                 login, alive>>

\* close(client_info->fd): again the slot's fd of this moment.
Close(t) ==
  /\ At(t, "close")
  /\ open' = IF fd[slot[t]] \in Fds
             THEN [open EXCEPT ![fd[slot[t]]] = NoConn] ELSE open
  /\ pc' = [pc EXCEPT ![t] = "lock"]
  /\ UNCHANGED <<table, acceptor, slot, reading, todo, backlog, peer, inbox,
                 login, alive>>

\* Mutant: client_count-- is left out.
LockKeepsCount(t) ==
  /\ At(t, "lock") /\ mutex = Nobody
  /\ mutex' = t
  /\ pc' = [pc EXCEPT ![t] = "clear"]
  /\ UNCHANGED <<fd, client_count, acceptor, slot, reading, todo, network,
                 login, alive>>

\* Under the mutex: client_count, then fd.
Lock(t) ==
  /\ At(t, "lock") /\ mutex = Nobody
  /\ mutex' = t
  /\ client_count' = client_count - 1
  /\ pc' = [pc EXCEPT ![t] = "clear"]
  /\ UNCHANGED <<fd, acceptor, slot, reading, todo, network, login, alive>>

\* Mutant: the mutex is not unlocked.
ClearKeepsMutex(t) ==
  /\ At(t, "clear")
  /\ fd' = [fd EXCEPT ![slot[t]] = -1]
  /\ pc' = [pc EXCEPT ![t] = "idle"]
  /\ slot' = [slot EXCEPT ![t] = 0]
  /\ UNCHANGED <<client_count, mutex, acceptor, reading, todo, network, login,
                 alive>>

\* Mutant: fd = -1 is left out.
ClearKeepsSlot(t) ==
  /\ At(t, "clear")
  /\ mutex' = Nobody
  /\ pc' = [pc EXCEPT ![t] = "idle"]
  /\ slot' = [slot EXCEPT ![t] = 0]
  /\ UNCHANGED <<fd, client_count, acceptor, reading, todo, network, login,
                 alive>>

\* Mutant: the descriptor is closed once more, to be safe.
ClearClosesAgain(t) ==
  /\ At(t, "clear")
  /\ fd' = [fd EXCEPT ![slot[t]] = -1]
  /\ open' = IF fd[slot[t]] \in Fds
             THEN [open EXCEPT ![fd[slot[t]]] = NoConn] ELSE open
  /\ mutex' = Nobody
  /\ pc' = [pc EXCEPT ![t] = "idle"]
  /\ slot' = [slot EXCEPT ![t] = 0]
  /\ UNCHANGED <<client_count, acceptor, reading, todo, backlog, peer, inbox,
                 login, alive>>

Clear(t) ==
  /\ At(t, "clear")
  /\ fd' = [fd EXCEPT ![slot[t]] = -1]
  /\ mutex' = Nobody
  /\ pc' = [pc EXCEPT ![t] = "idle"]
  /\ slot' = [slot EXCEPT ![t] = 0]
  /\ UNCHANGED <<client_count, acceptor, reading, todo, network, login, alive>>

ThreadNext(t) ==
  \/ Read(t) \/ ReadEnds(t) \/ Receive(t) \/ Send(t) \/ Write(t) \/ Sent(t)
  \/ Close(t) \/ Lock(t) \/ Clear(t)

-----------------------------------------------------------------------------
Init ==
  /\ fd = [s \in Slots |-> -1]
  /\ client_count = 0
  /\ mutex = Nobody
  /\ apc = "accept" /\ afd = -1 /\ aconn = NoConn /\ aslot = 0
  /\ pc = [t \in Threads |-> "idle"]
  /\ slot = [t \in Threads |-> 0]
  /\ reading = [t \in Threads |-> NoConn]
  /\ todo = [t \in Threads |-> {}]
  /\ open = [f \in Fds |-> NoConn]
  /\ backlog = <<>>
  /\ peer = [c \in Conns |-> "none"]
  /\ inbox = [c \in Conns |-> <<>>]
  /\ login = [c \in Conns |-> NOBODY]
  /\ alive = TRUE

PeerNext(c) ==
  \/ PeerConnect(c)
  \/ \E s \in Registered \cup {NOBODY} : PeerLogin(c, s)
  \/ \E s \in Registered \cup {ALL} : PeerSend(c, s)
  \/ PeerClose(c)

Next ==
  \/ \E c \in Conns : PeerNext(c)
  \/ AcceptorNext
  \/ \E t \in Threads : ThreadNext(t)

Spec == Init /\ [][Next]_vars

-----------------------------------------------------------------------------
(* Fairness.  The scheduler runs every thread; glibc wakes a waiter whenever  *)
(* the mutex is released, so a thread that keeps finding it free at times     *)
(* gets it (strong fairness for the two lock operations).                     *)

AcceptorFair == WF_vars(AcceptorNext) /\ SF_vars(LoginLock)
ThreadFair(t) == WF_vars(ThreadNext(t)) /\ SF_vars(Lock(t))
ServerFair == AcceptorFair /\ \A t \in Threads : ThreadFair(t)

\* The clients of this repository write their login line as soon as connect()
\* returns, and a client that cannot goes away.
SpeaksOrLeaves(c) ==
  /\ peer[c] = "silent"
  /\ PeerClose(c) \/ \E s \in Registered \cup {NOBODY} : PeerLogin(c, s)
PeersFair == \A c \in Conns : WF_vars(SpeaksOrLeaves(c))

FairSpec == Spec /\ ServerFair
LiveSpec == FairSpec /\ PeersFair

-----------------------------------------------------------------------------
(* Safety, whatever the clients do. *)

Live(t) == pc[t] # "idle"
Counted == {t \in Threads : pc[t] \notin {"idle", "clear"}}

PeerStates == {"none", "silent", "talking", "hungup", "closed", "reset"}
AcceptorLabels == {"accept", "enter", "read", "lock", "count", "create"}
ThreadLabels == {"idle", "read", "blocked", "send", "write", "close", "lock",
                 "clear"}

TableType ==
  /\ fd \in [Slots -> Fds \cup {-1}]
  /\ client_count \in Int
  /\ mutex \in Threads \cup {Acceptor, Nobody}

\* The acceptor is blocked in read() exactly when it pins a connection.
AcceptorType ==
  /\ apc \in AcceptorLabels
  /\ afd \in Fds \cup {-1}
  /\ aconn \in Conns \cup {NoConn}
  /\ aslot \in Slots
  /\ apc # "accept" => afd \in Fds
  /\ apc = "read" <=> aconn # NoConn

\* So is a thread; and it has a slot to write to when it is about to.
ThreadsType ==
  /\ pc \in [Threads -> ThreadLabels]
  /\ slot \in [Threads -> Slots]
  /\ reading \in [Threads -> Conns \cup {NoConn}]
  /\ todo \in [Threads -> SUBSET Slots]
  /\ \A t \in Threads : pc[t] = "blocked" <=> reading[t] # NoConn
  /\ \A t \in Threads : pc[t] = "write" => todo[t] # {}

NetworkType ==
  /\ open \in [Fds -> Conns \cup {NoConn}]
  /\ backlog \in Seq(Conns)
  /\ peer \in [Conns -> PeerStates]
  /\ inbox \in [Conns -> Seq(Lines)]
  /\ login \in [Conns -> Slots \cup {NOBODY}]
  /\ alive \in BOOLEAN

\* The mutex is held by whoever is inside its critical section.
MutexHolder ==
  /\ apc = "count" <=> mutex = Acceptor
  /\ \A t \in Threads : pc[t] = "clear" <=> mutex = t

\* Every variable has its type, and the labels of the acceptor and the threads
\* agree with the mutex and with the connections they are blocked on.
TypeOK ==
  /\ TableType
  /\ AcceptorType
  /\ ThreadsType
  /\ NetworkType
  /\ MutexHolder

\* client_count, which two parties change on both sides of thread creation and
\* which the acceptor tests without the mutex, is at every moment the number of
\* sessions that have not left yet, and a new session always finds room.
CountMatchesThreads ==
  /\ client_count \in 0 .. CLIENT_MAX_COUNT
  /\ client_count = Cardinality(Counted) + (IF apc = "create" THEN 1 ELSE 0)
  /\ apc \in {"enter", "read", "lock", "count"} =>
       client_count < CLIENT_MAX_COUNT
  /\ apc = "create" => IdleThreads # {}

\* The connection that the slot's number stands for logged in to the slot.
HoldsOwn(s) == /\ ConnOf(fd[s]) # NoConn
               /\ login[ConnOf(fd[s])] = s

\* Thread t will look at slot s again: when it is blocked and the slot still
\* stands for its own client, it is blocked on that very connection.
Attends(t, s) ==
  /\ Live(t) /\ slot[t] = s
  /\ pc[t] = "blocked" /\ HoldsOwn(s) => reading[t] = ConnOf(fd[s])

\* A slot that is taken has a thread that attends to it, or the acceptor is on
\* its way to start one: evictions, stale threads and reused numbers never
\* leave a slot that is taken for good with nobody to clear it.
TakenSlotAttended ==
  \A s \in Slots : fd[s] # -1 =>
    \/ apc \in {"count", "create"} /\ aslot = s
    \/ \E t \in Threads : Attends(t, s)

-----------------------------------------------------------------------------
(* Safety, when devices are patient. *)

\* The refusal of line 191, which takes the slot from its session, never
\* strikes: a device that found its slot free finds it free when the server
\* reads its login, whatever other logins and threads do in between.  All that
\* follows depends on the devices through this property only.
NoEviction == [][~LoginRefused]_vars

\* A connection that has logged in is in the table under its name, with a
\* thread that attends to it, for as long as the process holds its descriptor:
\* no session is deaf, and the end of a session leaves no descriptor behind.
SessionIsServed ==
  \A f \in Fds : open[f] # NoConn /\ login[open[f]] # NOBODY =>
    LET s == login[open[f]]
    IN  \/ apc = "lock" /\ afd = f /\ aslot = s
        \/ fd[s] = f /\ apc \in {"count", "create"} /\ aslot = s
        \/ /\ fd[s] = f
           /\ \E t \in Threads :
                Attends(t, s) /\ pc[t] \notin {"lock", "clear"}

\* A slot never has two threads: they would read each other's input and close
\* each other's connection.
OneThreadPerSlot ==
  \A t, u \in Threads : Live(t) /\ Live(u) /\ slot[t] = slot[u] => t = u

\* A thread reads from the client it was started for, so that the name the
\* server puts on a message (message_info.from) is the sender's.
SenderIsAuthentic ==
  \A t \in Threads : pc[t] = "blocked" => login[reading[t]] = slot[t]

\* The number in a slot stands for the slot's own client, except between the
\* close() and the fd = -1 of the thread that leaves.
SlotHoldsItsClient ==
  \A s \in Slots : fd[s] # -1 =>
    \/ HoldsOwn(s)
    \/ \E t \in Threads : slot[t] = s /\ pc[t] \in {"lock", "clear"}

\* Every client that is counted against CLIENT_MAX_COUNT can be reached through
\* the table: a full server has all its slots taken.
CountedAreReachable ==
  client_count <= Cardinality({s \in Slots : fd[s] # -1})

\* The server closes no session that its client keeps open.
SessionsSurvive ==
  [][\A f \in Fds :
       LET c == open[f]
       IN  c # NoConn /\ login[c] # NOBODY /\ ~Ended(c) => open'[f] = c]_vars

\* The acceptor reads the login line that the client has written: no thread has
\* read it first, from a number that it took for its own.  (If one had, the
\* acceptor would wait for a client that has said all it has to say, and no
\* other connection would be accepted.)
LoginIsHeard ==
  apc = "read" /\ peer[aconn] = "talking" =>
    inbox[aconn] # <<>> /\ Head(inbox[aconn]).cmd = "LOGIN"

\* The session under a name, seen from outside: the slot's own client for as
\* long as its connection is open.
SessionOf(s) == IF fd[s] # -1 /\ HoldsOwn(s) THEN ConnOf(fd[s]) ELSE NoConn
Sessions == [s \in Slots |-> SessionOf(s)]
Gone == {c \in Conns : Ended(c)}

R == INSTANCE Relay WITH Names <- Slots, Clients <- Conns, NoClient <- NoConn,
                         session <- Sessions, gone <- Gone

\* Closing, clearing, accepting and logging in, however they overlap, never
\* make a session change hands, end early or appear twice.
ImplementsRelay == R!Spec

\* What the prompt of cms_client.c promises: a message for a name is written
\* to the client that logged in under the name.
RelayReachesAddressee ==
  \A t \in Threads, s \in Slots :
    pc[t] = "write" /\ Lowest(s, todo[t]) /\ ConnOf(fd[s]) # NoConn
      => login[ConnOf(fd[s])] = s

-----------------------------------------------------------------------------
(* Liveness, while the process is alive. *)

\* A client that went away does not hold its slot for ever.
InSession(c) == \E s \in Slots : SessionOf(s) = c
DeadSessionLeaves ==
  \A c \in Conns : InSession(c) /\ Ended(c) ~> ~InSession(c) \/ ~alive

\* A connection does not wait for accept() for ever, unless there comes a time
\* from which the process has no descriptor number left.
ConnectionAccepted ==
  \/ <>[](FreeFds = {})
  \/ \A c \in Conns : Waiting(c) ~> ~Waiting(c) \/ ~alive

==============================================================================
