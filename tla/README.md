# Clean-room monitoring: a TLA+ model

The repository is a small IoT system: sensor nodes, a relay server on a
Raspberry Pi, a database client and a Bluetooth console. This directory holds
TLA+ models of its parts, TLC configurations that check them on small
instances, and TLAPS proofs about them. Line numbers are those of the files
under `src/`.

## 1. The system

```
 STM32_WiFi node --UART--> ESP8266 --TCP--+
   dust + DHT11, fan PWM                  |
                                      cms_server <--TCP--> cms_client_sql <--> MySQL <-- html/*.php
 STM32_Bluetooth console                  |
   joystick, LCD --UART/BT-- cms_client_bt +--TCP--> cms_client (a terminal)
```

Every message is one line, `[CMD:TO]text` to the server and `[CMD:FROM]text`
from it. A client first sends `[LOGIN]id|pw`; `idpw.txt` holds the known pairs.

| Component | Source | State it keeps | Operations | Talks to |
|---|---|---|---|---|
| Relay server | `RaspberryPI/cms_server.c` | `client_info[32]` (name, password, `fd`), `client_count`, a mutex, one detached thread per session | accept and authenticate, start a session, relay, end a session | all clients, over TCP |
| Fan controller | `STM32_WiFi/Core/Src/main.c`, `Headers/headers.h` | `e_mode`, the manual timer, `fan_flag`, the PWM register, the filter's last samples, the second flag | poll for a message, FAN command, manual time-out, sample and filter, fan rule; TIM3 interrupt | ESP driver, sensors, fan |
| ESP8266 driver | `STM32_WiFi/Core/Src/esp.c` | `cb_data` (what the interrupt received), `response` | AT command with time limit, connect, status, send; UART interrupt | ESP8266 over UART6 |
| Bluetooth console | `STM32_Bluetooth/Core/Src/main.c` | `e_mode`, room, target speed, `sensor_data`, `btData`/`btFlag` | joystick actions, GETSENSOR poll, answer display; TIM3 and UART interrupts | gateway over Bluetooth |
| Joystick | `STM32_Bluetooth/Core/Src/joystick.c` | shift registers of the button and of four directions | poll button and axes | console |
| Database client | `RaspberryPI/cms_client_sql.c` | socket, `pArray` | store SENSOR, answer GETSENSOR, store and forward FAN/LED | server, MySQL |
| Bluetooth gateway | `RaspberryPI/cms_client_bt.c` | two sockets, a line under assembly | two threads, one per direction | server, console |
| Terminal client | `RaspberryPI/cms_client.c` | one socket shared by two threads | send, receive, quit | server |
| Web pages | `RaspberryPI/html` | none | read-only queries | MySQL |

What is hard, and where:

* **Server.** Session threads and the acceptor share the table, and only two of
  its accesses are under the mutex. A slot's `fd` is read again at each use. The
  kernel reuses descriptor numbers. A second login evicts the first. Peers
  close, reset, stay silent or reconnect at any time.
* **Sensor node.** A main loop that blocks for seconds (AT commands, DHT11)
  against a timer interrupt that does not; two variables for one mode; a rule
  with hysteresis in two tests; commands and the rule both write the fan.
* **ESP driver.** Time limits against late answers; a buffer that commands wipe
  while the interrupt fills it.
* **Console.** An interrupt writes the buffer that the main loop parses; answers
  do not say which room they are about.
* **Clients.** Two threads share a socket variable, which one of them
  invalidates.

`PROJECT.json` lists each hazard at its line, with the properties that cover it
or the reason why none does.

What makes each component correct:

* Server: its count is the number of sessions; a taken slot has a thread that
  will clear it; with well-behaved clients, sessions do not touch each other's
  connections; dead sessions leave; connections are accepted; a message reaches
  the client it names.
* Fan controller: manual mode ends; the rule's state and the fan agree; every
  run of the rule reaches the band of the density; a single outlier does not
  move the filtered value out of range.
* ESP driver: an answer belongs to its command; a received frame is handled
  once; a lost connection is re-established.
* Console: what is shown belongs to the room that is shown; one click is one
  action.
* Database client: a request gets the answer of its room; one SENSOR message is
  one row; a forwarded command is not forwarded again (the last two are plain
  in the code and not modelled).

## 2. Plan

| # | Module | Source | Status |
|---|---|---|---|
| 1 | `CmsServer`, `MCCmsServer`, `CmsServerProofs` | cms_server.c | done |
| 2 | `FanControl`, `MCFanControl`, `FanControlProofs` | STM32_WiFi main.c, headers.h | done |
| 3 | `MessageParse`, `MessageParseProofs`: the parse of a message in several threads, with the one position of `strtok` | cms_server.c:257-287 | done |
| 4 | `ButtonDebounce`, `ButtonDebounceProofs`: the shift register, shown to implement the abstract `Click` | joystick.c:59-83 | done |
| 5 | `Console`, `MCConsole`, `ConsoleProofs`: rooms, modes, GETSENSOR polling, interrupts against the main loop, with the gateway, the relay and the database client as the other end | STM32_Bluetooth main.c, joystick.c, cms_client_bt.c, cms_client_sql.c | done |
| 6 | `EspDriver`, `EspDriverProofs`: AT commands, time limits, the UART interrupt, frames, reconnection; module and server external | esp.c, STM32_WiFi main.c | done |
| 7 | `Relay`, `SessionProofs`, `PatientProofs`: an abstract relay, and `CmsServer` shown to implement it as long as no login is refused for a taken slot, which patient clients guarantee | cms_server.c | done |
| 8 | the clients: their connect, login, send and close are the peers of `CmsServer`; the gateway and the GETSENSOR answer are the other end of `Console` | cms_client*.c | partly; see section 9 |

Sections 3 to 8 take the modules one by one; section 9 says what is left out.

## 3. `CmsServer`

### State and actions

| Model | Code |
|---|---|
| `fd`, `client_count`, `mutex` | `client_info[].fd`, `client_count`, `mutex` |
| `apc`, `afd`, `aconn`, `aslot` | the acceptor: place in the loop of `main`, `client_socket`, the connection it is blocked on, `i` |
| `pc`, `slot`, `reading`, `todo` | a session thread: place in `client_connection`/`send_message`, its `_arg`, the connection it is blocked on, the slots left of the loop in `send_message` |
| `open` | the process's descriptor table: which connection a number stands for |
| `backlog`, `peer`, `inbox` | the listen queue, what the other end has done, lines not yet read |
| `login`, `alive` | history: the slot a connection logged in to; SIGPIPE has not struck |

The model clears `afd`, `aslot` and a finished thread's `slot` where the code
leaves a dead value behind: each is set again before it is next read, and the
clearing only keeps TLC from telling states apart that behave alike.

`Accept`, `EnterRead`, `LoginEnds`, `LoginUnknown`, `LoginRefused`,
`LoginMatched`, `LoginLock`, `LoginCount`, `LoginCreate` are the loop of `main`
(145-232); `Read`, `ReadEnds`, `Receive`, `Send`, `Write`, `Sent`, `Close`,
`Lock`, `Clear` are a thread (239-334). The steps are cut where the code reads
or writes something shared: the test of `fd` in `send_message` and its use are
two steps, `close` and `fd = -1` are three steps apart, the two halves of each
critical section are separate. A call of `read` is two steps: `Read` takes the
connection that the slot's number stands for at that moment, and the thread then
stays blocked on that connection even if the number is closed and reused, as the
kernel does.

Descriptors are numbers because the code's errors are about numbers. `accept`
takes the lowest free one; `close` frees one; a thread that still has the number
in its slot then means whatever it has come to stand for.

A chunk that `read` returns is the first line and any number of the lines behind
it; only the first is relayed, as `strtok` stops there. The parse of a chunk is
one step; what happens inside it is `MessageParse`. A line is its
command and its addressee. The text, wrong passwords (a login that matches no
pair is `NOBODY`; one with a known name and a wrong password does what
`LoginRefused` or `LoginUnknown` does) and malformed lines are left out.

A `write` neither waits for a peer that does not read (the socket buffers are
taken to have room) nor fails on a socket that the server itself has shut down.

The peers do what TCP lets any client do: connect, log in under any registered
name or none, send to any name or to `ALL`, close at any moment. The first write
after a peer has closed may make it reset the connection; the next one then
raises SIGPIPE, which the program does not handle, and `alive` becomes `FALSE`
and nothing in the server moves again.

`PatientClients` selects the environment. `FALSE`: any client, any time. `TRUE`:
a device logs in only while its name is free and nobody else is about to take
it. It never restricts what else a client does.

`Relay` is what the server then promises: a name has one session at most, a
session never changes hands, and it ends only after its client has gone. The
refinement mapping is `Sessions` (the client that a slot's number stands for,
`SessionOf`) and `Gone` (the connections whose client has closed). The slot is
written in several steps with a stale number in between, and `SessionOf` says
when that number means a session: from the acceptor's store to the `close` of
the thread that found its client gone.

### Runs

| Run | Question | Instance |
|---|---|---|
| `ServerAnyClients` | does the bookkeeping survive any clients? `TypeOK`, `CountMatchesThreads`, `TakenSlotAttended` | 2 slots of which 1 registered, 3 descriptors, 3 connections, 1 unread line; 0.5 million states |
| `ServerPatientClients` | do sessions stay apart when devices are patient? `NoEviction`, `OneThreadPerSlot`, `SenderIsAuthentic`, `SlotHoldsItsClient`, `SessionIsServed`, `CountedAreReachable`, `SessionsSurvive`, `LoginIsHeard`, `ImplementsRelay` | 2 slots, both registered, 2 descriptors, 3 connections; 1.7 million states |
| `ServerLiveness` | do dead sessions leave and connections get accepted when devices are patient? `DeadSessionLeaves`, `ConnectionAccepted` | 2 slots of which 1 registered, 3 descriptors, 3 connections, 1 unread line; 0.2 million states |
| `ServerMisrouted` | violated: `RelayReachesAddressee`, even with patient clients | as `ServerPatientClients` |
| `ServerReconnect` | violated: `SessionsSurvive` when a device reconnects before its old session has ended | as `ServerAnyClients` |

Bounds. With one name and two slots the server is full after an eviction and a
new login, which is the case the limit is about; three connections allow the
evicted, the evicting and a third session at once. Two names and two descriptors
make one device's closed number the other's next one; more numbers than that
make reuse rarer, not different. One unread line per connection is enough: no
property depends on how many lines of a chunk are lost. The liveness run has
more connections than slots, and as many descriptors as connections, so that a
number can be reused while another connection waits for the acceptor; without
symmetry that is as much as fits. Connections are reused once both ends are done
with them, so runs have no end. They are interchangeable and the safety runs use
that symmetry; the liveness runs do not.

Deadlock is not checked: the process may be killed by SIGPIPE, `accept` may have
no descriptor left, and clients may all stop.

Fairness. `ServerFair`: the scheduler runs every thread (weak fairness), and a
thread that keeps finding the mutex free at times gets it (strong fairness of
the two lock steps); glibc's mutex wakes a waiter at every unlock. `PeersFair`:
a client that has connected sends its login line or goes away, as
`cms_client.c:57`, `cms_client_sql.c` and `cms_client_bt.c:68` do right after
`connect`. The ESP node does not always (`esp.c:151-154` sends the login only if
the module answers in time). Without the assumption `ConnectionAccepted` fails at
once: the acceptor reads the login itself (161), and one silent peer keeps it.

`ConnectionAccepted` also needs patient devices, or the absence of evictions.
After an eviction (191) the old thread stays in its loop and reads
`client_info->fd` anew (261). If a new login and its end have by then left there
the number of a closed connection, and `accept` gives that number to the next
client, the thread may read that client's login line. The acceptor then waits at
161 for a line that has gone, and accepts nobody any more. The history takes four
connections and as many numbers, which is beyond a liveness run, so the claim
about clients in general is not made. `LoginIsHeard` is the safety property
behind it: while the acceptor is blocked on a client that has spoken, the login
line is there. Run `ServerPatientClients` checks it, and `HeardCorrect` proves it
for every instance without evictions.

`DeadSessionLeaves` rests on the assumption that `write` does not wait: a thread
that is blocked in it, on a peer that never reads, does not see its own client
go.

### What the violations show

* `ServerMisrouted`. Thread A's client closes; A closes its descriptor (289) and
  has not yet set `fd = -1` (296). The acceptor accepts a client B and gets the
  same number. Thread C, relaying to A's name, finds `fd != -1` and writes to
  B. Clearing the slot before the `close`, under the mutex, with the test and
  the write of `send_message` under it too, would remove this.
* `ServerReconnect`. The node loses its link and reconnects; its old session
  still blocks in `read`. The login is refused, and line 191 clears the slot of
  the OLD session. The next login takes the slot. When the old thread's peer is
  found dead it closes `client_info->fd`, which is the new session's.

### Proofs

`CmsServerProofs`. For every number of slots, descriptors and connections, and
any clients:

* `TypeCorrect`: `Spec => []TypeOK`. `TypeOK` includes the agreement of labels,
  mutex and blocked connections, and is inductive.
* `CountCorrect`: `Spec => []CountMatchesThreads`. The count is a cardinality, so
  the proof goes through lemmas on adding and removing one thread of the set of
  counted threads. The invariant needs `MutexHolder`: between `client_count--`
  and `fd = -1` exactly one thread is not counted any more. That a new session
  finds an idle thread follows from the count being below the limit.
* `AttendedCorrect`: `Spec => []TakenSlotAttended`. Not inductive alone: the
  connection a thread is blocked on must not be one that could be accepted
  again. `QueueInv` strengthens it with the facts about the listen queue
  (connections in it are pairwise different and not in use).

`SessionProofs`. The server loses sessions in one way only: the refusal of line
191, which clears a slot that a session holds. `NoEviction` says that this never
happens, and is the one hypothesis of the theorems here: each is
`Spec /\ NoEviction => ...`, for ANY clients and every number of slots,
descriptors and connections.

* `OneThreadCorrect`, `SlotHoldsCorrect`, `SenderCorrect`, `SessionsCorrect`:
  sessions do not touch each other.
* `ServedCorrect`: a connection that has logged in is in its slot with a thread,
  for as long as the process holds its descriptor.
* `CountedReachableCorrect`: every client that counts against the limit has a
  slot, through an injection from slots with a thread to threads.
* `MisroutedOnlyWhileLeaving`: when a message is about to be written to another
  client, the addressee's thread is between its `close` (289) and its
  `fd = -1` (296). What `ServerMisrouted` shows is therefore the only kind of
  history, short of an eviction, in which this happens.
* `RelayCorrect`: the refinement of `Relay`.

None of these is inductive; together they are, preserved by every step that is
not such a refusal, with

* `QueueInv` (see above) and `AcceptorInv`: the acceptor's number stands for the
  connection it logs in, and the slot it chose has no thread;
* `SessionInv`: a live thread's slot is taken, by that thread only; its number
  stands for the client the thread serves; a blocked thread waits for that very
  connection; only connections whose client has gone are closed;
* `ServedInv`, for `ServedCorrect`: a connection is open under one number, and
  one with a login has a session that begins or one with a thread;
* `Released`, for the refinement: between the `close` of a thread and its end,
  the number left in the slot never stands for a client of that slot, although
  it may stand for one of another (the case of `ServerMisrouted`).

`PatientProofs`: `HeardCorrect` (`Spec /\ NoEviction => []LoginIsHeard`), for any
clients; and, with the assumption `PatientClients = TRUE`, `NeverRefused`
(`Spec => NoEviction`), and from it `PatientCorrect`, the properties above all at
once and without `NoEviction` as a hypothesis. `NoEviction` needs more than that
devices wait for a free slot: that it was free when a device chose to log in has
to be carried through the listen queue, the read of the login and the wait for
the mutex.

* `LinesInv`: a connection's first line is its login and it has no other. A
  second login line would be relayed as a message, but a connection whose login
  has not been read must not already count as a sender.
* `AsksInv`: a slot is asked for by one connection at most, and only while it is
  free.

## 4. `MessageParse`

`CmsServer` treats the parse of a message as one step. It is not: every thread
cuts its buffer into words with `strtok`, whose position (`olds`) is one variable
of the C library, and keeps pointers to the words in a `pCommand` that is not
cleared between messages (251, 266-281). The module has one action per call and
splits a call of `strtok(NULL, ...)` where it reads the position (`LookUp`) and
where it moves it (`Take`), since the library takes no lock. `Parsers` are the
session threads and the acceptor, whose login parse (161-174) is the same code
with another set of delimiters.

A pointer is a buffer and the number of a word in it. What the words say does not
matter to the properties: they ask whose words a message is relayed with. A
message has any number of words from one on. `[CMD:TO]text` has three or more,
but clients send shorter ones too: the node answers SENSOR and LED requests with
the one word `[SENSOR` or `[LED` (STM32_WiFi `main.c:803-812`, where `strtok` has
cut the text that is copied), and `cms_client` sends `[DEBUG:ALL]` at the end of
its input. Behind a short message, `pCommand` holds what earlier messages have
left, and the code uses it (280-281). Words past `COMMAND_MAX_COUNT` are dropped
by the code and by the model.

| Run | Question | Instance |
|---|---|---|
| `ParseTogether` | `TypeOK` (no overrun of `pCommand`), `AloneParsesOwn`, `CommandIsOwn`, `DiesOnlyMixedOrShort` in every interleaving | 2 parsers, 1 to 4 words, `COMMAND_MAX_COUNT` 3; 6.3 million states |
| `ParseMixed` | violated: `AddresseeIsOwn` | the same |

`COMMAND_MAX_COUNT` is 8 in the code; with 3 and messages of 1 to 4 words, some
parses end at the limit, some at the end of the message, and some before the
addressee. Two parsers suffice to take each other's words, and the proofs hold
for any number.

`DiesOnlyMixedOrShort`: `strcmp(NULL, ...)` (313, 326) ends the process. That takes
an overlapped parse or a message of one word; a one-word message that is a
session's first does it alone. A message of two words or more does not, whatever
came before it. `AloneParsesOwn` says that a parse nobody overlaps finds all the
words of its message; it does not say that nothing else is used, which for short
messages would be false.

`ParseMixed`: thread A calls `strtok(buffer, ...)`; thread B does so too; A's next
call goes on in B's buffer. If B's message has a second word there, A's message
is relayed to B's addressee with B's text. If not (in the shortest trace B's
message has one word), A's message of two words finds no addressee and keeps what
`pCommand` held. `strtok_r` would remove this. `AddresseeIsOwn` asks only messages
that name an addressee.

Proofs (`MessageParseProofs`), for every set of parsers and all sizes:
`TypeCorrect`, `AloneCorrect`, `CommandCorrect` and `DeathNeedsCause`
(`DiesOnlyMixedOrShort`). The inductive invariant adds to the
types that a parse which nobody has overlapped since its first word holds its
own words up to `i` and finds `olds` at the next one (`Alone`); the history variable
`overlapped` is set for a parser whenever another one moves `olds`.

## 5. `ButtonDebounce` and `Click`

`Joystick_GetButton` feeds every poll into an 8-bit register and reports a press
when the register is exactly `0x80`. `Click` is what that is for: a press,
however it bounces, is reported once, when six polls in a row have found the
button released. `ButtonDebounce` is the register; the refinement mapping `Since`
reads the number of released polls off the lowest bit that is set. Bits above it
are what is left of earlier presses and bounces, and the point of the refinement
is that they never matter.

Run `ButtonDebounce` checks `TypeOK` and `ReportsClicks` (the specification of
`Click`) over all 128 reachable registers and both inputs: it is exhaustive.
`ButtonDebounceProofs` proves both, the refinement by showing that a pressed
poll maps to `Pressed` and a released one to `NotPressed`.

## 6. `FanControl`

### State and actions

`loop` is the place in the main loop (173-327). `FanCommand`/`NoCommand` are the
message test and `esp_event`; `Second` the one-second block's test; `ManualPass`
lines 201-210; `Sample`/`SampleLater` lines 212-252; `Decide` lines 261-318. The
rule is a function on records of `fan_flag` and the speed: `FirstTest` (263-278),
then `SecondTest` (280-295) on what the first has left, each branch with its own
state and its own speed.
`Tick` is the interrupt (849-861) and may happen between any two of them,
several times while the loop blocks. The remaining variables have the names they
have in the code; `x`, `y` and `ptcl` are `particle_density_x`, `_y` and `_w`
(which always equals `sensor_data.ptcl`), `auto_speed` is history. Densities are whole
numbers, rounded down, and the PWM register is in percent. A sample is any of
`Readings`, the DHT11 answers or not.

`Percent` is `fan_pwm_set_percent` with its 8-bit parameter: a message with 300
sets 44 percent.

### Runs

| Run | Question | Instance |
|---|---|---|
| `FanControl` | `TypeOK`, `ManualIsTimed`, `RuleFollowsDensity`, `OutlierRejected`, `ManualEnds` | readings 0, 90, 110, 300; commands 0, 70, 200, 300; manual mode of 2 passes, a sample every 2 seconds; 0.6 million states |
| `FanStaleFlag` | violated: `FanOnAboveThreshold` | the same |

Bounds. The readings lie below, between and above the thresholds 85, 100 and
115, and the filter produces many values between them; the commands lie at zero,
inside the range, above the clamp and above eight bits. The periods 60 and 5 of
the code become 2 and 2: what matters is that passes, ticks and samples
interleave in every order, and the proofs hold for every period.

Fairness. The timer goes on ticking and the loop goes on running (`WF` of each):
every call of the loop has a time limit except the bit loops of `dht11_Read`,
which the model takes to end.

`RuleFollowsDensity` is about state and speed together: one run of the rule brings
`fan_flag` into the band of the density, and the fan runs at a speed of that band
unless a command has set it since the rule last did (`auto_speed`), however long
ago the rule did that and in whichever branch. `OutlierRejected` excludes a zero
sample before: the filter then takes the new sample twice (239).

`FanStaleFlag`: dust rises, the rule sets 100 % and `fan_flag = 1`; a command
sets 0 %; manual mode ends; the density is still above 115, `fan_flag` is still
1, neither test fires, the fan stays off until the density falls below 100.

### Proofs (`FanControlProofs`)

For every set of readings and commands and every pair of periods: `TypeCorrect`,
`ManualTimed` (one inductive invariant, in which `AutoSpeedAgrees` adds that a
speed set by the rule is the one of `fan_flag`), `RuleCorrect` and
`OutlierCorrect` (action properties, from that invariant), and `MedianCorrect`:
`median3_float` returns the median, ties included, for all integers. Two
theorems about the rule as a function, from any `fan_flag` and any density, say
what its three thresholds are for: `RuleIsSettled` (run again on the same
density, it changes nothing) and `RuleHasHysteresis` (it takes back a change
only when the density has moved back by more than 15). `SmoothBetween` (the
weighted mean lies between its arguments) carries `OutlierCorrect`.

## 7. `Console`

### State and actions

| Model | Code (STM32_Bluetooth `main.c` unless said otherwise) |
|---|---|
| `e_mode`, `cr_cur_idx`, `target_fan_speed`, `g_input`, `joystick_flag`, `tim3Flag1Sec`, `btData`, `btFlag`, `i`, `recvBuf` | the variables of these names |
| `tilt` | the last sample in the histories of `Joystick_Track` (joystick.c) |
| `lcd` | what the display shows: kind of screen, room, contents |
| `requests`, `line` | what the gateway and the relay carry to the database client and back |
| `TestBtFlag`, `Copy`, `Show` | the test of `btFlag` and `bluetooth_Event`, whose `strcpy` is cut so that the interrupt can come in between |
| `PollOnly`, `StickMonitoring`, `StickEnters`, `StickManual` | the joystick block, by mode and click |
| `Second` | the one-second block |
| `HalfSecond`, `Receive` | the callbacks of TIM3 and of USART6 |
| `Answer` | a read of `cms_client_sql` that finds a request first in its chunk, and its GETSENSOR branch; FAN lines go on to the node |
| `Miss` | a read that finds another client's line first (a node's SENSOR line, 185-196) and loses the requests behind it |

An answer's text is two characters, each of which says only whose row it comes
from, and a line end: enough to see a text put together from two answers. The
click of `Joystick_GetButton` is an input here; that a press gives one click is
what `ButtonDebounce` shows.

The flags of the timer are never raised while still up: a pass of the loop takes
some ten milliseconds and the timer's period is 500.

### Run

`Console`: two rooms, three stick positions, two speeds, a poll every second, one
waiting request; 1.1 million states. With two rooms the two ways round the ring
of rooms are the same move, and the wrap happens at every step. A second request
that finds one waiting shares its chunk and is dropped by the reader; it may be
dropped in that way anyhow, or be read alone, as it is when it comes just after
the first was read. A queue of two makes the run too long for its liveness part;
its safety properties were found to hold with two as well (2.7 million states
with the positions "at rest" and "aside and up"), and the proofs hold for any
length. `POLL_PERIOD` is 3 in the code: with 1 exchanges
overlap more often, not less.

* `FanTakesTwoClicks`: a click may stay in `g_input` for half a second, and the
  same block both enters and leaves manual mode; a speed is still never sent by
  one click.
* `ConfirmedAsShown`: what the second click sends is what the display shows,
  although answers to earlier polls still arrive.
* `ShownIsOwn`: a text is shown whole and under the room it was measured in as
  long as the console asked in quiet. The condition is needed: an answer names
  no room, and one asked for before the stick moved is shown under the new room
  until the next poll.
* `ShowsChosenRoom`: that mistake does not last: once the user settles, so does
  the display, unless every request from then on is lost behind another client's
  line (`NotAlwaysMissed` is the hypothesis; without it the property is false, as
  nothing in the code keeps the node's period and the console's apart).

Fairness: weak for the database client's reads (`Answer \/ Miss`: that a request
is read is certain, that it is answered is not), the two interrupts and the loop.
Nothing in the loop blocks, and the clients poll or block in `read` only.

### Proofs (`ConsoleProofs`)

For every number of rooms, every set of rooms with data, all speeds and periods
and any queue: `TypeCorrect`, `ClicksCorrect`, `ConfirmedCorrect`,
`ShownCorrect`. The invariant adds to the types `LineInv` (the line holds the
rest of one answer, and `i` says how much has gone), without which `btData` could
overflow; `ClicksInv` (which clicks stand behind mode and `g_input`);
`ScreenInv` (manual mode shows what a click would send); and `ExchangeInv` (an
exchange begun in quiet is at one of three stages, is the only one, and is about
the room that is chosen).

## 8. `EspDriver`

### State and actions

| Model | Code |
|---|---|
| `phase`, `cmd`, `payload`, `boot` | the place in `esp_at_command`, in its callers and in the main loop |
| `cb` | `cb_data`, as a sequence of texts |
| `Transmit`, `PollOk`, `PollError`, `GiveUp` | `esp_at_command` (esp.c): wipe and transmit, and its three ends |
| `Returns`, `Do`, `SendData`, `Done` | what `ap_conn_func`, `request_ip_addr`, `esp_client_conn`, `esp_send_data` and `esp_get_status` do next |
| `HandleCopy`, `HandleWipe` | the message test of the main loop (174-181) and `esp_event`'s reply |
| `StatusDue`, `SampleDue` | the status check every ten seconds with its reconnection, the SENSOR message every five if the DHT11 has answered |
| `Receive` | the callback of USART6 |

The module and the server are external, modelled from how the code uses them:
`Connect`, `Refuse`, `Prompt`, `Deliver`, `Report` are the module at work on one
command; `ServerSends`, `ServerCloses`, `LinkLost` and `OldSessionEnds` the world
behind it. The server's part (the first message must be a login, a name whose
old session lasts is refused and its slot cleared) is what `CmsServer` does.

The driver searches the whole buffer for `OK`, `ERROR` and `STATUS:3`, and the
server relays any text, to `ALL` too. So each token has a `text`, the set of those
words that it contains, and a message may end a command, or be taken for a
status. `EndedBy` records in `gaveUp` that a command has then ended without its
own answer, as `GiveUp` does at the time limit.

A link may be lost between a connection and its login without the server
noticing. Its only acceptor then waits in `read` (161) for ever: `acceptor` is
"held", and the connections that follow are made by the kernel and accepted by
nobody (`srv` stays "none").

A time limit may strike at any point of an exchange, and its late answer is then
in the way of the next command. `GoOn` counts a job that starts, or a limit that
strikes, while an answer is still coming as a fault, as it counts a lost link or
a failed connection attempt: the module answers in fractions of a second and
the jobs are seconds apart, and without the bound answers would trail commands
for ever.

### Run

`EspDriver`: two faults, two messages to the node, three kinds of text (none of
the words; `OK` and `STATUS:3`; `ERROR`); 0.6 million states. Two faults allow a
late answer or a failed attempt to connect together with a lost link; two
messages are enough for one to overtake, merge with or cut the other, and for
two commands to be ended by texts.

* `NoNullCopy`: the main loop tests for `+IPD` and copies from `strchr(.., '[')`.
  Wipes cut frames at any place, and still a buffer that passes the test has
  a `[` in it.
* `HandledOnce`: messages are handled at most once and in order.
* `AnswersMatch`: the OK or ERROR that ends a command is never another command's,
  unless a command has ended without its answer and that was not made good
  since. Otherwise it is the command's own, or in the text of a message: that a
  text can end a command is the code's way, and the property says that nothing
  else can. After such an end the late OK of a CIPSEND does end the next command
  before the module has seen it.
* `LoginFirst`: a new connection is refused only because of an old session or
  after a command that ended without its answer: nothing overtakes the login.
* `LoggedInAgain`: whatever was lost, the node is logged in again once faults
  end, under two conditions that the code needs: the DHT11 answers again and
  again, and the acceptor is not held.

`AnswersMatch` and `LoginFirst` read the history variable `gaveUp`. `GiveUp` and
`EndedBy` set it, and the first command sent when nothing is left of earlier ones
(`Settled`: no answer under way, no data awaited, no connection still to log in)
resets it. So they also say that the driver recovers from a late answer by
itself.

Fairness. Weak for the module, the server, the interrupt and the polling loop.
Strong for `StatusDue`: a message that keeps the loop busy keeps it from the due
check for that pass only. `SampleDue` has none, since a failing DHT11 skips it
(250). That it happens again and again is the hypothesis of `LoggedInAgain`, and
it is needed: a node whose login was lost has a connection that its status check
finds in order; it recovers because its next SENSOR message, the first the server
sees, gets the connection refused, and the status check after that finds it
closed. Texts that end commands for ever cannot spoil this in the run, which has
finitely many messages.

### Proofs (`EspDriverProofs`)

For any number of faults and messages and any texts: `TypeCorrect`,
`CopyCorrect`, `HandledCorrect`, `AnswersCorrect`, `LoginCorrect`. The invariant
follows the texts through buffer and wire: `FramesWhole` (a head is followed by
its body, there or still on the wire), `FramesOrdered` (bodies grow, and none
that waits has been handled) and, while `gaveUp` is "no", `OneAnswer` (one
answer is under way or received, to the command that waits), `DataNext` (data
are announced only for the message sent next) and `LoginNext` (the steps from a
connection to its login). These three are broken by a time limit or by a text
that ends a command, and hold again from the first command that finds the module
settled. `HandledCorrect` needs the first token of a kind in a sequence to
exist; lemma `Least` gets it from the finiteness of intervals.

## 9. Only model-checked, and not modelled

Only model-checked: liveness (`DeadSessionLeaves`, `ConnectionAccepted`,
`ManualEnds`, `ShowsChosenRoom`, `LoggedInAgain`), which is out of the prover's
reach. Every other property of a passing run is also a theorem. The theorems of
`SessionProofs` assume `NoEviction`, which patient clients guarantee
(`PatientProofs`); without it `SessionsSurvive` fails (`ServerReconnect`).

Not modelled, and why:

* Server: the content of messages beyond command and addressee, malformed lines
  (but for short ones, in `MessageParse`), a `write` that waits for a peer that
  does not read, SIGPIPE on a socket that the server has shut down, failure of
  `pthread_create`.
* Sensor node: `AT+RST` at start-up (its failure halts the node); the sizes of
  the buffers (1024 and 512 bytes, and the 128 into which a message is copied);
  overrun of the UART; rounding of floating-point densities (they are integers);
  the bit timing of the DHT11.
* Clients: the end of `cms_client`, `cms_client_bt` and `cms_client_sql`. Two
  threads share a socket variable which one of them sets to -1 and closes, and
  the other may still be blocked on the old number; this happens only while the
  process ends, and the server sees a connection that closes, late or never,
  which its peers in `CmsServer` may do anyway. Their running state is a blocking
  read and a send, which are actions of `CmsServer` and `Console`. The rows of
  the database are MySQL's.
* LCD and web pages: output without control flow of interest.
* HAL, CMSIS and start-up code (vendored or generated; callbacks are modelled),
  `dustsensor_test` and `Sample` (not part of the running system). The vendored
  files, in three copies, are nearly all of the repository's lines, so the
  mapped share of all lines is small. Of the eight files the models translate,
  about two fifths of the lines are mapped; most of the others set up
  peripherals, print, or handle the texts that the models abstract from.
