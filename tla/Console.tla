------------------------------- MODULE Console -------------------------------
(***************************************************************************)
(* The Bluetooth console (src/STM32_Bluetooth/Core/Src/main.c with         *)
(* Joystick_Track of joystick.c) and what answers it: the gateway          *)
(* cms_client_bt.c, the relay and the database client cms_client_sql.c,    *)
(* here one queue of requests and one line of characters.                  *)
(*                                                                         *)
(* In monitoring mode the console asks for the chosen room's last row      *)
(* every few seconds and whenever the stick changes the room; an answer    *)
(* names no room and is shown under the one chosen by then.  A click       *)
(* enters manual mode, where the stick changes room and speed, and a       *)
(* second click sends the speed.  The UART interrupt writes an answer to   *)
(* btData at any moment, also while the main loop copies it.               *)
(*                                                                         *)
(* An answer is two characters, the halves of its text, and a line end; a  *)
(* character says only whose row it is from.                               *)
(***************************************************************************)
EXTENDS Integers, Sequences

CONSTANTS
  cr_max_cnt,  \* rooms; 4
  FirstRoom,   \* the room chosen at the start; index 2
  Known,       \* rooms with a row in the table `sensor'
  Positions,   \* stick positions <<x, y>>, each -1, 0 or 1
  MAX_SPEED, STEP, FIRST_SPEED, \* 100, 5 and 70 percent
  POLL_PERIOD, \* 3: seconds from one poll to the next
  MaxWaiting   \* bound: requests that wait to be read

Rooms == 0 .. cr_max_cnt - 1

ASSUME RoomsAssumption ==
  /\ cr_max_cnt \in Nat \ {0}
  /\ FirstRoom \in Rooms
  /\ Known \subseteq Rooms
ASSUME PositionsAssumption == Positions \subseteq (-1 .. 1) \X (-1 .. 1)
ASSUME SpeedsAssumption ==
  /\ MAX_SPEED \in Nat /\ STEP \in Nat
  /\ FIRST_SPEED \in 0 .. MAX_SPEED
ASSUME BoundsAssumption == POLL_PERIOD \in Nat \ {0} /\ MaxWaiting \in Nat \ {0}

VARIABLES
  loop,          \* where the main loop is
  e_mode, cr_cur_idx, target_fan_speed,
  g_input,       \* g_input_x, _y and _sw: what the stick did since last used
  tilt,          \* x of the latest sample: bit 0 of the two x histories
  joystick_flag, tim3Flag1Sec,
  half,          \* half seconds, modulo POLL_PERIOD seconds
  lcd,           \* the display: kind of screen, room, what is below it
  btData, btFlag, \* the received text and "a line has ended"
  i,             \* the interrupt's static i: where the next character goes
  recvBuf,       \* bluetooth_Event's copy of btData
  requests,      \* lines that the database client has not read
  line,          \* characters on their way to the console
  crowded,       \* asked while an exchange was going on (history)
  clicks         \* clicks that no FAN line has used up, at most 2 (history)

chosen == <<e_mode, cr_cur_idx, target_fan_speed>>
flags == <<joystick_flag, tim3Flag1Sec, half>>
received == <<btData, i, line>>
vars == <<loop, chosen, g_input, tilt, flags, lcd, received, btFlag, recvBuf,
          requests, crowded, clicks>>

FAN == -1 \* a FAN line among the requests; any other is the room it asks for
END == -1 \* the line end among the characters
NONE == -2 \* no character

NoInput == [x |-> 0, y |-> 0, sw |-> 0]
Blank == [screen |-> "BLANK", room |-> FirstRoom, body |-> <<>>]
DataScreen(room, text) == [screen |-> "DATA", room |-> room, body |-> text]
FanScreen(room, speed) == [screen |-> "FAN", room |-> room, body |-> <<speed>>]

-----------------------------------------------------------------------------
(* The exchange with the database client. *)

\* Nothing is asked, answered or waiting to be shown.
Quiet == requests = <<>> /\ line = <<>> /\ btFlag = 0

\* HAL_UART_Transmit of a line, or of none.  Lines that the reader finds
\* together are one chunk, of which it handles the first; behind MaxWaiting
\* lines it always does.
Ask(lines) ==
  /\ requests' = IF Len(requests) < MaxWaiting THEN requests \o lines
                 ELSE requests
  /\ crowded' = IF lines = <<>> THEN crowded ELSE IF Quiet THEN 0 ELSE 1

\* The database client reads a chunk of n requests and handles the first.  A room
\* without a row gets no answer, a FAN line goes on to the node.  An answer
\* waits for the line to be free (its request is left where it is till then);
\* one that catches up with the answer before it may share a chunk with that
\* and be lost.
Answer ==
  /\ requests # <<>>
  /\ \E n \in 1 .. Len(requests) :
       requests' = SubSeq(requests, n + 1, Len(requests))
  /\ IF Head(requests) \in Known /\ line = <<>>
     THEN line' = <<Head(requests), Head(requests), END>>
     ELSE UNCHANGED line
  /\ UNCHANGED <<loop, chosen, g_input, tilt, flags, lcd, btData, btFlag, i,
                 recvBuf, crowded, clicks>>

\* The chunk begins with the line of another client, a node's SENSOR line in
\* the first place: that one is handled, and the requests behind it are lost.
Miss ==
  /\ requests # <<>>
  /\ \E n \in 1 .. Len(requests) :
       requests' = SubSeq(requests, n + 1, Len(requests))
  /\ UNCHANGED <<loop, chosen, g_input, tilt, flags, lcd, received, btFlag,
                 recvBuf, crowded, clicks>>

\* Mutant: i is not reset at the line end.
ReceiveOn ==
  /\ line # <<>>
  /\ line' = Tail(line)
  /\ IF Head(line) = END
     THEN btFlag' = 1 /\ UNCHANGED <<btData, i>>
     ELSE /\ btData' = [btData EXCEPT ![i + 1] = Head(line)]
          /\ i' = i + 1
          /\ UNCHANGED btFlag
  /\ UNCHANGED <<loop, chosen, g_input, tilt, flags, lcd, recvBuf, requests,
                 crowded, clicks>>

\* Mutant: the flag goes up with the last character of the text.
ReceiveEarly ==
  /\ line # <<>>
  /\ line' = Tail(line)
  /\ IF Head(line) = END
     THEN i' = 0 /\ UNCHANGED <<btData, btFlag>>
     ELSE /\ btData' = [btData EXCEPT ![i + 1] = Head(line)]
          /\ i' = i + 1
          /\ btFlag' = 1
  /\ UNCHANGED <<loop, chosen, g_input, tilt, flags, lcd, recvBuf, requests,
                 crowded, clicks>>

\* HAL_UART_RxCpltCallback of USART6.
Receive ==
  /\ line # <<>>
  /\ line' = Tail(line)
  /\ IF Head(line) = END
     THEN btFlag' = 1 /\ i' = 0 /\ UNCHANGED btData
     ELSE /\ btData' = [btData EXCEPT ![i + 1] = Head(line)]
          /\ i' = i + 1
          /\ UNCHANGED btFlag
  /\ UNCHANGED <<loop, chosen, g_input, tilt, flags, lcd, recvBuf, requests,
                 crowded, clicks>>

-----------------------------------------------------------------------------
(* The timer and the main loop. *)

\* TIM3: joystick_flag every 500 ms, tim3Flag1Sec every second time.  A pass of
\* the loop takes some ten milliseconds, so a flag is never raised twice.
HalfSecond ==
  /\ joystick_flag = 0 /\ tim3Flag1Sec = 0
  /\ half' = (half + 1) % (2 * POLL_PERIOD)
  /\ joystick_flag' = 1
  /\ tim3Flag1Sec' = IF half' % 2 = 0 THEN 1 ELSE 0
  /\ UNCHANGED <<loop, chosen, g_input, tilt, lcd, received, btFlag, recvBuf,
                 requests, crowded, clicks>>

\* The flag is taken down before the text is copied.
TestBtFlag ==
  /\ loop = "top"
  /\ btFlag' = 0
  /\ loop' = IF btFlag = 1 THEN "copy" ELSE "input"
  /\ UNCHANGED <<chosen, g_input, tilt, flags, lcd, received, recvBuf, requests,
                 crowded, clicks>>

\* strcpy(recvBuf, btData), character by character: the first ...
Copy ==
  /\ loop = "copy"
  /\ recvBuf' = <<btData[1]>>
  /\ loop' = "show"
  /\ UNCHANGED <<chosen, g_input, tilt, flags, lcd, received, btFlag, requests,
                 crowded, clicks>>

\* Mutant: the mode is not asked.
ShowAnyMode ==
  /\ loop = "show"
  /\ lcd' = DataScreen(cr_cur_idx, Append(recvBuf, btData[2]))
  /\ recvBuf' = <<>>
  /\ loop' = "input"
  /\ UNCHANGED <<chosen, g_input, tilt, flags, received, btFlag, requests,
                 crowded, clicks>>

\* ... and the last, with the rest of bluetooth_Event: in monitoring mode, the
\* room chosen now over the text received.
Show ==
  /\ loop = "show"
  /\ lcd' = IF e_mode = "MONITORING"
            THEN DataScreen(cr_cur_idx, Append(recvBuf, btData[2])) ELSE lcd
  /\ recvBuf' = <<>>
  /\ loop' = "input"
  /\ UNCHANGED <<chosen, g_input, tilt, flags, received, btFlag, requests,
                 crowded, clicks>>

\* (cr_cur_idx + 1) % cr_max_cnt, or one down with the wrap at zero.
MovedRoom(x) ==
  CASE x = 0 -> cr_cur_idx
    [] x > 0 -> (cr_cur_idx + 1) % cr_max_cnt
    [] x < 0 -> IF cr_cur_idx = 0 THEN cr_max_cnt - 1 ELSE cr_cur_idx - 1

MovedSpeed(speed, y) ==
  CASE y = 0 -> speed
    [] y > 0 -> IF speed + STEP > MAX_SPEED THEN MAX_SPEED ELSE speed + STEP
    [] y < 0 -> IF speed < STEP THEN 0 ELSE speed - STEP

\* Joystick_Track: x counts in the sample in which it changes sides.
Tracked(p) == IF p[1] = tilt THEN 0 ELSE p[1]

\* input_joystick: y counts as long as it is off the centre, and each input
\* only if the main loop has used the one before.
Polled(p, click) ==
  [x |-> IF g_input.x = 0 THEN Tracked(p) ELSE g_input.x,
   y |-> IF g_input.y = 0 THEN -p[2] ELSE g_input.y,
   sw |-> IF g_input.sw = 0 THEN click ELSE g_input.sw]

\* What every pass does: poll the stick; its block runs if the timer says so
\* and leaves no input behind.
Pass(p, click, run) ==
  /\ loop = "input" /\ joystick_flag = run
  /\ tilt' = p[1]
  /\ g_input' = IF run = 1 THEN NoInput ELSE Polled(p, click)
  /\ joystick_flag' = 0
  /\ loop' = "second"
  /\ UNCHANGED <<tim3Flag1Sec, half, received, btFlag, recvBuf>>

Clicked(click) == IF clicks < 2 THEN clicks + click ELSE 2

PollOnly(p, click) ==
  /\ Pass(p, click, 0)
  /\ clicks' = Clicked(click)
  /\ UNCHANGED <<chosen, lcd, requests, crowded>>

\* The stick moves the room in monitoring mode: ask for the new one.
StickMonitoring(p, click) ==
  LET g == Polled(p, click)
  IN  /\ e_mode = "MONITORING" /\ g.sw = 0
      /\ Pass(p, click, 1)
      /\ cr_cur_idx' = MovedRoom(g.x)
      /\ Ask(IF g.x = 0 THEN <<>> ELSE <<cr_cur_idx'>>)
      /\ UNCHANGED <<e_mode, target_fan_speed, lcd, clicks>>

\* Mutant: the click is not taken back, and sends the speed at once.
StickEntersAndSends(p, click) ==
  LET g == Polled(p, click)
  IN  /\ e_mode = "MONITORING" /\ g.sw = 1
      /\ Pass(p, click, 1)
      /\ cr_cur_idx' = MovedRoom(g.x)
      /\ target_fan_speed' = MovedSpeed(FIRST_SPEED, g.y)
      /\ lcd' = FanScreen(cr_cur_idx', target_fan_speed')
      /\ Ask(<<FAN>>) /\ clicks' = Clicked(click) - 2
      /\ UNCHANGED e_mode

\* A click in monitoring mode enters manual mode, which the same pass goes
\* through at once, with the click taken back.
StickEnters(p, click) ==
  LET g == Polled(p, click)
  IN  /\ e_mode = "MONITORING" /\ g.sw = 1
      /\ Pass(p, click, 1)
      /\ e_mode' = "MANUAL"
      /\ cr_cur_idx' = MovedRoom(g.x)
      /\ target_fan_speed' = MovedSpeed(FIRST_SPEED, g.y)
      /\ lcd' = FanScreen(cr_cur_idx', target_fan_speed')
      /\ clicks' = Clicked(click)
      /\ UNCHANGED <<requests, crowded>>

\* In manual mode the stick moves room and speed; a click sends the speed.
StickManual(p, click) ==
  LET g == Polled(p, click)
  IN  /\ e_mode = "MANUAL"
      /\ Pass(p, click, 1)
      /\ cr_cur_idx' = MovedRoom(g.x)
      /\ target_fan_speed' = MovedSpeed(target_fan_speed, g.y)
      /\ lcd' = FanScreen(cr_cur_idx', target_fan_speed')
      /\ IF g.sw = 1
         THEN e_mode' = "MONITORING" /\ Ask(<<FAN>>)
              /\ clicks' = Clicked(click) - 2
         ELSE /\ clicks' = Clicked(click)
              /\ UNCHANGED <<e_mode, requests, crowded>>

\* Mutant: the mode is tested the wrong way round.
SecondInManual ==
  /\ loop = "second"
  /\ tim3Flag1Sec' = 0
  /\ Ask(IF /\ tim3Flag1Sec = 1 /\ (half \div 2) % POLL_PERIOD = 0
            /\ e_mode = "MANUAL"
         THEN <<cr_cur_idx>> ELSE <<>>)
  /\ loop' = "top"
  /\ UNCHANGED <<chosen, g_input, tilt, joystick_flag, half, lcd, received,
                 btFlag, recvBuf, clicks>>

\* The one-second block: every POLL_PERIOD seconds, in monitoring mode, ask.
Second ==
  /\ loop = "second"
  /\ tim3Flag1Sec' = 0
  /\ Ask(IF /\ tim3Flag1Sec = 1 /\ (half \div 2) % POLL_PERIOD = 0
            /\ e_mode = "MONITORING"
         THEN <<cr_cur_idx>> ELSE <<>>)
  /\ loop' = "top"
  /\ UNCHANGED <<chosen, g_input, tilt, joystick_flag, half, lcd, received,
                 btFlag, recvBuf, clicks>>

Main ==
  \/ TestBtFlag \/ Copy \/ Show \/ Second
  \/ \E p \in Positions, click \in {0, 1} :
       \/ PollOnly(p, click) \/ StickMonitoring(p, click)
       \/ StickEnters(p, click) \/ StickManual(p, click)

Init ==
  /\ loop = "top"
  /\ e_mode = "MONITORING" /\ cr_cur_idx = FirstRoom
  /\ target_fan_speed = FIRST_SPEED
  /\ g_input = NoInput /\ tilt = 0
  /\ joystick_flag = 0 /\ tim3Flag1Sec = 1 /\ half = 0
  /\ lcd = Blank
  /\ btData = <<NONE, NONE>> /\ btFlag = 0 /\ i = 0 /\ recvBuf = <<>>
  /\ requests = <<>> /\ line = <<>>
  /\ crowded = 0 /\ clicks = 0

Next == Answer \/ Miss \/ Receive \/ HalfSecond \/ Main

Spec == Init /\ [][Next]_vars

\* The clients and the interrupts go on, and no call of the loop blocks.  That
\* a request is read is certain, that it is answered is not.
LiveSpec ==
  /\ Spec
  /\ WF_vars(Answer \/ Miss) /\ WF_vars(Receive)
  /\ WF_vars(HalfSecond) /\ WF_vars(Main)

-----------------------------------------------------------------------------
(* Properties. *)

Characters == Rooms \cup {NONE}

MainType ==
  /\ loop \in {"top", "copy", "show", "input", "second"}
  /\ e_mode \in {"MONITORING", "MANUAL"}
  /\ cr_cur_idx \in Rooms
  /\ target_fan_speed \in 0 .. MAX_SPEED
  /\ g_input \in [x : -1 .. 1, y : -1 .. 1, sw : {0, 1}]
  /\ tilt \in -1 .. 1
  /\ joystick_flag \in {0, 1} /\ tim3Flag1Sec \in {0, 1}
  /\ half \in 0 .. 2 * POLL_PERIOD - 1
  /\ lcd.screen \in {"BLANK", "DATA", "FAN"} /\ lcd.room \in Rooms
  /\ clicks \in -2 .. 2

TextType ==
  /\ btData \in [1 .. 2 -> Characters] /\ btFlag \in {0, 1} /\ i \in 0 .. 2
  /\ recvBuf \in {<<>>} \cup {<<c>> : c \in Characters}
  /\ requests \in Seq(Rooms \cup {FAN}) /\ Len(requests) <= MaxWaiting
  /\ line \in Seq(Rooms \cup {END})
  /\ crowded \in {0, 1}

\* Every variable has its type; the interrupt stays inside btData.
TypeOK == MainType /\ TextType

\* A FAN line, and nothing else, uses up clicks.
SendsFan == clicks' < clicks

\* A speed is never sent by one click: one to enter manual mode and another to
\* send, however long each stays in g_input and whatever the timers do.
FanTakesTwoClicks == clicks >= 0

\* The room and the speed that a click sends are those on the display before
\* it, unless the stick has moved them in the same half second: no answer that
\* was on its way has drawn over them.
ConfirmedAsShown ==
  [][SendsFan /\ UNCHANGED <<cr_cur_idx, target_fan_speed>> =>
       lcd = FanScreen(cr_cur_idx, target_fan_speed)]_vars

\* As long as the console asks only once the last exchange is over, a text is
\* shown whole, and under the room it was measured in.
ShownIsOwn ==
  [][lcd' # lcd /\ lcd'.screen = "DATA" /\ crowded = 0 =>
       lcd'.body = <<lcd'.room, lcd'.room>>]_vars

\* Not every chunk with a request in it begins with another client's line, for
\* ever: nothing in the code keeps the node's lines apart from the requests.
NotAlwaysMissed == []<>(requests # <<>>) => []<><<Answer>>_vars

\* Once the user settles on a room that has data, the display settles on it,
\* whatever requests and answers were lost or mixed up before, as long as it
\* is not the fate of every request to be read behind another client's line.
ShowsChosenRoom ==
  NotAlwaysMissed =>
    \A r \in Known :
      <>[](e_mode = "MONITORING" /\ cr_cur_idx = r)
        => <>[](lcd = DataScreen(r, <<r, r>>))

==============================================================================
