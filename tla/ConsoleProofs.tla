---------------------------- MODULE ConsoleProofs ----------------------------
(***************************************************************************)
(* Proofs about Console, for every number of rooms, every set of rooms     *)
(* with data and of stick positions, all speeds and every MaxWaiting.      *)
(***************************************************************************)
EXTENDS Console, SequenceTheorems, TLAPS

\* Two characters make a text of two.
LEMMA AppendPair ==
  ASSUME NEW S, NEW a \in S, NEW b \in S
  PROVE  Append(<<a>>, b) = <<a, b>>
<1>1. <<a>> \in Seq(S) /\ Len(<<a>>) = 1
  OBVIOUS
<1>2. /\ Append(<<a>>, b) \in Seq(S)
      /\ Len(Append(<<a>>, b)) = 2
      /\ Append(<<a>>, b)[1] = a /\ Append(<<a>>, b)[2] = b
  BY <1>1, AppendProperties
<1>3. <<a, b>> \in Seq(S) /\ Len(<<a, b>>) = 2
      /\ <<a, b>>[1] = a /\ <<a, b>>[2] = b
  OBVIOUS
<1> DEFINE s == Append(<<a>>, b)
           t == <<a, b>>
<1>4. /\ s \in Seq(S) /\ t \in Seq(S) /\ Len(s) = Len(t)
      /\ \A k \in 1 .. Len(s) : s[k] = t[k]
  BY <1>2, <1>3
<1> HIDE DEF s, t
<1>5. s = t
  BY <1>4, SeqEqual
<1>6. QED
  BY <1>5 DEF s, t

USE RoomsAssumption, SpeedsAssumption, BoundsAssumption DEF Rooms

-----------------------------------------------------------------------------
(* The operators. *)

LEMMA MovedRoomType ==
  ASSUME cr_cur_idx \in Rooms, NEW x \in -1 .. 1
  PROVE  MovedRoom(x) \in Rooms
BY DEF MovedRoom

LEMMA MovedSpeedType ==
  ASSUME NEW speed \in 0 .. MAX_SPEED, NEW y \in -1 .. 1
  PROVE  MovedSpeed(speed, y) \in 0 .. MAX_SPEED
BY DEF MovedSpeed

LEMMA PolledType ==
  ASSUME TypeOK, NEW p \in Positions, NEW click \in {0, 1}
  PROVE  /\ p[1] \in -1 .. 1
         /\ Polled(p, click) \in [x : -1 .. 1, y : -1 .. 1, sw : {0, 1}]
<1>1. p[1] \in -1 .. 1 /\ p[2] \in -1 .. 1
  BY PositionsAssumption
<1>2. g_input.x \in -1 .. 1 /\ g_input.y \in -1 .. 1 /\ g_input.sw \in {0, 1}
  BY DEF TypeOK, MainType
<1>3. -p[2] \in -1 .. 1
  BY <1>1
<1>4. QED
  BY <1>1, <1>2, <1>3 DEF Polled, Tracked

\* A line waits behind fewer than MaxWaiting others, or is dropped.
LEMMA AskType ==
  ASSUME TypeOK, NEW lines \in Seq(Rooms \cup {FAN}), Len(lines) <= 1,
         Ask(lines)
  PROVE  /\ requests' \in Seq(Rooms \cup {FAN}) /\ Len(requests') <= MaxWaiting
         /\ crowded' \in {0, 1}
<1>1. requests \o lines \in Seq(Rooms \cup {FAN})
      /\ Len(requests \o lines) = Len(requests) + Len(lines)
  BY ConcatProperties DEF TypeOK, TextType
<1>2. QED
  BY <1>1 DEF Ask, TypeOK, TextType

\* A question that breaks the quiet is the only one; any other is crowded.
LEMMA AskAlone ==
  ASSUME NEW r, Ask(<<r>>)
  PROVE  \/ crowded' = 1
         \/ crowded' = 0 /\ Quiet /\ requests' = <<r>>
<1>1. <<r>> # <<>>
  OBVIOUS
<1>2. Quiet => requests' = <<r>>
  <2>1. <<>> \o <<r>> = <<r>> /\ Len(<<>>) = 0
    OBVIOUS
  <2>2. QED
    BY <2>1 DEF Quiet, Ask
<1>3. QED
  BY <1>1, <1>2 DEF Ask

LEMMA AskNothing ==
  ASSUME TypeOK, Ask(<<>>)
  PROVE  requests' = requests /\ crowded' = crowded
<1>1. requests \o <<>> = requests
  BY ConcatEmptySeq DEF TypeOK, TextType
<1>2. QED
  BY <1>1 DEF Ask

-----------------------------------------------------------------------------
(* The inductive invariant. *)

\* What is on the line is the rest of one answer, and i says how much of it
\* has been received.
LineInv ==
  \/ line = <<>> /\ i = 0
  \/ \E r \in Known :
       \/ line = <<r, r, END>> /\ i = 0
       \/ line = <<r, END>> /\ i = 1
       \/ line = <<END>> /\ i = 2

\* The first click is behind manual mode, the second one waits in g_input.
ClicksInv ==
  /\ clicks \in 0 .. 2
  /\ g_input.sw = 1 \/ e_mode = "MANUAL" => clicks >= 1
  /\ g_input.sw = 1 /\ e_mode = "MANUAL" => clicks = 2

\* In manual mode the display shows what a click would send.
ScreenInv == e_mode = "MANUAL" => lcd = FanScreen(cr_cur_idx, target_fan_speed)

Copying == loop \in {"copy", "show"}

\* The stages of an exchange about room r that nothing else has disturbed.
Waiting(r) == requests = <<r>> /\ line = <<>> /\ btFlag = 0 /\ ~Copying
Travelling(r) ==
  /\ requests = <<>> /\ btFlag = 0 /\ ~Copying
  /\ \/ line = <<r, r, END>> /\ i = 0
     \/ line = <<r, END>> /\ i = 1 /\ btData[1] = r
     \/ line = <<END>> /\ i = 2 /\ btData[1] = r /\ btData[2] = r
Arrived(r) ==
  /\ requests = <<>> /\ line = <<>>
  /\ btData[1] = r /\ btData[2] = r
  /\ \/ btFlag = 1 /\ ~Copying
     \/ btFlag = 0 /\ loop = "copy"
     \/ btFlag = 0 /\ loop = "show" /\ recvBuf = <<r>>

Exchange(r) == Waiting(r) \/ Travelling(r) \/ Arrived(r)

\* An exchange that was begun in quiet is the only one, and about the room
\* that is chosen, or manual mode has begun since.
ExchangeInv ==
  \/ crowded = 1
  \/ Quiet /\ ~Copying
  \/ Waiting(FAN)
  \/ \E r \in Rooms :
       Exchange(r) /\ (e_mode = "MONITORING" => r = cr_cur_idx)

Inv == TypeOK /\ LineInv /\ ClicksInv /\ ScreenInv /\ ExchangeInv

LEMMA InvInit == Init => Inv
<1> SUFFICES ASSUME Init PROVE Inv
  OBVIOUS
<1>1. TypeOK
  BY DEF Init, TypeOK, MainType, TextType, NoInput, Blank, Characters
<1>2. LineInv /\ ClicksInv /\ ScreenInv
  BY DEF Init, LineInv, ClicksInv, ScreenInv, NoInput
<1>3. ExchangeInv
  BY DEF Init, ExchangeInv, Quiet, Copying
<1>4. QED
  BY <1>1, <1>2, <1>3 DEF Inv

-----------------------------------------------------------------------------
(* The client, the interrupts, and the test and copy of the text. *)

LEMMA InvAnswer ==
  ASSUME Inv, Answer
  PROVE  Inv'
<1> DEFINE r == Head(requests)
<1>1. PICK n \in 1 .. Len(requests) :
        requests' = SubSeq(requests, n + 1, Len(requests))
  BY DEF Answer
<1>2. requests \in Seq(Rooms \cup {FAN}) /\ requests # <<>>
  BY DEF Answer, Inv, TypeOK, TextType
<1>3. requests' \in Seq(Rooms \cup {FAN}) /\ Len(requests') <= MaxWaiting
  <2>1. \A k \in n + 1 .. Len(requests) : requests[k] \in Rooms \cup {FAN}
    BY <1>2
  <2>2. QED
    BY <1>1, <1>2, <2>1, SubSeqProperties DEF Inv, TypeOK, TextType
<1>4. \/ line' = line
      \/ line = <<>> /\ r \in Known /\ line' = <<r, r, END>>
  BY DEF Answer
<1>5. line' \in Seq(Rooms \cup {END})
  <2>1. CASE line' = line
    BY <2>1 DEF Inv, TypeOK, TextType
  <2>2. ASSUME NEW q \in Known, line' = <<q, q, END>>
        PROVE  line' \in Seq(Rooms \cup {END})
    <3>1. q \in Rooms \cup {END} /\ END \in Rooms \cup {END}
      OBVIOUS
    <3>2. QED
      BY <2>2, <3>1
  <2>3. QED
    BY <1>4, <2>1, <2>2
<1>6. TypeOK'
  <2>1. MainType'
    BY DEF Inv, TypeOK, MainType, Answer, chosen, flags
  <2>2. TextType'
    BY <1>3, <1>5 DEF Inv, TypeOK, TextType, Answer, Characters
  <2>3. QED
    BY <2>1, <2>2 DEF TypeOK
<1>7. LineInv'
  <2>1. LineInv /\ i' = i
    BY DEF Inv, Answer
  <2>2. CASE line' = line
    BY <2>1, <2>2 DEF LineInv
  <2>3. CASE line = <<>> /\ r \in Known /\ line' = <<r, r, END>>
    <3>1. i' = 0
      BY <2>1, <2>3 DEF LineInv
    <3>2. QED
      BY <2>3, <3>1 DEF LineInv
  <2>4. QED
    BY <1>4, <2>2, <2>3
<1>8. ClicksInv' /\ ScreenInv'
  BY DEF Inv, ClicksInv, ScreenInv, Answer, chosen
<1>9. ExchangeInv'
  <2>1. CASE crowded = 1
    BY <2>1 DEF Answer, ExchangeInv
  <2>2. CASE Waiting(FAN)
    <3>1. requests' = <<>> /\ r \notin Known /\ line' = line
      BY <2>2, <1>1, <1>4, SubSeqEmpty DEF Waiting, FAN
    <3>2. QED
      BY <3>1, <2>2 DEF Waiting, Answer, ExchangeInv, Quiet, Copying
  <2>3. ASSUME NEW q \in Rooms, Exchange(q),
               e_mode = "MONITORING" => q = cr_cur_idx
        PROVE  ExchangeInv'
    <3>1. Waiting(q)
      BY <2>3, <1>2 DEF Exchange, Travelling, Arrived
    <3>2. requests' = <<>> /\ r = q
      BY <3>1, <1>1, SubSeqEmpty DEF Waiting
    <3>3. CASE q \in Known
      <4>1. line' = <<q, q, END>> /\ i' = 0
        BY <3>1, <3>2, <3>3 DEF Answer, Waiting, Inv, LineInv
      <4>2. Travelling(q)'
        BY <3>1, <3>2, <4>1 DEF Travelling, Waiting, Copying, Answer
      <4>3. QED
        BY <4>2, <2>3 DEF ExchangeInv, Exchange, Answer, chosen
    <3>4. CASE q \notin Known
      BY <3>1, <3>2, <3>4 DEF Answer, Waiting, ExchangeInv, Quiet, Copying
    <3>5. QED
      BY <3>3, <3>4
  <2>4. ~Quiet
    BY <1>2 DEF Quiet
  <2>5. QED
    BY <2>1, <2>2, <2>3, <2>4 DEF Inv, ExchangeInv
<1>10. QED
  BY <1>6, <1>7, <1>8, <1>9 DEF Inv

\* A miss ends the exchange: all is quiet again.
LEMMA InvMiss ==
  ASSUME Inv, Miss
  PROVE  Inv'
<1>1. PICK n \in 1 .. Len(requests) :
        requests' = SubSeq(requests, n + 1, Len(requests))
  BY DEF Miss
<1>2. requests \in Seq(Rooms \cup {FAN}) /\ requests # <<>>
  BY DEF Miss, Inv, TypeOK, TextType
<1>3. requests' \in Seq(Rooms \cup {FAN}) /\ Len(requests') <= MaxWaiting
  <2>1. \A k \in n + 1 .. Len(requests) : requests[k] \in Rooms \cup {FAN}
    BY <1>2
  <2>2. QED
    BY <1>1, <1>2, <2>1, SubSeqProperties DEF Inv, TypeOK, TextType
<1>4. TypeOK'
  <2>1. MainType'
    BY DEF Inv, TypeOK, MainType, Miss, chosen, flags
  <2>2. TextType'
    BY <1>3 DEF Inv, TypeOK, TextType, Miss, received, Characters
  <2>3. QED
    BY <2>1, <2>2 DEF TypeOK
<1>5. LineInv' /\ ClicksInv' /\ ScreenInv'
  BY DEF Inv, LineInv, ClicksInv, ScreenInv, Miss, chosen, received
<1>6. ExchangeInv'
  <2>1. CASE crowded = 1
    BY <2>1 DEF Miss, ExchangeInv
  <2>2. ASSUME NEW q \in Rooms \cup {FAN}, Waiting(q)
        PROVE  ExchangeInv'
    <3>1. requests' = <<>>
      BY <2>2, <1>1, SubSeqEmpty DEF Waiting
    <3>2. QED
      BY <3>1, <2>2 DEF Waiting, Miss, ExchangeInv, Quiet, Copying, received
  <2>3. QED
    BY <2>1, <2>2, <1>2
    DEF Inv, ExchangeInv, Quiet, Exchange, Travelling, Arrived
<1>7. QED
  BY <1>4, <1>5, <1>6 DEF Inv

LEMMA InvReceive ==
  ASSUME Inv, Receive
  PROVE  Inv'
<1>1. PICK r \in Known :
        \/ line = <<r, r, END>> /\ i = 0
        \/ line = <<r, END>> /\ i = 1
        \/ line = <<END>> /\ i = 2
  BY DEF Inv, LineInv, Receive
<1>2. r \in Rooms /\ r # END
  BY DEF END
<1>3. CASE line = <<r, r, END>> /\ i = 0
  <2>1. /\ line' = <<r, END>> /\ i' = 1 /\ btFlag' = btFlag
        /\ btData' = [btData EXCEPT ![1] = r]
    BY <1>2, <1>3 DEF Receive
  <2>2. btData' \in [1 .. 2 -> Characters] /\ btData'[1] = r
    BY <1>2, <2>1 DEF Inv, TypeOK, TextType, Characters
  <2>3. line' \in Seq(Rooms \cup {END})
    BY <1>2, <2>1
  <2>7. TypeOK'
    <3>1. MainType'
      BY DEF Inv, TypeOK, MainType, Receive, chosen, flags
    <3>2. TextType'
      BY <2>1, <2>2, <2>3 DEF Inv, TypeOK, TextType, Receive, Characters
    <3>3. QED
      BY <3>1, <3>2 DEF TypeOK
  <2>8. LineInv'
    BY <2>1 DEF LineInv
  <2>4. ClicksInv' /\ ScreenInv'
    BY DEF Inv, ClicksInv, ScreenInv, Receive, chosen
  <2>5. ExchangeInv'
    <3>1. CASE crowded = 1
      BY <3>1 DEF Receive, ExchangeInv
    <3>2. ASSUME NEW q \in Rooms, Exchange(q),
                 e_mode = "MONITORING" => q = cr_cur_idx
          PROVE  ExchangeInv'
      <4>1. Travelling(q) /\ r = q
        BY <3>2, <1>3 DEF Exchange, Waiting, Arrived, Travelling
      <4>2. Travelling(q)'
        BY <4>1, <2>1, <2>2 DEF Travelling, Receive, Copying
      <4>3. QED
        BY <4>2, <3>2 DEF ExchangeInv, Exchange, Receive, chosen
    <3>3. QED
      BY <3>1, <3>2, <1>3 DEF Inv, ExchangeInv, Quiet, Waiting
  <2>6. QED
    BY <2>4, <2>5, <2>7, <2>8 DEF Inv
<1>4. CASE line = <<r, END>> /\ i = 1
  <2>1. /\ line' = <<END>> /\ i' = 2 /\ btFlag' = btFlag
        /\ btData' = [btData EXCEPT ![2] = r]
    BY <1>2, <1>4 DEF Receive
  <2>2. /\ btData' \in [1 .. 2 -> Characters]
        /\ btData'[1] = btData[1] /\ btData'[2] = r
    BY <1>2, <2>1 DEF Inv, TypeOK, TextType, Characters
  <2>3. line' \in Seq(Rooms \cup {END})
    BY <1>2, <2>1
  <2>7. TypeOK'
    <3>1. MainType'
      BY DEF Inv, TypeOK, MainType, Receive, chosen, flags
    <3>2. TextType'
      BY <2>1, <2>2, <2>3 DEF Inv, TypeOK, TextType, Receive, Characters
    <3>3. QED
      BY <3>1, <3>2 DEF TypeOK
  <2>8. LineInv'
    BY <2>1 DEF LineInv
  <2>4. ClicksInv' /\ ScreenInv'
    BY DEF Inv, ClicksInv, ScreenInv, Receive, chosen
  <2>5. ExchangeInv'
    <3>1. CASE crowded = 1
      BY <3>1 DEF Receive, ExchangeInv
    <3>2. ASSUME NEW q \in Rooms, Exchange(q),
                 e_mode = "MONITORING" => q = cr_cur_idx
          PROVE  ExchangeInv'
      <4>1. Travelling(q) /\ r = q /\ btData[1] = q
        BY <3>2, <1>4 DEF Exchange, Waiting, Arrived, Travelling
      <4>2. Travelling(q)'
        BY <4>1, <2>1, <2>2 DEF Travelling, Receive, Copying
      <4>3. QED
        BY <4>2, <3>2 DEF ExchangeInv, Exchange, Receive, chosen
    <3>3. QED
      BY <3>1, <3>2, <1>4 DEF Inv, ExchangeInv, Quiet, Waiting
  <2>6. QED
    BY <2>4, <2>5, <2>7, <2>8 DEF Inv
<1>5. CASE line = <<END>> /\ i = 2
  <2>1. line' = <<>> /\ i' = 0 /\ btFlag' = 1 /\ btData' = btData
    BY <1>5 DEF Receive
  <2>2. TypeOK' /\ LineInv'
    <3>1. MainType'
      BY DEF Inv, TypeOK, MainType, Receive, chosen, flags
    <3>2. TextType'
      BY <2>1 DEF Inv, TypeOK, TextType, Receive, Characters
    <3>3. QED
      BY <2>1, <3>1, <3>2 DEF TypeOK, LineInv
  <2>3. ClicksInv' /\ ScreenInv'
    BY DEF Inv, ClicksInv, ScreenInv, Receive, chosen
  <2>4. ExchangeInv'
    <3>1. CASE crowded = 1
      BY <3>1 DEF Receive, ExchangeInv
    <3>2. ASSUME NEW q \in Rooms, Exchange(q),
                 e_mode = "MONITORING" => q = cr_cur_idx
          PROVE  ExchangeInv'
      <4>1. Travelling(q) /\ btData[1] = q /\ btData[2] = q
        BY <3>2, <1>5 DEF Exchange, Waiting, Arrived, Travelling
      <4>2. Arrived(q)'
        BY <4>1, <2>1 DEF Arrived, Travelling, Receive, Copying
      <4>3. QED
        BY <4>2, <3>2 DEF ExchangeInv, Exchange, Receive, chosen
    <3>3. QED
      BY <3>1, <3>2, <1>5 DEF Inv, ExchangeInv, Quiet, Waiting
  <2>5. QED
    BY <2>2, <2>3, <2>4 DEF Inv
<1>6. QED
  BY <1>1, <1>3, <1>4, <1>5

\* The timer touches the flags and nothing else.
LEMMA InvHalfSecond ==
  ASSUME Inv, HalfSecond
  PROVE  Inv'
<1>1. half' \in 0 .. 2 * POLL_PERIOD - 1
  BY DEF HalfSecond, Inv, TypeOK, MainType
<1>2. TypeOK'
  BY <1>1
  DEF HalfSecond, Inv, TypeOK, MainType, TextType, chosen, received, Characters
<1>3. LineInv' /\ ClicksInv' /\ ScreenInv'
  BY DEF Inv, HalfSecond, LineInv, ClicksInv, ScreenInv, chosen, received
<1>4. ExchangeInv'
  BY
  DEF Inv, HalfSecond, ExchangeInv, Exchange, Waiting, Travelling, Arrived,
      Copying, Quiet, chosen, received
<1>5. QED
  BY <1>2, <1>3, <1>4 DEF Inv

\* An exchange goes on while the loop neither copies nor asks, as long as the
\* chosen room stays or manual mode is on.
LEMMA ExchangeKept ==
  ASSUME ExchangeInv, ~Copying, ~Copying',
         UNCHANGED <<received, btFlag, requests, crowded>>,
         e_mode' = "MONITORING" =>
           e_mode = "MONITORING" /\ cr_cur_idx' = cr_cur_idx
  PROVE  ExchangeInv'
<1>1. CASE crowded = 1
  BY <1>1 DEF ExchangeInv
<1>2. CASE Quiet \/ Waiting(FAN)
  BY <1>2 DEF ExchangeInv, Quiet, Waiting, received
<1>3. ASSUME NEW r \in Rooms, Exchange(r),
             e_mode = "MONITORING" => r = cr_cur_idx
      PROVE  ExchangeInv'
  <2>1. Exchange(r)'
    BY <1>3 DEF Exchange, Waiting, Travelling, Arrived, received, Copying
  <2>2. QED
    BY <1>3, <2>1 DEF ExchangeInv
<1>4. QED
  BY <1>1, <1>2, <1>3 DEF ExchangeInv

\* A question begins an exchange about the room that is chosen.
LEMMA ExchangeBegins ==
  ASSUME ~Copying', UNCHANGED <<received, btFlag>>,
         NEW r \in Rooms \cup {FAN}, Ask(<<r>>),
         r = FAN \/ r = cr_cur_idx'
  PROVE  ExchangeInv'
<1>1. CASE crowded' = 1
  BY <1>1 DEF ExchangeInv
<1>2. CASE Quiet /\ requests' = <<r>>
  BY <1>2 DEF ExchangeInv, Exchange, Waiting, Quiet, received
<1>3. QED
  BY <1>1, <1>2, AskAlone

LEMMA InvTestBtFlag ==
  ASSUME Inv, TestBtFlag
  PROVE  Inv'
<1>1. TypeOK'
  BY
  DEF TestBtFlag, Inv, TypeOK, MainType, TextType, chosen, flags, received,
      Characters
<1>2. LineInv' /\ ClicksInv' /\ ScreenInv'
  BY DEF Inv, TestBtFlag, LineInv, ClicksInv, ScreenInv, chosen, received
<1>3. ExchangeInv'
  <2>1. CASE crowded = 1
    BY <2>1 DEF TestBtFlag, ExchangeInv
  <2>2. CASE btFlag = 0
    <3>1. ~Copying /\ ~Copying' /\ btFlag' = btFlag
      BY <2>2 DEF TestBtFlag, Copying
    <3>2. QED
      BY <3>1, ExchangeKept DEF Inv, TestBtFlag, chosen
  <2>3. ASSUME btFlag = 1, NEW r \in Rooms, Exchange(r),
               e_mode = "MONITORING" => r = cr_cur_idx
        PROVE  ExchangeInv'
    <3>1. Arrived(r)
      BY <2>3 DEF Exchange, Waiting, Travelling
    <3>2. Arrived(r)'
      BY <3>1, <2>3 DEF Arrived, TestBtFlag, received
    <3>3. QED
      BY <3>2, <2>3 DEF Exchange, ExchangeInv, TestBtFlag, chosen
  <2>4. btFlag \in {0, 1}
    BY DEF Inv, TypeOK, TextType
  <2>5. QED
    BY <2>1, <2>2, <2>3, <2>4 DEF Inv, ExchangeInv, Quiet, Waiting
<1>4. QED
  BY <1>1, <1>2, <1>3 DEF Inv

LEMMA InvCopy ==
  ASSUME Inv, Copy
  PROVE  Inv'
<1>1. btData[1] \in Characters
  BY DEF Inv, TypeOK, TextType
<1>2. MainType'
  BY DEF Copy, Inv, TypeOK, MainType, chosen, flags
<1>3. TextType'
  BY <1>1 DEF Copy, Inv, TypeOK, TextType, received, Characters
<1>4. LineInv' /\ ClicksInv' /\ ScreenInv'
  BY DEF Inv, Copy, LineInv, ClicksInv, ScreenInv, chosen, received
<1>5. ExchangeInv'
  <2>1. CASE crowded = 1
    BY <2>1 DEF Copy, ExchangeInv
  <2>2. ASSUME NEW r \in Rooms, Exchange(r),
               e_mode = "MONITORING" => r = cr_cur_idx
        PROVE  ExchangeInv'
    <3>1. Arrived(r)
      BY <2>2 DEF Exchange, Waiting, Travelling, Copy, Copying
    <3>2. Arrived(r)'
      BY <3>1 DEF Arrived, Copy, Copying, received
    <3>3. QED
      BY <3>2, <2>2 DEF Exchange, ExchangeInv, Copy, chosen
  <2>3. QED
    BY <2>1, <2>2 DEF Inv, ExchangeInv, Quiet, Waiting, Copy, Copying
<1>6. QED
  BY <1>2, <1>3, <1>4, <1>5 DEF Inv, TypeOK

\* What Show draws outside a crowd is one answer, about the room on display.
LEMMA ShowOwn ==
  ASSUME Inv, Show, crowded = 0, e_mode = "MONITORING"
  PROVE  Append(recvBuf, btData[2]) = <<cr_cur_idx, cr_cur_idx>>
<1>1. PICK r \in Rooms : Exchange(r) /\ r = cr_cur_idx
  BY DEF Inv, ExchangeInv, Waiting, Show, Copying
<1>2. recvBuf = <<r>> /\ btData[2] = r
  BY <1>1 DEF Exchange, Waiting, Travelling, Arrived, Show, Copying
<1>3. Append(<<r>>, r) = <<r, r>>
  BY AppendPair
<1>4. QED
  BY <1>1, <1>2, <1>3

LEMMA InvShow ==
  ASSUME Inv, Show
  PROVE  Inv'
<1>1. lcd'.screen \in {"BLANK", "DATA", "FAN"} /\ lcd'.room \in Rooms
  BY DEF Show, DataScreen, Inv, TypeOK, MainType
<1>2. MainType'
  BY <1>1 DEF Show, Inv, TypeOK, MainType, chosen, flags
<1>3. TextType'
  BY DEF Show, Inv, TypeOK, TextType, received, Characters
<1>4. LineInv' /\ ClicksInv' /\ ScreenInv'
  BY DEF Inv, Show, LineInv, ClicksInv, ScreenInv, chosen, received
<1>5. ExchangeInv'
  <2>1. CASE crowded = 1
    BY <2>1 DEF Show, ExchangeInv
  <2>2. ASSUME NEW r \in Rooms, Exchange(r) PROVE ExchangeInv'
    <3>1. Arrived(r)
      BY <2>2 DEF Exchange, Waiting, Travelling, Show, Copying
    <3>2. Quiet' /\ ~Copying'
      BY <3>1 DEF Arrived, Show, Quiet, Copying, received
    <3>3. QED
      BY <3>2 DEF ExchangeInv
  <2>3. QED
    BY <2>1, <2>2 DEF Inv, ExchangeInv, Waiting, Show, Copying
<1>6. QED
  BY <1>2, <1>3, <1>4, <1>5 DEF Inv, TypeOK

-----------------------------------------------------------------------------
(* The stick and the one-second block. *)

LEMMA PassType ==
  ASSUME Inv, NEW p \in Positions, NEW click \in {0, 1}, NEW run \in {0, 1},
         Pass(p, click, run)
  PROVE  /\ ~Copying /\ ~Copying' /\ loop' = "second"
         /\ tilt' \in -1 .. 1
         /\ g_input' \in [x : -1 .. 1, y : -1 .. 1, sw : {0, 1}]
         /\ joystick_flag' \in {0, 1}
         /\ LineInv'
<1>1. g_input' \in [x : -1 .. 1, y : -1 .. 1, sw : {0, 1}] /\ tilt' \in -1 .. 1
  <2>1. NoInput \in [x : -1 .. 1, y : -1 .. 1, sw : {0, 1}]
    BY DEF NoInput
  <2>2. QED
    BY <2>1, PolledType DEF Pass, Inv
<1>2. LineInv'
  BY DEF Pass, Inv, LineInv, received
<1>3. QED
  BY <1>1, <1>2 DEF Pass, Copying

\* A click is counted, up to two.
LEMMA ClickedBounds ==
  ASSUME Inv, NEW p \in Positions, NEW click \in {0, 1}
  PROVE  /\ Clicked(click) \in 0 .. 2 /\ Clicked(click) >= clicks
         /\ Polled(p, click).sw = 1 => Clicked(click) >= 1
         /\ Polled(p, click).sw = 1 /\ e_mode = "MANUAL" => Clicked(click) = 2
BY DEF Inv, ClicksInv, Clicked, Polled, TypeOK, MainType

LEMMA InvPollOnly ==
  ASSUME Inv, NEW p \in Positions, NEW click \in {0, 1}, PollOnly(p, click)
  PROVE  Inv'
<1>1. Pass(p, click, 0) /\ 0 \in {0, 1}
  BY DEF PollOnly
<1>2. MainType'
  BY <1>1, PassType, ClickedBounds
  DEF PollOnly, Pass, Inv, TypeOK, MainType, chosen
<1>3. TextType'
  BY DEF PollOnly, Pass, Inv, TypeOK, TextType, received, Characters
<1>4. ClicksInv'
  BY ClickedBounds DEF PollOnly, Pass, Inv, ClicksInv, chosen
<1>5. ScreenInv'
  BY DEF PollOnly, Inv, ScreenInv, chosen
<1>6. ExchangeInv'
  BY <1>1, PassType, ExchangeKept DEF PollOnly, Pass, Inv, chosen
<1>7. QED
  BY <1>1, <1>2, <1>3, <1>4, <1>5, <1>6, PassType DEF Inv, TypeOK

LEMMA InvStickMonitoring ==
  ASSUME Inv, NEW p \in Positions, NEW click \in {0, 1},
         StickMonitoring(p, click)
  PROVE  Inv'
<1> DEFINE g == Polled(p, click)
<1>1. Pass(p, click, 1) /\ 1 \in {0, 1} /\ g.x \in -1 .. 1
  BY PolledType DEF StickMonitoring, Inv
<1>2. cr_cur_idx' = MovedRoom(g.x) /\ cr_cur_idx' \in Rooms
  BY <1>1, MovedRoomType DEF StickMonitoring, Inv, TypeOK, MainType
<1>3. MainType'
  BY <1>1, <1>2, PassType
  DEF StickMonitoring, Pass, Inv, TypeOK, MainType
<1>4. ASSUME g.x = 0 PROVE TextType' /\ ExchangeInv'
  <2>1. Ask(<<>>) /\ cr_cur_idx' = cr_cur_idx
    BY <1>2, <1>4 DEF StickMonitoring, MovedRoom
  <2>2. requests' = requests /\ crowded' = crowded
    BY <2>1, AskNothing DEF Inv
  <2>3. TextType'
    BY <2>2, <1>1 DEF Pass, Inv, TypeOK, TextType, received, Characters
  <2>4. ExchangeInv'
    BY <1>1, <2>1, <2>2, PassType, ExchangeKept
    DEF StickMonitoring, Pass, Inv
  <2>5. QED
    BY <2>3, <2>4
<1>5. ASSUME g.x # 0 PROVE TextType' /\ ExchangeInv'
  <2>1. Ask(<<cr_cur_idx'>>)
    BY <1>5 DEF StickMonitoring
  <2>2. <<cr_cur_idx'>> \in Seq(Rooms \cup {FAN}) /\ Len(<<cr_cur_idx'>>) <= 1
    BY <1>2
  <2>3. TextType'
    BY <2>1, <2>2, <1>1, AskType
    DEF Pass, Inv, TypeOK, TextType, received, Characters
  <2>4. ExchangeInv'
    BY <2>1, <1>1, <1>2, PassType, ExchangeBegins DEF Pass
  <2>5. QED
    BY <2>3, <2>4
<1>6. ClicksInv' /\ ScreenInv'
  BY <1>1 DEF StickMonitoring, Pass, Inv, ClicksInv, ScreenInv, NoInput
<1>7. QED
  BY <1>1, <1>3, <1>4, <1>5, <1>6, PassType DEF Inv, TypeOK

LEMMA InvStickEnters ==
  ASSUME Inv, NEW p \in Positions, NEW click \in {0, 1}, StickEnters(p, click)
  PROVE  Inv'
<1> DEFINE g == Polled(p, click)
<1>1. /\ Pass(p, click, 1) /\ 1 \in {0, 1}
      /\ g.x \in -1 .. 1 /\ g.y \in -1 .. 1 /\ g.sw = 1
  BY PolledType DEF StickEnters, Inv
<1>2. cr_cur_idx' \in Rooms
  BY <1>1, MovedRoomType DEF StickEnters, Inv, TypeOK, MainType
<1>3. target_fan_speed' \in 0 .. MAX_SPEED
  BY <1>1, MovedSpeedType DEF StickEnters
<1>4. lcd' = FanScreen(cr_cur_idx', target_fan_speed') /\ e_mode' = "MANUAL"
  BY DEF StickEnters
<1>5. MainType'
  BY <1>1, <1>2, <1>3, <1>4, PassType, ClickedBounds
  DEF StickEnters, Pass, Inv, TypeOK, MainType, FanScreen
<1>6. TextType'
  BY <1>1 DEF StickEnters, Pass, Inv, TypeOK, TextType, received, Characters
<1>7. ClicksInv' /\ ScreenInv'
  BY <1>1, <1>4, ClickedBounds
  DEF StickEnters, Pass, Inv, ClicksInv, ScreenInv, NoInput
<1>8. ExchangeInv'
  BY <1>1, <1>4, PassType, ExchangeKept DEF StickEnters, Pass, Inv
<1>9. QED
  BY <1>1, <1>5, <1>6, <1>7, <1>8, PassType DEF Inv, TypeOK

LEMMA InvStickManual ==
  ASSUME Inv, NEW p \in Positions, NEW click \in {0, 1}, StickManual(p, click)
  PROVE  Inv'
<1> DEFINE g == Polled(p, click)
<1>1. /\ Pass(p, click, 1) /\ 1 \in {0, 1} /\ e_mode = "MANUAL"
      /\ g.x \in -1 .. 1 /\ g.y \in -1 .. 1 /\ g.sw \in {0, 1}
  BY PolledType DEF StickManual, Inv
<1>2. cr_cur_idx' \in Rooms
  BY <1>1, MovedRoomType DEF StickManual, Inv, TypeOK, MainType
<1>3. target_fan_speed' \in 0 .. MAX_SPEED
  BY <1>1, MovedSpeedType DEF StickManual, Inv, TypeOK, MainType
<1>4. lcd' = FanScreen(cr_cur_idx', target_fan_speed')
  BY DEF StickManual
<1>5. CASE g.sw = 1
  <2>1. e_mode' = "MONITORING"
    BY <1>5 DEF StickManual
  <2>2. Clicked(click) = 2
    BY <1>1, <1>5, ClickedBounds
  <2>3. clicks' = 0
    BY <2>2, <1>5 DEF StickManual
  <2>4. MainType'
    BY <1>1, <1>2, <1>3, <1>4, <2>1, <2>3, PassType
    DEF Pass, Inv, TypeOK, MainType, FanScreen
  <2>5. Ask(<<FAN>>)
    BY <1>5 DEF StickManual
  <2>6. <<FAN>> \in Seq(Rooms \cup {FAN}) /\ Len(<<FAN>>) <= 1
    OBVIOUS
  <2>7. TextType'
    BY <2>5, <2>6, <1>1, AskType
    DEF Pass, Inv, TypeOK, TextType, received, Characters
  <2>8. ClicksInv' /\ ScreenInv'
    BY <1>1, <2>1, <2>3 DEF Pass, ClicksInv, ScreenInv, NoInput
  <2>9. ExchangeInv'
    BY <1>1, <2>5, PassType, ExchangeBegins DEF Pass
  <2>10. QED
    BY <1>1, <2>4, <2>7, <2>8, <2>9, PassType DEF Inv, TypeOK
<1>6. CASE g.sw = 0
  <2>1. /\ clicks' = Clicked(click)
        /\ UNCHANGED <<e_mode, requests, crowded>>
    BY <1>6 DEF StickManual
  <2>2. MainType'
    BY <1>1, <1>2, <1>3, <1>4, <2>1, PassType, ClickedBounds
    DEF Pass, Inv, TypeOK, MainType, FanScreen
  <2>3. TextType'
    BY <2>1, <1>1 DEF Pass, Inv, TypeOK, TextType, received, Characters
  <2>4. ClicksInv' /\ ScreenInv'
    BY <1>1, <1>4, <2>1, ClickedBounds
    DEF Pass, Inv, ClicksInv, ScreenInv, NoInput
  <2>5. ExchangeInv'
    BY <1>1, <2>1, PassType, ExchangeKept DEF Pass, Inv
  <2>6. QED
    BY <1>1, <2>2, <2>3, <2>4, <2>5, PassType DEF Inv, TypeOK
<1>7. QED
  BY <1>1, <1>5, <1>6

LEMMA InvSecond ==
  ASSUME Inv, Second
  PROVE  Inv'
<1>1. MainType'
  BY DEF Second, Inv, TypeOK, MainType, chosen
<1>2. LineInv' /\ ClicksInv' /\ ScreenInv'
  BY DEF Second, Inv, LineInv, ClicksInv, ScreenInv, chosen, received
<1>3. ~Copying /\ ~Copying'
  BY DEF Second, Copying
<1>4. CASE Ask(<<>>)
  <2>1. requests' = requests /\ crowded' = crowded
    BY <1>4, AskNothing DEF Inv
  <2>2. TextType'
    BY <2>1 DEF Second, Inv, TypeOK, TextType, received, Characters
  <2>3. ExchangeInv'
    BY <2>1, <1>3, ExchangeKept DEF Second, Inv, chosen
  <2>4. QED
    BY <2>2, <2>3, <1>1, <1>2 DEF Inv, TypeOK
<1>5. CASE Ask(<<cr_cur_idx>>)
  <2>1. cr_cur_idx \in Rooms /\ cr_cur_idx' = cr_cur_idx
    BY DEF Second, chosen, Inv, TypeOK, MainType
  <2>2. <<cr_cur_idx>> \in Seq(Rooms \cup {FAN}) /\ Len(<<cr_cur_idx>>) <= 1
    BY <2>1
  <2>3. TextType'
    BY <2>2, <1>5, AskType
    DEF Second, Inv, TypeOK, TextType, received, Characters
  <2>4. ExchangeInv'
    BY <1>3, <1>5, <2>1, ExchangeBegins DEF Second
  <2>5. QED
    BY <2>3, <2>4, <1>1, <1>2 DEF Inv, TypeOK
<1>6. QED
  BY <1>4, <1>5 DEF Second

-----------------------------------------------------------------------------
(* The theorems. *)

LEMMA InvNext == Inv /\ [Next]_vars => Inv'
<1> SUFFICES ASSUME Inv, [Next]_vars PROVE Inv'
  OBVIOUS
<1>1. CASE Next
  BY <1>1, InvAnswer, InvMiss, InvReceive, InvHalfSecond, InvTestBtFlag, InvCopy,
     InvShow, InvPollOnly, InvStickMonitoring, InvStickEnters, InvStickManual,
     InvSecond
  DEF Next, Main
<1>2. CASE UNCHANGED vars
  <2>1. TypeOK'
    BY <1>2
    DEF Inv, TypeOK, MainType, TextType, vars, chosen, flags, received,
        Characters
  <2>2. LineInv' /\ ClicksInv' /\ ScreenInv'
    BY <1>2
    DEF Inv, LineInv, ClicksInv, ScreenInv, vars, chosen, flags, received
  <2>3. ExchangeInv'
    BY <1>2
    DEF Inv, ExchangeInv, Exchange, Waiting, Travelling, Arrived, Copying,
        Quiet, vars, chosen, received
  <2>4. QED
    BY <2>1, <2>2, <2>3 DEF Inv
<1>3. QED
  BY <1>1, <1>2

LEMMA InvCorrect == Spec => []Inv
BY InvInit, InvNext, PTL DEF Spec

\* Types; in particular, the interrupt never leaves btData.
THEOREM TypeCorrect == Spec => []TypeOK
<1>1. Inv => TypeOK
  BY DEF Inv
<1>2. QED
  BY <1>1, InvCorrect, PTL

\* One click never sends a speed.
THEOREM ClicksCorrect == Spec => []FanTakesTwoClicks
<1>1. Inv => FanTakesTwoClicks
  BY DEF Inv, ClicksInv, FanTakesTwoClicks
<1>2. QED
  BY <1>1, InvCorrect, PTL

\* What a click sends has been on the display.
THEOREM ConfirmedCorrect == Spec => ConfirmedAsShown
<1>1. ASSUME Inv, [Next]_vars, SendsFan,
             UNCHANGED <<cr_cur_idx, target_fan_speed>>
      PROVE  lcd = FanScreen(cr_cur_idx, target_fan_speed)
  <2>2. clicks' # clicks
    BY <1>1 DEF SendsFan, Inv, ClicksInv
  <2>3. clicks \in 0 .. 2 /\ clicks' < clicks
    BY <1>1 DEF SendsFan, Inv, ClicksInv
  <2>4. \A p \in Positions, click \in {0, 1} :
          Clicked(click) \in 0 .. 2 /\ Clicked(click) >= clicks
    BY <1>1, ClickedBounds
  <2>5. PICK p \in Positions, click \in {0, 1} :
          PollOnly(p, click) \/ StickEnters(p, click) \/ StickManual(p, click)
    BY <1>1, <2>2
    DEF Next, Main, vars, Answer, Miss, Receive, HalfSecond, TestBtFlag, Copy,
        Show, Second, StickMonitoring
  <2>6. clicks' # Clicked(click)
    BY <2>3, <2>4
  <2>7. StickManual(p, click)
    BY <2>5, <2>6 DEF PollOnly, StickEnters
  <2>8. QED
    BY <1>1, <2>7 DEF StickManual, Inv, ScreenInv
<1>2. QED
  BY <1>1, InvCorrect, PTL DEF Spec, ConfirmedAsShown

\* Outside a crowd a text is shown whole and under its room.
THEOREM ShownCorrect == Spec => ShownIsOwn
<1>1. ASSUME Inv, [Next]_vars, lcd' # lcd, lcd'.screen = "DATA", crowded = 0
      PROVE  lcd'.body = <<lcd'.room, lcd'.room>>
  <2>1. ASSUME NEW p \in Positions, NEW click \in {0, 1}
        PROVE  ~StickEnters(p, click) /\ ~StickManual(p, click)
    BY <1>1 DEF StickEnters, StickManual, FanScreen
  <2>2. Show
    BY <1>1, <2>1
    DEF Next, Main, vars, Answer, Miss, Receive, HalfSecond, TestBtFlag, Copy,
        Second, StickMonitoring, PollOnly
  <2>3. e_mode = "MONITORING"
        /\ lcd' = DataScreen(cr_cur_idx, Append(recvBuf, btData[2]))
    BY <1>1, <2>2 DEF Show
  <2>4. QED
    BY <1>1, <2>2, <2>3, ShowOwn DEF DataScreen
<1>2. QED
  BY <1>1, InvCorrect, PTL DEF Spec, ShownIsOwn

=============================================================================
