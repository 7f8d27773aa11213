------------------------------ MODULE EspDriver ------------------------------
(***************************************************************************)
(* The ESP8266 driver of the Wi-Fi node (src/STM32_WiFi/Core/Src/esp.c)    *)
(* and its callers in main.c: the test for +IPD frames and the reply to a  *)
(* message, the status check with reconnection, the sensor message.        *)
(*                                                                         *)
(* A command wipes the receive buffer, goes to the module and polls the    *)
(* buffer for ERROR or OK until a time limit.  The interrupt appends what  *)
(* the module sends, answers and frames alike, at any moment.              *)
(*                                                                         *)
(* External, modelled from how the code uses them: the module (one command *)
(* at a time; what arrives meanwhile is dropped; after the OK of CIPSEND   *)
(* the next characters are data) and cms_server (a connection must log in  *)
(* with its first message; it is refused while the name's old session      *)
(* lasts, which clears that session; it relays any text).                  *)
(*                                                                         *)
(* What arrives is a sequence of tokens, each a text that ends in '\n'     *)
(* except a frame's head "+IPD,<n>:".  The driver looks for OK, ERROR and  *)
(* STATUS:3 anywhere in the buffer, the texts of messages included.        *)
(***************************************************************************)
EXTENDS Integers, Sequences

CONSTANTS
  MaxFaults, \* bound: delays past a time limit or a new job, and links lost
  MaxFrames, \* bound: messages sent to the node
  Texts      \* what the text of a message may hold of the Words

ASSUME BoundsAssumption == MaxFaults \in Nat /\ MaxFrames \in Nat

\* What the driver looks for in the answers to its commands.
Words == {"OK", "ERROR", "STATUS:3"}
ASSUME TextsAssumption == Texts \subseteq SUBSET Words

VARIABLES
  phase,    \* main: "loop", "wipe" (a frame is copied), "send", "wait"
  cmd,      \* the command to send, or waited for
  payload,  \* what the CIPSEND is for
  boot,     \* main is still in AiotClient_Init
  cb,       \* cb_data, as tokens
  wire,     \* tokens on their way from the module
  module,   \* the command that the module works on, or "none"
  data,     \* what a CIPSEND has announced, the "rest" of it, or "no"
  link,     \* the TCP connection, "up" or "down"
  srv,      \* the server's end: "none", "fresh", "in" or "refused"
  acceptor, \* "held" once it reads from a lost connection, for ever
  oldsession, \* the server still has the session of a lost connection
  sent, handled, \* the last message sent, and handled (history)
  gaveUp,   \* a command has ended without its answer, and that has not been
            \* made good since (history)
  faults

main == <<phase, cmd, payload, boot>>
module_state == <<module, data, link>>
server == <<srv, acceptor, oldsession, sent>>
history == <<handled, gaveUp, faults>>
vars == <<main, cb, wire, module_state, server, history>>

Payloads == {"LOGIN", "SENSOR", "REPLY"}
Commands == {"CWMODE", "CWJAP", "CIFSR", "CIPSTART", "CIPSEND", "CIPSTATUS"}
              \cup Payloads

Reply(kind, c) == [kind |-> kind, cmd |-> c, frame |-> 0, text |-> {}]
FrameHead(f) == [kind |-> "+IPD", cmd |-> "none", frame |-> f, text |-> {}]
FrameText(f, text) == [kind |-> "[", cmd |-> "none", frame |-> f, text |-> text]

\* strstr and strchr find a word in a token, in a sequence of tokens, and where.
Finds(word, t) == t.kind = word \/ word \in t.text
Has(word, s) == \E k \in 1 .. Len(s) : Finds(word, s[k])
First(word, s) ==
  s[CHOOSE k \in 1 .. Len(s) :
      Finds(word, s[k]) /\ \A j \in 1 .. k - 1 : ~Finds(word, s[j])]

-----------------------------------------------------------------------------
(* esp_at_command. *)

\* The module gets the characters of c.  One that waits for data takes any
\* characters as such, and fewer than announced leave it waiting for the rest.
\* One that works drops them, as it drops a text that is no command.
Takes(c) ==
  CASE module = "none" /\ data = c -> module' = c /\ data' = "no"
    [] module = "none" /\ data \notin {c, "no"} ->
         \/ module' = "GARBAGE" /\ data' = "no"
         \/ data # "rest" /\ data' = "rest" /\ UNCHANGED module
    [] module = "none" /\ data = "no" /\ c \notin Payloads ->
         /\ module' = c
         /\ data' = IF c = "CIPSEND" THEN payload ELSE "no"
    [] OTHER -> UNCHANGED <<module, data>>

\* An answer is under way.
Answering ==
  \/ module # "none"
  \/ \E k \in 1 .. Len(wire) : wire[k].kind \in {"OK", "ERROR"}

\* Nothing is left of the commands that ended without their answer: no answer,
\* no data that the module waits for, no connection that has still to log in.
Settled == ~Answering /\ data = "no" /\ srv # "fresh"

\* Mutant: the buffer is not wiped.
TransmitUnwiped ==
  /\ phase = "send"
  /\ phase' = "wait"
  /\ Takes(cmd)
  /\ gaveUp' = IF Settled THEN "no" ELSE gaveUp
  /\ UNCHANGED <<cmd, payload, boot, cb, wire, link, server, handled, faults>>

\* Wipe, then transmit.
Transmit ==
  /\ phase = "send"
  /\ phase' = "wait"
  /\ cb' = <<>>
  /\ Takes(cmd)
  /\ gaveUp' = IF Settled THEN "no" ELSE gaveUp
  /\ UNCHANGED <<cmd, payload, boot, wire, link, server, handled, faults>>

\* The caller goes on with command c, for payload p.
Do(c, p) == phase' = "send" /\ cmd' = c /\ payload' = p /\ UNCHANGED boot

\* esp_send_data, and the return to the main loop.
SendData(p) == Do("CIPSEND", p)
Done ==
  IF boot = "yes" /\ cmd # "CIPSTATUS"
  THEN Do("CIPSTATUS", payload)
  ELSE phase' = "loop" /\ boot' = "no" /\ UNCHANGED <<cmd, payload>>

\* Mutant: the connection is made and the login forgotten.
ReturnsNoLogin(ok, up) ==
  CASE cmd = "CWMODE"   -> Do("CWJAP", payload)
    [] cmd = "CWJAP"    -> Do("CIFSR", payload)
    [] cmd = "CIFSR"    -> Do("CIPSTART", payload)
    [] cmd = "CIPSEND"  -> IF ok THEN Do(payload, payload) ELSE Done
    [] cmd = "CIPSTATUS" /\ boot = "no" /\ ~up -> Do("CIPSTART", payload)
    [] OTHER -> Done

\* Mutant: the status is judged by the return code.
ReturnsByCode(ok, up) ==
  CASE cmd = "CWMODE"   -> Do("CWJAP", payload)
    [] cmd = "CWJAP"    -> Do("CIFSR", payload)
    [] cmd = "CIFSR"    -> Do("CIPSTART", payload)
    [] cmd = "CIPSTART" -> SendData("LOGIN")
    [] cmd = "CIPSEND"  -> IF ok THEN Do(payload, payload) ELSE Done
    [] cmd = "CIPSTATUS" /\ boot = "no" /\ ~ok -> Do("CIPSTART", payload)
    [] OTHER -> Done

\* What the callers do with the result: ap_conn_func, request_ip_addr,
\* esp_client_conn (whatever CIPSTART returns), esp_send_data, and the loop's
\* esp_get_status, which looks for STATUS:3 in the response.
Returns(ok, up) ==
  CASE cmd = "CWMODE"   -> Do("CWJAP", payload)
    [] cmd = "CWJAP"    -> Do("CIFSR", payload)
    [] cmd = "CIFSR"    -> Do("CIPSTART", payload)
    [] cmd = "CIPSTART" -> SendData("LOGIN")
    [] cmd = "CIPSEND"  -> IF ok THEN Do(payload, payload) ELSE Done
    [] cmd = "CIPSTATUS" /\ boot = "no" /\ ~up -> Do("CIPSTART", payload)
    [] OTHER -> Done

\* The text of a message may end a command: its answer, if any, is yet to come.
EndedBy(token) == gaveUp' = IF token.frame # 0 THEN "yes" ELSE gaveUp

PollOk ==
  /\ phase = "wait" /\ ~Has("ERROR", cb) /\ Has("OK", cb)
  /\ Returns(TRUE, Has("STATUS:3", cb))
  /\ EndedBy(First("OK", cb))
  /\ UNCHANGED <<cb, wire, module_state, server, handled, faults>>

PollError ==
  /\ phase = "wait" /\ Has("ERROR", cb)
  /\ Returns(FALSE, FALSE)
  /\ EndedBy(First("ERROR", cb))
  /\ UNCHANGED <<cb, wire, module_state, server, handled, faults>>

\* The program goes on; it counts as a fault while an answer may still come.
GoOn ==
  IF Answering
  THEN faults < MaxFaults /\ faults' = faults + 1
  ELSE UNCHANGED faults

\* The time limit.
GiveUp ==
  /\ phase = "wait" /\ ~Has("ERROR", cb) /\ ~Has("OK", cb)
  /\ GoOn
  /\ gaveUp' = "yes"
  /\ Returns(FALSE, FALSE)
  /\ UNCHANGED <<cb, wire, module_state, server, handled>>

\* HAL_UART_RxCpltCallback of USART6, for the characters of one token.
Receive ==
  /\ wire # <<>>
  /\ cb' = Append(cb, Head(wire))
  /\ wire' = Tail(wire)
  /\ UNCHANGED <<main, module_state, server, history>>

-----------------------------------------------------------------------------
(* The main loop. *)

\* Mutant: any buffer with a frame's head in it is taken for a message.
ReadyAtHead == Has("+IPD", cb)

\* A frame has begun and the last character is a line end.
Ready == Has("+IPD", cb) /\ cb[Len(cb)].kind # "+IPD"

\* Mutant: the length of the buffer is taken for the message.
HandleCopyLength ==
  /\ phase = "loop" /\ Ready
  /\ handled' = Len(cb)
  /\ phase' = "wipe"
  /\ UNCHANGED <<cmd, payload, boot, cb, wire, module_state, server, gaveUp,
                 faults>>

\* strcpy from the first '['.
HandleCopy ==
  /\ phase = "loop" /\ Ready
  /\ handled' = First("[", cb).frame
  /\ phase' = "wipe"
  /\ UNCHANGED <<cmd, payload, boot, cb, wire, module_state, server, gaveUp,
                 faults>>

\* esp_event replies to FAN, SENSOR and LED messages and to no others.
Replies ==
  \/ SendData("REPLY")
  \/ phase' = "loop" /\ UNCHANGED <<cmd, payload, boot>>

\* Mutant: the buffer is not cleared.
HandleKeeps ==
  /\ phase = "wipe"
  /\ Replies
  /\ UNCHANGED <<cb, wire, module_state, server, history>>

\* memset and length = 0, whatever has arrived since; then esp_event.
HandleWipe ==
  /\ phase = "wipe"
  /\ cb' = <<>>
  /\ Replies
  /\ UNCHANGED <<wire, module_state, server, history>>

\* Every tenth second.  A frame that is complete since the loop looked is lost.
StatusDue ==
  /\ phase = "loop"
  /\ GoOn
  /\ Do("CIPSTATUS", payload)
  /\ UNCHANGED <<cb, wire, module_state, server, handled, gaveUp>>

\* Every fifth second, if the DHT11 answers.
SampleDue ==
  /\ phase = "loop"
  /\ GoOn
  /\ SendData("SENSOR")
  /\ UNCHANGED <<cb, wire, module_state, server, handled, gaveUp>>

-----------------------------------------------------------------------------
(* The module and the server. *)

\* What the module may have taken as data.
Outgoing == Payloads \cup {"GARBAGE"}

Sends(tokens) == wire' = wire \o tokens

\* A message reaches the server; p is what the node sent it for.
Reaches(p) ==
  IF srv = "fresh"
  THEN /\ srv' = IF p = "LOGIN" /\ oldsession = "no" THEN "in" ELSE "refused"
       /\ oldsession' = IF p = "LOGIN" THEN "no" ELSE oldsession
  ELSE UNCHANGED <<srv, oldsession>>

\* An attempt to connect succeeds unless a fault is spent on it; but nobody
\* accepts the connection while the acceptor waits for another.
Connect ==
  /\ module = "CIPSTART" /\ link = "down"
  /\ link' = "up"
  /\ srv' = IF acceptor = "free" THEN "fresh" ELSE "none"
  /\ Sends(<<Reply("OK", module)>>)
  /\ module' = "none"
  /\ UNCHANGED <<main, cb, data, acceptor, oldsession, sent, history>>

Refuse ==
  /\ \/ module = "CIPSTART" /\ link = "up" /\ UNCHANGED faults
     \/ module = "CIPSTART" /\ faults < MaxFaults /\ faults' = faults + 1
     \/ module \in Outgoing \cup {"CIPSEND"} /\ link = "down"
        /\ UNCHANGED faults
  /\ Sends(<<Reply("ERROR", module)>>)
  /\ module' = "none" /\ data' = "no"
  /\ UNCHANGED <<main, cb, link, server, handled, gaveUp>>

Prompt ==
  /\ module = "CIPSEND" /\ link = "up"
  /\ Sends(<<Reply("OK", module)>>)
  /\ module' = "none"
  /\ UNCHANGED <<main, cb, data, link, server, history>>

Deliver ==
  /\ module \in Outgoing /\ link = "up"
  /\ Reaches(module)
  /\ Sends(<<Reply("OK", module)>>)
  /\ module' = "none"
  /\ UNCHANGED <<main, cb, data, link, acceptor, sent, history>>

Report ==
  /\ module \in {"CIPSTATUS", "CWMODE", "CWJAP", "CIFSR"}
  /\ Sends(IF module = "CIPSTATUS" /\ link = "up"
           THEN <<Reply("STATUS:3", module), Reply("OK", module)>>
           ELSE <<Reply("OK", module)>>)
  /\ module' = "none"
  /\ UNCHANGED <<main, cb, data, link, server, history>>

Module == Connect \/ Refuse \/ Prompt \/ Deliver \/ Report

\* A message for the node, its refusal included.
ServerSends ==
  /\ srv \in {"in", "refused"} /\ sent < MaxFrames
  /\ sent' = sent + 1
  /\ \E text \in Texts : Sends(<<FrameHead(sent'), FrameText(sent', text)>>)
  /\ UNCHANGED <<main, cb, module_state, srv, acceptor, oldsession, history>>

\* The server shuts a refused connection down and the module closes it.
ServerCloses ==
  /\ srv = "refused"
  /\ srv' = "none" /\ link' = "down"
  /\ data' = IF module = "none" THEN "no" ELSE data
  /\ UNCHANGED <<main, cb, wire, module, acceptor, oldsession, sent, history>>

\* The link is lost; the server may not notice it: then a session lasts for a
\* while, and an acceptor that still waits for the login waits for ever.
LinkLost ==
  /\ link = "up" /\ faults < MaxFaults /\ faults' = faults + 1
  /\ srv' = "none" /\ link' = "down"
  /\ data' = IF module = "none" THEN "no" ELSE data
  /\ oldsession' = IF srv = "in" THEN "yes" ELSE oldsession
  /\ acceptor' \in IF srv = "fresh" THEN {"free", "held"} ELSE {acceptor}
  /\ UNCHANGED <<main, cb, wire, module, sent, handled, gaveUp>>

\* The server notices the end of the old session.
OldSessionEnds ==
  /\ oldsession = "yes" /\ oldsession' = "no"
  /\ UNCHANGED <<main, cb, wire, module_state, srv, acceptor, sent, history>>

Init ==
  /\ phase = "send" /\ cmd = "CWMODE" /\ payload = "LOGIN" /\ boot = "yes"
  /\ cb = <<>> /\ wire = <<>>
  /\ module = "none" /\ data = "no" /\ link = "down"
  /\ srv = "none" /\ acceptor = "free" /\ oldsession = "no"
  /\ sent = 0 /\ handled = 0 /\ gaveUp = "no" /\ faults = 0

Command == Transmit \/ PollOk \/ PollError \/ GiveUp
Handle == HandleCopy \/ HandleWipe
Next ==
  \/ Command \/ Handle \/ StatusDue \/ SampleDue
  \/ Receive \/ Module \/ ServerSends \/ ServerCloses \/ LinkLost
  \/ OldSessionEnds

Spec == Init /\ [][Next]_vars

\* The interrupt, the module and the server go on, polling ends at the time
\* limit, and the loop finds time for the status check again and again: a
\* handled message keeps it from it for a while only.
LiveSpec ==
  /\ Spec
  /\ WF_vars(Receive) /\ WF_vars(Module) /\ WF_vars(ServerCloses)
  /\ WF_vars(Transmit) /\ WF_vars(PollOk \/ PollError) /\ WF_vars(Handle)
  /\ WF_vars(GiveUp) /\ SF_vars(StatusDue)

-----------------------------------------------------------------------------
(* Properties. *)

Tokens ==
  {Reply(kind, c) : kind \in Words, c \in Commands \cup {"GARBAGE"}}
    \cup {FrameHead(f) : f \in 1 .. sent}
    \cup {FrameText(f, text) : f \in 1 .. sent, text \in Texts}

\* Every variable has its type; frames are only of messages that were sent.
TypeOK ==
  /\ phase \in {"loop", "wipe", "send", "wait"}
  /\ cmd \in Commands /\ payload \in Payloads /\ boot \in {"yes", "no"}
  /\ cb \in Seq(Tokens) /\ wire \in Seq(Tokens)
  /\ module \in Commands \cup {"none", "GARBAGE"}
  /\ data \in Payloads \cup {"no", "rest"}
  /\ link \in {"up", "down"}
  /\ srv \in {"none", "fresh", "in", "refused"}
  /\ acceptor \in {"free", "held"} /\ oldsession \in {"yes", "no"}
  /\ sent \in 0 .. MaxFrames /\ handled \in 0 .. sent
  /\ gaveUp \in {"yes", "no"} /\ faults \in 0 .. MaxFaults

\* Whenever the loop takes the buffer for a message there is a '[' in it:
\* strchr does not return NULL to strcpy, however frames were cut by wipes.
NoNullCopy == phase = "loop" /\ Ready => Has("[", cb)

\* A message is handled at most once, and in order, although several may
\* be in the buffer at a time and parts of them get lost.
HandledOnce == [][HandleCopy => handled' > handled]_vars

\* The answer that ends a command is never another command's, whatever else has
\* arrived in between: only the text of a message can stand in for its own.  It
\* may be another's once a command has ended without its answer (at the time
\* limit, or by a text), until one is sent that finds nothing left of it.
AnswersMatch ==
  [][/\ PollOk /\ gaveUp = "no" =>
          First("OK", cb).cmd = cmd \/ First("OK", cb).frame # 0
     /\ PollError /\ gaveUp = "no" =>
          First("ERROR", cb).cmd = cmd \/ First("ERROR", cb).frame # 0]_vars

\* The server only refuses a connection because of an old session, or after a
\* command has ended without its answer: the login is not overtaken by other
\* messages.
LoginFirst ==
  [][srv = "fresh" /\ srv' = "refused"
       => oldsession = "yes" \/ gaveUp = "yes"]_vars

\* The reconnection logic: whatever was lost, the node is logged in again, if
\* its DHT11 answers again and again (a login that got lost is found missing by
\* the server only, at the next sensor message) and the acceptor is not left
\* waiting for a connection that was lost before its login.
LoggedInAgain ==
  []<><<SampleDue>>_vars =>
    (srv # "in" ~> srv = "in" \/ acceptor = "held")

==============================================================================
