--------------------------- MODULE EspDriverProofs ---------------------------
(***************************************************************************)
(* Proofs about EspDriver, for any number of messages and faults.          *)
(*                                                                         *)
(* One inductive invariant, Inv, has a part for each property: frames are  *)
(* cut at the front only (FramesWhole), their numbers grow along buffer    *)
(* and wire (FramesOrdered), one command is under way at a time unless one *)
(* has ended without its answer (AnswersOwn), and nothing gets between a   *)
(* connection and its login (LoginNext).  A command that finds the module  *)
(* settled makes the last two true again.                                  *)
(***************************************************************************)
EXTENDS EspDriver, FiniteSetTheorems, TLAPS

Final(t) == t.kind \in {"OK", "ERROR"}
Body(t) == t.kind = "["

\* A head is followed by its body, in the buffer or on the wire.
FramesWhole ==
  /\ \A k \in 1 .. Len(cb) - 1 : cb[k].kind = "+IPD" => Body(cb[k + 1])
  /\ cb # <<>> /\ cb[Len(cb)].kind = "+IPD" => wire # <<>> /\ Body(wire[1])
  /\ \A k \in 1 .. Len(wire) :
       wire[k].kind = "+IPD" => k < Len(wire) /\ Body(wire[k + 1])

\* Bodies grow along buffer and wire, and none that waits has been handled.
FramesOrdered ==
  /\ \A k \in 1 .. Len(wire) : Body(wire[k]) => wire[k].frame > handled
  /\ \A j, k \in 1 .. Len(wire) :
       j < k /\ Body(wire[j]) /\ Body(wire[k])
         => wire[j].frame < wire[k].frame
  /\ \A j \in 1 .. Len(cb), k \in 1 .. Len(wire) :
       Body(cb[j]) /\ Body(wire[k]) => cb[j].frame < wire[k].frame
  /\ phase # "wipe" =>
       \A k \in 1 .. Len(cb) : Body(cb[k]) => cb[k].frame > handled

NoFinal(s) == \A k \in 1 .. Len(s) : ~ Final(s[k])

\* At most one answer is expected, under way or received.
OneAnswer ==
  /\ phase # "wait" => module = "none" /\ NoFinal(wire)
  /\ module # "none" => module = cmd /\ NoFinal(cb) /\ NoFinal(wire)
  /\ \A k \in 1 .. Len(wire) : Final(wire[k]) => wire[k].cmd = cmd
  /\ \A j, k \in 1 .. Len(wire) : Final(wire[j]) /\ Final(wire[k]) => j = k
  /\ phase = "wait" =>
       /\ \A k \in 1 .. Len(cb) : Final(cb[k]) => cb[k].cmd = cmd
       /\ NoFinal(cb) \/ NoFinal(wire)

NoError(s) == \A k \in 1 .. Len(s) : s[k].kind # "ERROR"

\* Data are announced only for the message that is sent next.
DataNext ==
  data # "no" =>
    /\ data = payload
    /\ \/ phase = "send" /\ cmd = payload
       \/ phase = "wait" /\ cmd = "CIPSEND" /\ NoError(cb) /\ NoError(wire)

AnswersOwn == OneAnswer /\ DataNext

\* The steps from a connection to its login.
LoginNext ==
  srv = "fresh" =>
    /\ link = "up"
    /\ \/ phase = "wait" /\ cmd = "CIPSTART" /\ module = "none"
       \/ phase = "send" /\ cmd = "CIPSEND" /\ payload = "LOGIN"
       \/ phase = "wait" /\ cmd = "CIPSEND" /\ payload = "LOGIN"
          /\ data = "LOGIN"
       \/ phase = "send" /\ cmd = "LOGIN" /\ payload = "LOGIN"
          /\ data = "LOGIN"
       \/ phase = "wait" /\ cmd = "LOGIN" /\ module = "LOGIN"

Frames == FramesWhole /\ FramesOrdered
Own == gaveUp = "no" => AnswersOwn /\ LoginNext

Inv == TypeOK /\ Frames /\ Own

-----------------------------------------------------------------------------
(* Sequences, and the first token of a kind. *)

\* A set of numbers has a least one: of the intervals 1 .. t, one has no other
\* inside.
LEMMA Least ==
  ASSUME NEW T \in SUBSET Nat, T # {}
  PROVE  \E x \in T : \A y \in T : x <= y
<1> DEFINE U == {1 .. t : t \in T}
<1>1. ASSUME NEW t \in T PROVE 1 .. t \in FiniteSubsetsOf(Nat)
  BY FS_Interval DEF FiniteSubsetsOf
<1>2. U # {} /\ U \subseteq FiniteSubsetsOf(Nat)
  BY <1>1
<1>3. PICK m \in U : \A y \in U : ~ (<<y, m>> \in StrictSubsetOrdering(Nat))
  BY <1>2, FS_StrictSubsetOrderingWellFounded, WFMin
<1>4. PICK x \in T : m = 1 .. x
  OBVIOUS
<1>5. ASSUME NEW y \in T, ~ (x <= y) PROVE FALSE
  <2>1. 1 .. y \subseteq 1 .. x
    BY <1>5
  <2>2. x \in 1 .. x /\ x \notin 1 .. y
    BY <1>5
  <2>3. 1 .. y \in SUBSET Nat /\ 1 .. x \in SUBSET Nat
    OBVIOUS
  <2>4. <<1 .. y, 1 .. x>> \in StrictSubsetOrdering(Nat)
    BY <2>1, <2>2, <2>3, Zenon DEF StrictSubsetOrdering
  <2>5. 1 .. y \in U
    OBVIOUS
  <2>6. QED
    BY <1>3, <1>4, <2>4, <2>5, Zenon
<1>6. QED
  BY <1>5

LEMMA FirstIs ==
  ASSUME NEW S, NEW s \in Seq(S), NEW word, Has(word, s)
  PROVE  \E k \in 1 .. Len(s) : /\ First(word, s) = s[k]
                                /\ Finds(word, s[k])
<1> DEFINE T == {k \in 1 .. Len(s) : Finds(word, s[k])}
<1>1. PICK x \in T : \A y \in T : x <= y
  <2>1. T \in SUBSET Nat /\ T # {}
    BY DEF Has
  <2>2. QED
    BY <2>1, Least, Zenon
<1>2. /\ x \in 1 .. Len(s) /\ Finds(word, s[x])
      /\ \A j \in 1 .. x - 1 : ~ Finds(word, s[j])
  BY <1>1
<1>3. QED
  BY <1>2, Zenon DEF First

LEMMA TailFacts ==
  ASSUME NEW S, NEW s \in Seq(S), s # <<>>
  PROVE  /\ Tail(s) \in Seq(S) /\ Len(Tail(s)) = Len(s) - 1
         /\ Len(s) \in Nat \ {0} /\ Head(s) \in S /\ Head(s) = s[1]
         /\ \A k \in 1 .. Len(s) - 1 : Tail(s)[k] = s[k + 1]
OBVIOUS

LEMMA AppendFacts ==
  ASSUME NEW S, NEW s \in Seq(S), NEW t \in S
  PROVE  /\ Append(s, t) \in Seq(S) /\ Len(Append(s, t)) = Len(s) + 1
         /\ \A k \in 1 .. Len(s) : Append(s, t)[k] = s[k]
         /\ Append(s, t)[Len(s) + 1] = t
OBVIOUS

-----------------------------------------------------------------------------
(* What the helpers do. *)

LEMMA TokenKinds ==
  ASSUME NEW t \in Tokens
  PROVE  /\ Final(t) => ~ Body(t) /\ t.kind # "+IPD"
         /\ Body(t) => t.kind # "+IPD" /\ t.frame \in 1 .. sent
BY DEF Tokens, Words, Reply, FrameHead, FrameText, Final, Body

\* Heads and bodies are found where they are, and so is a reply by its word:
\* only the text of a message holds words of its own.
LEMMA FoundIn ==
  ASSUME NEW t \in Tokens, NEW word, Finds(word, t)
  PROVE  word \notin Words \/ t.frame = 0 => t.kind = word
<1>1. CASE t.text = {}
  BY <1>1 DEF Finds
<1>2. CASE t.text # {}
  <2>1. PICK f \in 1 .. sent, text \in Texts : t = FrameText(f, text)
    BY <1>2 DEF Tokens, Reply, FrameHead
  <2>2. t.text \subseteq Words /\ t.frame # 0
    BY <2>1, TextsAssumption DEF FrameText
  <2>3. QED
    BY <2>2 DEF Finds
<1>3. QED
  BY <1>1, <1>2

LEMMA ReplyFacts ==
  ASSUME NEW kind \in Words, NEW c \in Commands \cup {"GARBAGE"}
  PROVE  /\ Reply(kind, c) \in Tokens
         /\ Reply(kind, c).kind = kind /\ Reply(kind, c).cmd = c
         /\ ~ Body(Reply(kind, c)) /\ Reply(kind, c).kind # "+IPD"
<1>1. Reply(kind, c) \in Tokens
  BY DEF Tokens
<1>2. QED
  BY <1>1 DEF Reply, Words, Body

LEMMA ReturnsFacts ==
  ASSUME TypeOK, phase = "wait", NEW ok \in BOOLEAN, NEW up \in BOOLEAN,
         Returns(ok, up)
  PROVE  /\ phase' \in {"loop", "send"}
         /\ cmd' \in Commands /\ payload' \in Payloads
         /\ boot' \in {"yes", "no"}
         /\ cmd = "CIPSEND" /\ ok = TRUE
              => phase' = "send" /\ cmd' = payload /\ payload' = payload
         /\ cmd = "CIPSTART"
              => phase' = "send" /\ cmd' = "CIPSEND" /\ payload' = "LOGIN"
BY DEF TypeOK, Returns, Do, SendData, Done, Commands, Payloads

LEMMA TakesFacts ==
  ASSUME TypeOK, Takes(cmd)
  PROVE  /\ module' \in Commands \cup {"none", "GARBAGE"}
         /\ data' \in Payloads \cup {"no", "rest"}
BY DEF TypeOK, Takes, Commands, Payloads

LEMMA DoFacts ==
  ASSUME TypeOK, NEW c \in Commands, NEW p \in Payloads, Do(c, p)
  PROVE  /\ phase' = "send" /\ cmd' = c /\ payload' = p
         /\ boot' = boot
BY DEF Do

LEMMA GoOnFacts ==
  ASSUME TypeOK, GoOn
  PROVE  faults' \in 0 .. MaxFaults
BY BoundsAssumption DEF TypeOK, GoOn

LEMMA RepliesFacts ==
  ASSUME TypeOK, Replies
  PROVE  /\ phase' \in {"loop", "send"} /\ boot' = boot
         /\ cmd' \in Commands /\ payload' \in Payloads
         /\ phase' = "send" => cmd' = "CIPSEND"
         /\ phase' = "loop" => cmd' = cmd /\ payload' = payload
BY DEF TypeOK, Replies, SendData, Do, Commands, Payloads

LEMMA ReachesFacts ==
  ASSUME TypeOK, NEW p, Reaches(p)
  PROVE  /\ srv' \in {"none", "fresh", "in", "refused"} /\ srv' # "fresh"
         /\ oldsession' \in {"yes", "no"}
BY DEF TypeOK, Reaches

-----------------------------------------------------------------------------
(* Types. *)

LEMMA TokensSame ==
  ASSUME UNCHANGED sent
  PROVE  Tokens' = Tokens
BY DEF Tokens

LEMMA TokensGrow ==
  ASSUME TypeOK, sent' = sent + 1
  PROVE  /\ Tokens \subseteq Tokens'
         /\ FrameHead(sent') \in Tokens'
         /\ \A text \in Texts : FrameText(sent', text) \in Tokens'
<1>1. sent \in Nat /\ 1 .. sent \subseteq 1 .. sent' /\ sent' \in 1 .. sent'
  BY DEF TypeOK
<1>2. ASSUME NEW t \in Tokens PROVE t \in Tokens'
  <2>1. CASE t \in {FrameHead(f) : f \in 1 .. sent}
    BY <1>1, <2>1 DEF Tokens
  <2>2. CASE t \in {FrameText(f, text) : f \in 1 .. sent, text \in Texts}
    <3>1. PICK f \in 1 .. sent, text \in Texts : t = FrameText(f, text)
      BY <2>2
    <3>2. f \in 1 .. sent'
      BY <1>1
    <3>3. QED
      BY <3>1, <3>2 DEF Tokens
  <2>3. CASE t \in {Reply(kind, c) : kind \in Words,
                                    c \in Commands \cup {"GARBAGE"}}
    BY <2>3 DEF Tokens
  <2>4. QED
    BY <2>1, <2>2, <2>3 DEF Tokens
<1>3. FrameHead(sent') \in Tokens'
  BY <1>1 DEF Tokens
<1>4. ASSUME NEW text \in Texts PROVE FrameText(sent', text) \in Tokens'
  BY <1>1 DEF Tokens
<1>5. QED
  BY <1>2, <1>3, <1>4

LEMMA TypeCommand ==
  ASSUME TypeOK, Command
  PROVE  TypeOK'
<1> USE TokensSame
<1>1. CASE Transmit
  <2>1. /\ UNCHANGED <<cmd, payload, boot, wire, link, srv, acceptor,
                       oldsession, sent, handled, faults>>
        /\ gaveUp' \in {gaveUp, "no"}
    BY <1>1 DEF Transmit, server
  <2>2. cb' = <<>> /\ phase' = "wait" /\ Takes(cmd)
    BY <1>1 DEF Transmit
  <2>3. <<>> \in Seq(Tokens)
    OBVIOUS
  <2>4. QED
    BY <2>1, <2>2, <2>3, TakesFacts DEF TypeOK
<1>2. CASE PollOk \/ PollError
  <2>1. /\ UNCHANGED <<cb, wire, module, data, link, srv, acceptor, oldsession,
                       sent, handled, faults>>
        /\ gaveUp' \in {gaveUp, "yes"}
    BY <1>2 DEF PollOk, PollError, EndedBy, module_state, server
  <2>2. /\ phase' \in {"loop", "send"} /\ cmd' \in Commands
        /\ payload' \in Payloads /\ boot' \in {"yes", "no"}
    BY <1>2, ReturnsFacts DEF PollOk, PollError, Has
  <2>3. QED
    BY <2>1, <2>2 DEF TypeOK
<1>3. CASE GiveUp
  <2>1. UNCHANGED <<cb, wire, module, data, link, srv, acceptor, oldsession,
                    sent, handled>>
    BY <1>3 DEF GiveUp, module_state, server
  <2>2. /\ phase' \in {"loop", "send"} /\ cmd' \in Commands
        /\ payload' \in Payloads /\ boot' \in {"yes", "no"}
    BY <1>3, ReturnsFacts DEF GiveUp
  <2>3. faults' \in 0 .. MaxFaults /\ gaveUp' = "yes"
    BY <1>3, GoOnFacts DEF GiveUp
  <2>4. QED
    BY <2>1, <2>2, <2>3 DEF TypeOK
<1>4. QED
  BY <1>1, <1>2, <1>3 DEF Command

LEMMA ReadyHasBody ==
  ASSUME TypeOK, FramesWhole, Ready
  PROVE  Has("[", cb)
<1>1. cb \in Seq(Tokens) /\ Len(cb) \in Nat
  BY DEF TypeOK
<1>2. PICK k \in 1 .. Len(cb) : cb[k].kind = "+IPD"
  <2>1. PICK k \in 1 .. Len(cb) : Finds("+IPD", cb[k])
    BY DEF Ready, Has
  <2>2. cb[k] \in Tokens
    BY <1>1, <2>1
  <2>3. QED
    BY <2>1, <2>2, FoundIn DEF Words
<1>3. k \in 1 .. Len(cb) - 1
  BY <1>1, <1>2 DEF Ready
<1>4. Body(cb[k + 1]) /\ k + 1 \in 1 .. Len(cb)
  BY <1>1, <1>2, <1>3 DEF FramesWhole
<1>5. QED
  BY <1>4 DEF Has, Finds, Body

\* What is handled is the body of a frame in the buffer.
LEMMA Handled ==
  ASSUME TypeOK, FramesWhole, HandleCopy
  PROVE  \E k \in 1 .. Len(cb) : /\ Body(cb[k]) /\ cb[k] \in Tokens
                                 /\ handled' = cb[k].frame
                                 /\ handled' \in 1 .. sent
<1>1. cb \in Seq(Tokens)
  BY DEF TypeOK
<1>2. Has("[", cb)
  BY ReadyHasBody DEF HandleCopy
<1>3. PICK k \in 1 .. Len(cb) : First("[", cb) = cb[k] /\ Finds("[", cb[k])
  BY <1>1, <1>2, FirstIs, Zenon
<1>4. handled' = First("[", cb).frame
  BY DEF HandleCopy
<1>5. cb[k] \in Tokens /\ Body(cb[k])
  BY <1>1, <1>3, FoundIn DEF Body, Words
<1>6. cb[k].frame \in 1 .. sent
  BY <1>5, TokenKinds
<1>7. QED
  BY <1>3, <1>4, <1>5, <1>6

LEMMA TypeLoop ==
  ASSUME TypeOK, FramesWhole, Handle \/ StatusDue \/ SampleDue
  PROVE  TypeOK'
<1> USE TokensSame
<1>1. CASE HandleCopy
  <2>1. UNCHANGED <<cmd, payload, boot, cb, wire, module, data, link, srv,
                    acceptor, oldsession, sent, gaveUp, faults>>
    BY <1>1 DEF HandleCopy, module_state, server
  <2>2. handled' \in 0 .. sent /\ phase' = "wipe"
    BY <1>1, Handled DEF HandleCopy, TypeOK
  <2>3. QED
    BY <2>1, <2>2 DEF TypeOK
<1>2. CASE HandleWipe
  <2>1. UNCHANGED <<wire, module, data, link, srv, acceptor, oldsession, sent,
                    handled, gaveUp, faults>>
    BY <1>2 DEF HandleWipe, module_state, server, history
  <2>2. cb' = <<>> /\ <<>> \in Seq(Tokens)
    BY <1>2 DEF HandleWipe
  <2>3. QED
    BY <1>2, <2>1, <2>2, RepliesFacts DEF TypeOK, HandleWipe
<1>3. CASE StatusDue \/ SampleDue
  <2>1. UNCHANGED <<cb, wire, module, data, link, srv, acceptor, oldsession,
                    sent, handled, gaveUp>>
    BY <1>3 DEF StatusDue, SampleDue, module_state, server
  <2>2. /\ phase' = "send" /\ cmd' \in Commands /\ payload' \in Payloads
        /\ boot' = boot
    BY <1>3 DEF StatusDue, SampleDue, SendData, Do, Commands, Payloads, TypeOK
  <2>3. faults' \in 0 .. MaxFaults
    BY <1>3, GoOnFacts DEF StatusDue, SampleDue
  <2>4. QED
    BY <2>1, <2>2, <2>3 DEF TypeOK
<1>4. QED
  BY <1>1, <1>2, <1>3 DEF Handle

LEMMA TypeReceive ==
  ASSUME TypeOK, Receive
  PROVE  TypeOK'
<1>1. UNCHANGED <<phase, cmd, payload, boot, module, data, link, srv,
                  acceptor, oldsession, sent, handled, gaveUp, faults>>
  BY DEF Receive, main, module_state, server, history
<1>2. wire \in Seq(Tokens) /\ cb \in Seq(Tokens) /\ wire # <<>>
  BY DEF TypeOK, Receive
<1>3. Head(wire) \in Tokens /\ Tail(wire) \in Seq(Tokens)
  BY <1>2
<1>4. Append(cb, Head(wire)) \in Seq(Tokens)
  BY <1>2, <1>3
<1>5. cb' \in Seq(Tokens) /\ wire' \in Seq(Tokens)
  BY <1>3, <1>4 DEF Receive
<1>6. QED
  BY <1>1, <1>5, TokensSame DEF TypeOK

\* What the module's steps have in common.
LEMMA ModuleFacts ==
  ASSUME TypeOK, Module
  PROVE  /\ UNCHANGED <<phase, cmd, payload, boot, cb, sent, handled, gaveUp>>
         /\ module # "none" /\ module' = "none"
         /\ faults' \in 0 .. MaxFaults
         /\ link' \in {"up", "down"} /\ oldsession' \in {"yes", "no"}
         /\ srv' \in {"none", "fresh", "in", "refused"} /\ acceptor' = acceptor
         /\ data' \in {data, "no"}
         /\ \E a \in Seq(Tokens) :
              /\ wire' = wire \o a
              /\ \/ a = <<Reply("OK", module)>>
                 \/ a = <<Reply("STATUS:3", module), Reply("OK", module)>>
                 \/ a = <<Reply("ERROR", module)>> /\ data' = "no"
<1>1. module \in Commands \cup {"GARBAGE"} /\ module # "none"
  BY DEF Module, Connect, Refuse, Prompt, Deliver, Report, Outgoing, Commands,
         Payloads, TypeOK
<1>2. /\ <<Reply("OK", module)>> \in Seq(Tokens)
      /\ <<Reply("ERROR", module)>> \in Seq(Tokens)
      /\ <<Reply("STATUS:3", module), Reply("OK", module)>> \in Seq(Tokens)
  <2>1. /\ Reply("OK", module) \in Tokens /\ Reply("ERROR", module) \in Tokens
        /\ Reply("STATUS:3", module) \in Tokens
    BY <1>1, ReplyFacts DEF Words
  <2>2. QED
    BY <2>1
<1> USE <1>1, <1>2
<1>3. CASE Connect
  BY <1>3 DEF Connect, Sends, main, history, TypeOK
<1>4. CASE Refuse
  <2>1. faults' \in 0 .. MaxFaults
    BY <1>4, BoundsAssumption DEF Refuse, TypeOK
  <2>2. /\ UNCHANGED <<phase, cmd, payload, boot, cb, sent, handled, gaveUp,
                      link, srv, acceptor, oldsession>>
        /\ module' = "none" /\ data' = "no"
        /\ wire' = wire \o <<Reply("ERROR", module)>>
    BY <1>4 DEF Refuse, Sends, main, server
  <2>3. QED
    BY <2>1, <2>2 DEF TypeOK
<1>5. CASE Prompt
  BY <1>5 DEF Prompt, Sends, main, server, history, TypeOK
<1>6. CASE Deliver
  <2>1. /\ oldsession' \in {"yes", "no"}
        /\ srv' \in {"none", "fresh", "in", "refused"}
    BY <1>6, ReachesFacts DEF Deliver
  <2>2. QED
    BY <1>6, <2>1 DEF Deliver, Sends, main, history, TypeOK
<1>7. CASE Report
  BY <1>7 DEF Report, Sends, main, server, history, TypeOK
<1>8. QED
  BY <1>3, <1>4, <1>5, <1>6, <1>7 DEF Module

LEMMA TypeModule ==
  ASSUME TypeOK, Module
  PROVE  TypeOK'
<1>1. PICK a \in Seq(Tokens) : wire' = wire \o a
  BY ModuleFacts
<1>2. wire' \in Seq(Tokens)
  BY <1>1 DEF TypeOK
<1>3. Tokens' = Tokens
  BY ModuleFacts, TokensSame
<1>4. data' \in Payloads \cup {"no", "rest"}
  BY ModuleFacts DEF TypeOK
<1>5. QED
  BY <1>2, <1>3, <1>4, ModuleFacts DEF TypeOK

LEMMA TypeServer ==
  ASSUME TypeOK, ServerSends \/ ServerCloses \/ LinkLost \/ OldSessionEnds
  PROVE  TypeOK'
<1>1. CASE ServerSends
  <2>1. sent' = sent + 1 /\ sent' \in 0 .. MaxFrames
    BY <1>1, BoundsAssumption DEF ServerSends, TypeOK
  <2>2. Tokens \subseteq Tokens' /\ handled \in 0 .. sent'
    BY <2>1, TokensGrow DEF TypeOK
  <2>3. PICK text \in Texts :
          wire' = wire \o <<FrameHead(sent'), FrameText(sent', text)>>
    BY <1>1 DEF ServerSends, Sends
  <2>8. <<FrameHead(sent'), FrameText(sent', text)>> \in Seq(Tokens')
    BY <2>1, TokensGrow
  <2>4. cb \in Seq(Tokens') /\ wire \in Seq(Tokens')
    BY <2>2 DEF TypeOK
  <2>5. wire' \in Seq(Tokens')
    BY <2>3, <2>4, <2>8
  <2>6. UNCHANGED <<phase, cmd, payload, boot, cb, module, data, link, srv,
                    acceptor, oldsession, handled, gaveUp, faults>>
    BY <1>1 DEF ServerSends, main, module_state, history
  <2>7. QED
    BY <2>1, <2>2, <2>4, <2>5, <2>6 DEF TypeOK
<1>2. CASE ServerCloses
  BY <1>2, TokensSame DEF ServerCloses, TypeOK, main, history
<1>3. CASE LinkLost
  BY <1>3, TokensSame, BoundsAssumption DEF LinkLost, TypeOK, main
<1>4. CASE OldSessionEnds
  BY <1>4, TokensSame DEF OldSessionEnds, TypeOK, main, module_state, history
<1>5. QED
  BY <1>1, <1>2, <1>3, <1>4

-----------------------------------------------------------------------------
(* Frames. *)

NoFrame(s) == \A k \in 1 .. Len(s) : ~ Body(s[k]) /\ s[k].kind # "+IPD"

LEMMA JoinAt ==
  ASSUME NEW S, NEW s \in Seq(S), NEW t \in Seq(S)
  PROVE  /\ Len(s) \in Nat /\ Len(t) \in Nat /\ s \o t \in Seq(S)
         /\ Len(s \o t) = Len(s) + Len(t)
         /\ \A k \in 1 .. Len(s \o t) :
              \/ k \in 1 .. Len(s) /\ (s \o t)[k] = s[k]
              \/ k - Len(s) \in 1 .. Len(t) /\ (s \o t)[k] = t[k - Len(s)]
         /\ \A k \in 1 .. Len(s) : (s \o t)[k] = s[k]
OBVIOUS

\* Answers at the end of the wire leave the frames as they are.
LEMMA FramesKept ==
  ASSUME TypeOK, Frames, UNCHANGED <<cb, handled>>,
         phase = "wipe" => phase' = "wipe",
         NEW a \in Seq(Tokens), wire' = wire \o a, NoFrame(a)
  PROVE  Frames'
<1>1. /\ Len(wire) \in Nat /\ Len(wire') \in Nat /\ Len(wire) <= Len(wire')
      /\ \A k \in 1 .. Len(wire) : wire'[k] = wire[k]
      /\ wire # <<>> => wire' # <<>> /\ 1 \in 1 .. Len(wire)
      /\ Len(cb) \in Nat
  BY JoinAt DEF TypeOK
<1>2. ASSUME NEW k \in 1 .. Len(wire'),
             Body(wire'[k]) \/ wire'[k].kind = "+IPD"
      PROVE  k \in 1 .. Len(wire) /\ wire'[k] = wire[k]
  <2>1. \/ k \in 1 .. Len(wire) /\ wire'[k] = wire[k]
        \/ k - Len(wire) \in 1 .. Len(a) /\ wire'[k] = a[k - Len(wire)]
    BY JoinAt DEF TypeOK
  <2>2. QED
    BY <1>2, <2>1 DEF NoFrame
<1>3. FramesWhole'
  <2>1. ASSUME NEW k \in 1 .. Len(wire'), wire'[k].kind = "+IPD"
        PROVE  k < Len(wire') /\ Body(wire'[k + 1])
    <3>1. k \in 1 .. Len(wire) /\ wire[k].kind = "+IPD"
      BY <1>2, <2>1
    <3>2. k < Len(wire) /\ Body(wire[k + 1])
      BY <3>1 DEF Frames, FramesWhole
    <3>3. k + 1 \in 1 .. Len(wire)
      BY <1>1, <3>1, <3>2
    <3>4. QED
      BY <1>1, <3>2, <3>3
  <2>2. cb' # <<>> /\ cb'[Len(cb')].kind = "+IPD"
          => wire' # <<>> /\ Body(wire'[1])
    BY <1>1 DEF Frames, FramesWhole
  <2>3. \A k \in 1 .. Len(cb') - 1 : cb'[k].kind = "+IPD" => Body(cb'[k + 1])
    BY DEF Frames, FramesWhole
  <2>4. QED
    BY <2>1, <2>2, <2>3 DEF FramesWhole
<1>4. FramesOrdered'
  <2>1. ASSUME NEW k \in 1 .. Len(wire'), Body(wire'[k])
        PROVE  wire'[k].frame > handled'
    BY <1>2, <2>1 DEF Frames, FramesOrdered
  <2>2. ASSUME NEW j \in 1 .. Len(wire'), NEW k \in 1 .. Len(wire'), j < k,
               Body(wire'[j]), Body(wire'[k])
        PROVE  wire'[j].frame < wire'[k].frame
    BY <1>2, <2>2 DEF Frames, FramesOrdered
  <2>3. ASSUME NEW j \in 1 .. Len(cb'), NEW k \in 1 .. Len(wire'),
               Body(cb'[j]), Body(wire'[k])
        PROVE  cb'[j].frame < wire'[k].frame
    BY <1>2, <2>3 DEF Frames, FramesOrdered
  <2>4. ASSUME phase' # "wipe", NEW k \in 1 .. Len(cb'), Body(cb'[k])
        PROVE  cb'[k].frame > handled'
    BY <2>4 DEF Frames, FramesOrdered
  <2>5. QED
    BY <2>1, <2>2, <2>3, <2>4 DEF FramesOrdered
<1>5. QED
  BY <1>3, <1>4 DEF Frames

LEMMA FramesSame ==
  ASSUME TypeOK, Frames, UNCHANGED <<cb, wire, handled>>,
         phase = "wipe" => phase' = "wipe"
  PROVE  Frames'
BY DEF Frames, FramesWhole, FramesOrdered, Body

LEMMA FramesWiped ==
  ASSUME TypeOK, Frames, cb' = <<>>, UNCHANGED <<wire, handled>>
  PROVE  Frames'
BY DEF Frames, FramesWhole, FramesOrdered, Body

LEMMA FramesHandled ==
  ASSUME TypeOK, Frames, HandleCopy
  PROVE  Frames'
<1>1. PICK k \in 1 .. Len(cb) : Body(cb[k]) /\ handled' = cb[k].frame
  BY Handled DEF Frames
<1>2. UNCHANGED <<cb, wire>> /\ phase' = "wipe"
  BY DEF HandleCopy
<1>3. FramesWhole'
  BY <1>2 DEF Frames, FramesWhole, Body
<1>4. \A j \in 1 .. Len(wire) : Body(wire[j]) => wire[j].frame > handled'
  <2>1. TAKE j \in 1 .. Len(wire)
  <2>2. HAVE Body(wire[j])
  <2>3. cb[k].frame < wire[j].frame
    BY <1>1, <2>2 DEF Frames, FramesOrdered
  <2>4. cb[k].frame \in Int /\ wire[j].frame \in Int
    <3>1. cb[k] \in Tokens /\ wire[j] \in Tokens
      BY DEF TypeOK
    <3>2. cb[k].frame \in 1 .. sent /\ wire[j].frame \in 1 .. sent
      BY <1>1, <2>2, <3>1, TokenKinds
    <3>3. QED
      BY <3>2
  <2>5. QED
    BY <1>1, <2>3, <2>4
<1>5. FramesOrdered'
  BY <1>2, <1>4 DEF Frames, FramesOrdered, Body
<1>6. QED
  BY <1>3, <1>5 DEF Frames

LEMMA FramesReceived ==
  ASSUME TypeOK, Frames, Receive
  PROVE  Frames'
<1>1. /\ UNCHANGED <<phase, handled>>
      /\ wire \in Seq(Tokens) /\ cb \in Seq(Tokens) /\ wire # <<>>
      /\ cb' = Append(cb, Head(wire)) /\ wire' = Tail(wire)
  BY DEF Receive, main, history, TypeOK
<1>2. /\ Len(wire) \in Nat \ {0} /\ Len(wire') = Len(wire) - 1
      /\ Head(wire) = wire[1] /\ Head(wire) \in Tokens
      /\ \A k \in 1 .. Len(wire') : wire'[k] = wire[k + 1]
  BY <1>1, TailFacts
<1>3. /\ Len(cb) \in Nat /\ Len(cb') = Len(cb) + 1
      /\ \A k \in 1 .. Len(cb) : cb'[k] = cb[k]
      /\ cb'[Len(cb) + 1] = wire[1]
  BY <1>1, <1>2, AppendFacts
<1>4. wire' # <<>> <=> Len(wire) > 1
  <2>1. wire' \in Seq(Tokens)
    BY <1>1, TailFacts
  <2>2. QED
    BY <1>2, <2>1
<1>5. FramesWhole'
  <2>1. ASSUME NEW k \in 1 .. Len(cb') - 1, cb'[k].kind = "+IPD"
        PROVE  Body(cb'[k + 1])
    <3>1. k \in 1 .. Len(cb) /\ cb[k].kind = "+IPD"
      BY <1>3, <2>1
    <3>2. CASE k = Len(cb)
      <4>1. cb # <<>>
        BY <3>1
      <4>2. Body(wire[1])
        BY <3>1, <3>2, <4>1 DEF Frames, FramesWhole
      <4>3. QED
        BY <1>3, <3>2, <4>2
    <3>3. CASE k # Len(cb)
      <4>1. k \in 1 .. Len(cb) - 1 /\ k + 1 \in 1 .. Len(cb)
        BY <1>3, <3>1, <3>3
      <4>2. Body(cb[k + 1])
        BY <3>1, <4>1 DEF Frames, FramesWhole
      <4>3. QED
        BY <1>3, <4>1, <4>2
    <3>4. QED
      BY <3>2, <3>3
  <2>2. ASSUME cb'[Len(cb')].kind = "+IPD"
        PROVE  wire' # <<>> /\ Body(wire'[1])
    <3>1. wire[1].kind = "+IPD" /\ 1 \in 1 .. Len(wire)
      BY <1>2, <1>3, <2>2
    <3>2. 1 < Len(wire) /\ Body(wire[1 + 1])
      BY <3>1 DEF Frames, FramesWhole
    <3>3. QED
      BY <1>2, <1>4, <3>2
  <2>3. ASSUME NEW k \in 1 .. Len(wire'), wire'[k].kind = "+IPD"
        PROVE  k < Len(wire') /\ Body(wire'[k + 1])
    <3>1. k + 1 \in 1 .. Len(wire) /\ wire[k + 1].kind = "+IPD"
      BY <1>2, <2>3
    <3>2. k + 1 < Len(wire) /\ Body(wire[k + 1 + 1])
      BY <3>1 DEF Frames, FramesWhole
    <3>3. k < Len(wire') /\ k + 1 \in 1 .. Len(wire')
      BY <1>2, <3>1, <3>2
    <3>4. QED
      BY <1>2, <3>2, <3>3
  <2>4. QED
    BY <2>1, <2>2, <2>3 DEF FramesWhole
<1>6. FramesOrdered'
  <2>1. ASSUME NEW k \in 1 .. Len(wire'), Body(wire'[k])
        PROVE  wire'[k].frame > handled'
    BY <1>1, <1>2, <2>1 DEF Frames, FramesOrdered
  <2>2. ASSUME NEW j \in 1 .. Len(wire'), NEW k \in 1 .. Len(wire'), j < k,
               Body(wire'[j]), Body(wire'[k])
        PROVE  wire'[j].frame < wire'[k].frame
    <3>1. j + 1 \in 1 .. Len(wire) /\ k + 1 \in 1 .. Len(wire) /\ j + 1 < k + 1
      BY <1>2, <2>2
    <3>2. QED
      BY <1>2, <2>2, <3>1 DEF Frames, FramesOrdered
  <2>3. ASSUME NEW j \in 1 .. Len(cb'), NEW k \in 1 .. Len(wire'),
               Body(cb'[j]), Body(wire'[k])
        PROVE  cb'[j].frame < wire'[k].frame
    <3>1. k + 1 \in 1 .. Len(wire) /\ wire'[k] = wire[k + 1]
          /\ 1 \in 1 .. Len(wire) /\ 1 < k + 1
      BY <1>2
    <3>2. CASE j = Len(cb) + 1
      BY <1>3, <2>3, <3>1, <3>2 DEF Frames, FramesOrdered
    <3>3. CASE j \in 1 .. Len(cb)
      BY <1>3, <2>3, <3>1, <3>3 DEF Frames, FramesOrdered
    <3>4. QED
      BY <1>3, <3>2, <3>3
  <2>4. ASSUME phase' # "wipe", NEW k \in 1 .. Len(cb'), Body(cb'[k])
        PROVE  cb'[k].frame > handled'
    <3>1. CASE k = Len(cb) + 1
      <4>1. 1 \in 1 .. Len(wire)
        BY <1>2
      <4>2. QED
        BY <1>1, <1>3, <2>4, <3>1, <4>1 DEF Frames, FramesOrdered
    <3>2. CASE k \in 1 .. Len(cb)
      BY <1>1, <1>3, <2>4, <3>2 DEF Frames, FramesOrdered
    <3>3. QED
      BY <1>3, <3>1, <3>2
  <2>5. QED
    BY <2>1, <2>2, <2>3, <2>4 DEF FramesOrdered
<1>7. QED
  BY <1>5, <1>6 DEF Frames

LEMMA FramesSent ==
  ASSUME TypeOK, Frames, ServerSends
  PROVE  Frames'
<1>0. PICK text \in Texts :
        wire' = wire \o <<FrameHead(sent + 1), FrameText(sent + 1, text)>>
  BY DEF ServerSends, Sends
<1> DEFINE a == <<FrameHead(sent + 1), FrameText(sent + 1, text)>>
<1>1. UNCHANGED <<phase, cb, handled>> /\ wire' = wire \o a
  BY <1>0 DEF ServerSends, main, history
<1>2. /\ Len(a) = 2 /\ a[1].kind = "+IPD" /\ ~ Body(a[1])
      /\ Body(a[2]) /\ a[2].frame = sent + 1 /\ a[2].kind # "+IPD"
  BY DEF FrameHead, FrameText, Body
<1> HIDE DEF a
<1>3. PICK S : wire \in Seq(S) /\ a \in Seq(S)
  <2>1. /\ a \in Seq(Tokens \cup {a[1], a[2]})
        /\ wire \in Seq(Tokens \cup {a[1], a[2]})
    BY DEF TypeOK, a
  <2>2. QED
    BY <2>1
<1>4. /\ Len(wire) \in Nat /\ Len(wire') = Len(wire) + 2
      /\ \A k \in 1 .. Len(wire) : wire'[k] = wire[k]
      /\ wire # <<>> => 1 \in 1 .. Len(wire)
  <2>1. /\ Len(wire \o a) = Len(wire) + Len(a)
        /\ \A k \in 1 .. Len(wire) : (wire \o a)[k] = wire[k]
    BY <1>3, JoinAt, Zenon
  <2>2. Len(wire) \in Nat /\ (wire # <<>> => 1 \in 1 .. Len(wire))
    BY <1>3
  <2>3. QED
    BY <1>1, <1>2, <2>1, <2>2
<1>5. wire'[Len(wire) + 1] = a[1] /\ wire'[Len(wire) + 2] = a[2]
  <2>1. \A k \in 1 .. Len(wire \o a) :
          \/ k \in 1 .. Len(wire)
          \/ (wire \o a)[k] = a[k - Len(wire)]
    <3>1. \A k \in 1 .. Len(wire \o a) :
            \/ k \in 1 .. Len(wire) /\ (wire \o a)[k] = wire[k]
            \/ /\ k - Len(wire) \in 1 .. Len(a)
               /\ (wire \o a)[k] = a[k - Len(wire)]
      BY <1>3, JoinAt, Zenon
    <3>2. QED
      BY <3>1, Zenon
  <2>2. \A k \in 1 .. Len(wire) + 2 :
          k \in 1 .. Len(wire) \/ wire'[k] = a[k - Len(wire)]
    <3>1. \A k \in 1 .. Len(wire') :
            k \in 1 .. Len(wire) \/ wire'[k] = a[k - Len(wire)]
      BY <1>1, <2>1, Zenon
    <3>2. QED
      BY <1>4, <3>1
  <2>3. wire'[Len(wire) + 1] = a[(Len(wire) + 1) - Len(wire)]
    BY <1>4, <2>2
  <2>4. wire'[Len(wire) + 2] = a[(Len(wire) + 2) - Len(wire)]
    BY <1>4, <2>2
  <2>5. (Len(wire) + 1) - Len(wire) = 1 /\ (Len(wire) + 2) - Len(wire) = 2
    BY <1>4
  <2>6. QED
    BY <2>3, <2>4, <2>5
<1>6. ASSUME NEW k \in 1 .. Len(wire')
      PROVE  \/ k \in 1 .. Len(wire) /\ wire'[k] = wire[k]
             \/ k = Len(wire) + 1 /\ ~ Body(wire'[k])
             \/ k = Len(wire) + 2 /\ Body(wire'[k]) /\ wire'[k].kind # "+IPD"
                  /\ wire'[k].frame = sent + 1
  <2>1. k \in 1 .. Len(wire) \/ k = Len(wire) + 1 \/ k = Len(wire) + 2
    BY <1>4
  <2>2. CASE k \in 1 .. Len(wire)
    BY <1>4, <2>2
  <2>3. CASE k = Len(wire) + 1
    BY <1>2, <1>5, <2>3
  <2>4. CASE k = Len(wire) + 2
    BY <1>2, <1>5, <2>4
  <2>5. QED
    BY <2>1, <2>2, <2>3, <2>4, Zenon
<1>7. /\ \A k \in 1 .. Len(wire) : Body(wire[k]) => wire[k].frame < sent + 1
      /\ \A k \in 1 .. Len(cb) : Body(cb[k]) => cb[k].frame < sent + 1
      /\ handled < sent + 1
  <2>1. /\ \A k \in 1 .. Len(wire) : wire[k] \in Tokens
        /\ \A k \in 1 .. Len(cb) : cb[k] \in Tokens
        /\ sent \in Nat /\ handled \in 0 .. sent
    BY DEF TypeOK
  <2>2. QED
    BY <2>1, TokenKinds
<1>8. FramesWhole'
  <2>1. ASSUME NEW k \in 1 .. Len(wire'), wire'[k].kind = "+IPD"
        PROVE  k < Len(wire') /\ Body(wire'[k + 1])
    <3>1. CASE k \in 1 .. Len(wire)
      <4>1. k < Len(wire) /\ Body(wire[k + 1])
        BY <1>4, <2>1, <3>1 DEF Frames, FramesWhole
      <4>2. k + 1 \in 1 .. Len(wire)
        BY <1>4, <3>1, <4>1
      <4>3. QED
        BY <1>4, <3>1, <4>1, <4>2
    <3>2. CASE k = Len(wire) + 1
      <4>1. k + 1 = Len(wire) + 2
        BY <1>4, <3>2
      <4>2. QED
        BY <1>2, <1>4, <1>5, <3>2, <4>1
    <3>3. QED
      BY <1>6, <2>1, <3>1, <3>2
  <2>2. ASSUME cb' # <<>>, cb'[Len(cb')].kind = "+IPD"
        PROVE  wire' # <<>> /\ Body(wire'[1])
    <3>1. wire # <<>> /\ Body(wire[1])
      BY <1>1, <2>2 DEF Frames, FramesWhole
    <3>2. wire' # <<>>
      BY <1>4
    <3>3. QED
      BY <1>4, <3>1, <3>2
  <2>3. \A k \in 1 .. Len(cb') - 1 : cb'[k].kind = "+IPD" => Body(cb'[k + 1])
    BY <1>1 DEF Frames, FramesWhole
  <2>4. QED
    BY <2>1, <2>2, <2>3 DEF FramesWhole
<1>9. FramesOrdered'
  <2>1. ASSUME NEW k \in 1 .. Len(wire'), Body(wire'[k])
        PROVE  wire'[k].frame > handled'
    BY <1>1, <1>6, <1>7, <2>1 DEF Frames, FramesOrdered, TypeOK
  <2>2. ASSUME NEW j \in 1 .. Len(wire'), NEW k \in 1 .. Len(wire'), j < k,
               Body(wire'[j]), Body(wire'[k])
        PROVE  wire'[j].frame < wire'[k].frame
    <3>1. j \in 1 .. Len(wire) /\ wire'[j] = wire[j]
      BY <1>4, <1>6, <2>2
    <3>2. CASE k \in 1 .. Len(wire) /\ wire'[k] = wire[k]
      BY <2>2, <3>1, <3>2 DEF Frames, FramesOrdered
    <3>3. CASE wire'[k].frame = sent + 1
      BY <1>7, <2>2, <3>1, <3>3
    <3>4. QED
      BY <1>6, <2>2, <3>2, <3>3
  <2>3. ASSUME NEW j \in 1 .. Len(cb'), NEW k \in 1 .. Len(wire'),
               Body(cb'[j]), Body(wire'[k])
        PROVE  cb'[j].frame < wire'[k].frame
    <3>1. CASE k \in 1 .. Len(wire) /\ wire'[k] = wire[k]
      BY <1>1, <2>3, <3>1 DEF Frames, FramesOrdered
    <3>2. CASE wire'[k].frame = sent + 1
      BY <1>1, <1>7, <2>3, <3>2
    <3>3. QED
      BY <1>6, <2>3, <3>1, <3>2
  <2>4. \A k \in 1 .. Len(cb') :
          phase' # "wipe" /\ Body(cb'[k]) => cb'[k].frame > handled'
    BY <1>1 DEF Frames, FramesOrdered
  <2>5. QED
    BY <2>1, <2>2, <2>3, <2>4 DEF FramesOrdered
<1>10. QED
  BY <1>8, <1>9 DEF Frames

-----------------------------------------------------------------------------
(* Answers and the login. *)

LEMMA FinalIs ==
  ASSUME NEW s, NoFinal(s)
  PROVE  NoError(s)
BY DEF Final, NoFinal, NoError

\* A command that a text does not end is ended by a reply.
LEMMA EndedByReply ==
  ASSUME TypeOK, NEW word \in {"OK", "ERROR"}, Has(word, cb),
         First(word, cb).frame = 0
  PROVE  \E k \in 1 .. Len(cb) :
           First(word, cb) = cb[k] /\ cb[k].kind = word /\ Final(cb[k])
<1>1. cb \in Seq(Tokens)
  BY DEF TypeOK
<1>2. PICK k \in 1 .. Len(cb) : First(word, cb) = cb[k] /\ Finds(word, cb[k])
  BY <1>1, FirstIs, Zenon
<1>3. cb[k] \in Tokens
  BY <1>1
<1>4. cb[k].kind = word
  BY <1>2, <1>3, FoundIn
<1>5. QED
  BY <1>2, <1>4 DEF Final

\* At the end of a command nothing of it is left, unless data are announced.
LEMMA OwnPoll ==
  ASSUME TypeOK, Own, PollOk \/ PollError
  PROVE  Own'
<1> SUFFICES ASSUME gaveUp' = "no" PROVE (AnswersOwn /\ LoginNext)'
  BY DEF Own
<1>0. /\ gaveUp = "no"
      /\ PollOk => Has("OK", cb) /\ First("OK", cb).frame = 0
      /\ PollError => Has("ERROR", cb) /\ First("ERROR", cb).frame = 0
  BY DEF PollOk, PollError, EndedBy
<1>1. UNCHANGED <<cb, wire, module, data, link, srv>> /\ phase = "wait"
  BY DEF PollOk, PollError, module_state, server
<1>2. ~ NoFinal(cb) /\ (PollError => ~ NoError(cb))
  <2>1. CASE PollOk
    <3>1. ~ NoFinal(cb) /\ ~ PollError
      BY <1>0, <2>1, EndedByReply DEF NoFinal, PollOk, PollError
    <3>2. QED
      BY <3>1
  <2>2. CASE PollError
    BY <1>0, <2>2, EndedByReply DEF NoFinal, NoError
  <2>3. QED
    BY <2>1, <2>2
<1>3. module = "none" /\ NoFinal(wire)
  BY <1>0, <1>1, <1>2 DEF Own, AnswersOwn, OneAnswer, TypeOK
<1>4. /\ phase' \in {"loop", "send"}
      /\ cmd = "CIPSTART"
           => phase' = "send" /\ cmd' = "CIPSEND" /\ payload' = "LOGIN"
  BY <1>1, ReturnsFacts DEF PollOk, PollError, Has
<1>5. data # "no" => /\ data = payload /\ cmd = "CIPSEND" /\ NoError(cb)
  BY <1>0, <1>1 DEF Own, AnswersOwn, DataNext
<1>6. data # "no" =>
        phase' = "send" /\ cmd' = payload /\ payload' = payload
  <2>1. ASSUME data # "no" PROVE PollOk /\ cmd = "CIPSEND"
    BY <1>2, <1>5, <2>1
  <2>2. QED
    BY <1>1, <2>1, ReturnsFacts DEF PollOk, Has
<1>7. OneAnswer'
  BY <1>1, <1>3, <1>4 DEF OneAnswer, NoFinal, Final
<1>8. DataNext'
  BY <1>1, <1>5, <1>6 DEF DataNext
<1>9. LoginNext'
  BY <1>0, <1>1, <1>3, <1>4, <1>6 DEF Own, LoginNext
<1>10. QED
  BY <1>7, <1>8, <1>9 DEF AnswersOwn

LEMMA OwnLoop ==
  ASSUME TypeOK, Own, HandleCopy \/ StatusDue \/ SampleDue
  PROVE  Own'
<1> SUFFICES ASSUME gaveUp = "no" PROVE (AnswersOwn /\ LoginNext)'
  BY DEF Own, HandleCopy, StatusDue, SampleDue
<1>1. UNCHANGED <<cb, wire, module, data, link, srv>> /\ phase = "loop"
  BY DEF HandleCopy, StatusDue, SampleDue, module_state, server
<1>2. phase' \in {"wipe", "send"}
  BY DEF HandleCopy, StatusDue, SampleDue, SendData, Do
<1>3. module = "none" /\ NoFinal(wire) /\ data = "no" /\ srv # "fresh"
  BY <1>1 DEF Own, AnswersOwn, OneAnswer, DataNext, LoginNext
<1>4. QED
  BY <1>1, <1>2, <1>3 DEF AnswersOwn, OneAnswer, DataNext, LoginNext, NoFinal,
     Final

LEMMA OwnWipe ==
  ASSUME TypeOK, Own, HandleWipe
  PROVE  Own'
<1> SUFFICES ASSUME gaveUp = "no" PROVE (AnswersOwn /\ LoginNext)'
  BY DEF Own, HandleWipe, history
<1>1. UNCHANGED <<wire, module, data, link, srv>> /\ phase = "wipe"
  BY DEF HandleWipe, module_state, server
<1>2. phase' \in {"loop", "send"}
  BY RepliesFacts DEF HandleWipe
<1>3. module = "none" /\ NoFinal(wire) /\ data = "no" /\ srv # "fresh"
  BY <1>1 DEF Own, AnswersOwn, OneAnswer, DataNext, LoginNext
<1>4. QED
  BY <1>1, <1>2, <1>3 DEF AnswersOwn, OneAnswer, DataNext, LoginNext, NoFinal,
     Final

\* A command finds the module without an answer under way and without data but
\* its own: as each command leaves it that ends with its answer, and by itself
\* when the module has settled.
LEMMA OwnTransmit ==
  ASSUME TypeOK, Own, Transmit
  PROVE  Own'
<1> SUFFICES ASSUME gaveUp' = "no" PROVE (AnswersOwn /\ LoginNext)'
  BY DEF Own
<1>1. /\ UNCHANGED <<cmd, payload, wire, link, srv>>
      /\ phase = "send" /\ phase' = "wait" /\ cb' = <<>> /\ Takes(cmd)
      /\ gaveUp = "no" \/ Settled
  BY DEF Transmit, server
<1>2. /\ module = "none" /\ NoFinal(wire)
      /\ data # "no" => data = payload /\ cmd = payload
      /\ srv = "fresh" =>
           /\ link = "up"
           /\ \/ cmd = "CIPSEND" /\ payload = "LOGIN"
              \/ cmd = "LOGIN" /\ payload = "LOGIN" /\ data = "LOGIN"
  <2>1. CASE gaveUp = "no"
    BY <1>1, <2>1 DEF Own, AnswersOwn, OneAnswer, DataNext, LoginNext
  <2>2. CASE Settled
    BY <2>2 DEF Settled, Answering, NoFinal, Final
  <2>3. QED
    BY <1>1, <2>1, <2>2
<1>3. data # "no" => data = payload /\ cmd = payload
  BY <1>2
<1>4. cmd = "CIPSEND" => data = "no"
  BY <1>3 DEF TypeOK, Payloads
<1>5. \/ data = cmd /\ module' = cmd /\ data' = "no" /\ cmd = payload
      \/ data = "no" /\ cmd \notin Payloads /\ module' = cmd
           /\ data' = IF cmd = "CIPSEND" THEN payload ELSE "no"
      \/ data = "no" /\ cmd \in Payloads /\ module' = "none" /\ data' = "no"
  BY <1>1, <1>2, <1>3 DEF Takes, TypeOK, Payloads
<1>6. NoFinal(cb') /\ NoFinal(wire') /\ NoError(cb') /\ NoError(wire')
  BY <1>1, <1>2, FinalIs DEF NoFinal, NoError
<1>7. OneAnswer'
  BY <1>1, <1>5, <1>6 DEF OneAnswer, NoFinal
<1>8. DataNext'
  BY <1>1, <1>5, <1>6 DEF DataNext
<1>9. LoginNext'
  <2>1. SUFFICES ASSUME srv = "fresh" PROVE LoginNext'
    BY <1>1 DEF LoginNext
  <2>2. /\ link = "up"
        /\ \/ cmd = "CIPSEND" /\ payload = "LOGIN"
           \/ cmd = "LOGIN" /\ payload = "LOGIN" /\ data = "LOGIN"
    BY <1>2, <2>1
  <2>3. CASE cmd = "CIPSEND" /\ payload = "LOGIN"
    BY <1>1, <1>4, <1>5, <2>2, <2>3 DEF LoginNext, Payloads
  <2>4. CASE cmd = "LOGIN" /\ data = "LOGIN"
    BY <1>1, <1>5, <2>2, <2>4 DEF LoginNext, Payloads
  <2>5. QED
    BY <2>2, <2>3, <2>4
<1>10. QED
  BY <1>7, <1>8, <1>9 DEF AnswersOwn

LEMMA OwnServer ==
  ASSUME TypeOK, Own, ServerCloses \/ LinkLost \/ OldSessionEnds
  PROVE  Own'
<1> SUFFICES ASSUME gaveUp = "no" PROVE (AnswersOwn /\ LoginNext)'
  BY DEF Own, ServerCloses, LinkLost, OldSessionEnds, history
<1>1. UNCHANGED <<phase, cmd, payload, cb, wire, module>>
  BY DEF ServerCloses, LinkLost, OldSessionEnds, main, module_state
<1>2. /\ data' \in {data, "no"}
      /\ srv' = "fresh" => UNCHANGED <<data, link, srv>>
  BY DEF ServerCloses, LinkLost, OldSessionEnds, module_state
<1>3. OneAnswer'
  BY <1>1 DEF Own, AnswersOwn, OneAnswer, NoFinal, Final
<1>4. DataNext'
  BY <1>1, <1>2 DEF Own, AnswersOwn, DataNext, NoError
<1>5. LoginNext'
  BY <1>1, <1>2 DEF Own, LoginNext
<1>6. QED
  BY <1>3, <1>4, <1>5 DEF AnswersOwn

LEMMA OwnReceive ==
  ASSUME TypeOK, Own, Receive
  PROVE  Own'
<1> SUFFICES ASSUME gaveUp = "no" PROVE (AnswersOwn /\ LoginNext)'
  BY DEF Own, Receive, history
<1>1. /\ UNCHANGED <<phase, cmd, payload, module, data, link, srv>>
      /\ wire \in Seq(Tokens) /\ cb \in Seq(Tokens) /\ wire # <<>>
      /\ cb' = Append(cb, Head(wire)) /\ wire' = Tail(wire)
  BY DEF Receive, main, module_state, server, TypeOK
<1>2. /\ Len(wire) \in Nat \ {0} /\ Len(wire') = Len(wire) - 1
      /\ Head(wire) = wire[1] /\ Head(wire) \in Tokens
      /\ \A k \in 1 .. Len(wire') : wire'[k] = wire[k + 1]
  BY <1>1, TailFacts
<1>3. /\ Len(cb) \in Nat /\ Len(cb') = Len(cb) + 1
      /\ \A k \in 1 .. Len(cb) : cb'[k] = cb[k]
      /\ cb'[Len(cb) + 1] = wire[1]
  BY <1>1, <1>2, AppendFacts
<1>4. /\ 1 \in 1 .. Len(wire)
      /\ \A k \in 1 .. Len(wire') :
           k + 1 \in 1 .. Len(wire) /\ k + 1 # 1 /\ wire'[k] = wire[k + 1]
      /\ \A k \in 1 .. Len(cb') :
           \/ k \in 1 .. Len(cb) /\ cb'[k] = cb[k]
           \/ cb'[k] = wire[1]
  BY <1>2, <1>3
<1>5. OneAnswer'
  <2>1. NoFinal(wire) => NoFinal(wire')
    BY <1>4 DEF NoFinal
  <2>2. NoFinal(cb) /\ NoFinal(wire) => NoFinal(cb')
    BY <1>4 DEF NoFinal
  <2>3. Final(wire[1]) => NoFinal(wire')
    BY <1>4 DEF Own, AnswersOwn, OneAnswer, NoFinal
  <2>4. ~ Final(wire[1]) /\ NoFinal(cb) => NoFinal(cb')
    BY <1>4 DEF NoFinal
  <2>5. \A k \in 1 .. Len(wire') : Final(wire'[k]) => wire'[k].cmd = cmd
    BY <1>4 DEF Own, AnswersOwn, OneAnswer
  <2>6. ASSUME NEW j \in 1 .. Len(wire'), NEW k \in 1 .. Len(wire'),
               Final(wire'[j]), Final(wire'[k])
        PROVE  j = k
    <3>1. j + 1 = k + 1
      BY <1>4, <2>6 DEF Own, AnswersOwn, OneAnswer
    <3>2. QED
      BY <3>1
  <2>7. ASSUME phase = "wait"
        PROVE  \A k \in 1 .. Len(cb') : Final(cb'[k]) => cb'[k].cmd = cmd
    BY <1>4, <2>7 DEF Own, AnswersOwn, OneAnswer
  <2>8. phase = "wait" => NoFinal(cb') \/ NoFinal(wire')
    <3>1. phase = "wait" => NoFinal(cb) \/ NoFinal(wire)
      BY DEF Own, AnswersOwn, OneAnswer
    <3>2. QED
      BY <2>1, <2>3, <2>4, <3>1
  <2>9. phase # "wait" => module = "none" /\ NoFinal(wire')
    BY <2>1 DEF Own, AnswersOwn, OneAnswer
  <2>10. module # "none" => module = cmd /\ NoFinal(cb') /\ NoFinal(wire')
    BY <2>1, <2>2 DEF Own, AnswersOwn, OneAnswer
  <2>11. QED
    BY <1>1, <2>5, <2>6, <2>7, <2>8, <2>9, <2>10 DEF OneAnswer
<1>6. DataNext'
  <2>1. NoError(cb) /\ NoError(wire) => NoError(cb') /\ NoError(wire')
    BY <1>4 DEF NoError
  <2>2. QED
    BY <1>1, <2>1 DEF Own, AnswersOwn, DataNext
<1>7. LoginNext'
  BY <1>1 DEF Own, LoginNext
<1>8. QED
  BY <1>5, <1>6, <1>7 DEF AnswersOwn

\* The module's answer is the only one, and the command's.
LEMMA AnswerJoined ==
  ASSUME TypeOK, gaveUp = "no", Own, Module
  PROVE  /\ module = cmd /\ phase = "wait"
         /\ OneAnswer'
         /\ data' # "no" => NoError(cb') /\ NoError(wire')
<1>1. /\ UNCHANGED <<phase, cmd, payload, cb>> /\ module # "none"
      /\ module' = "none" /\ data' \in {data, "no"}
  BY ModuleFacts
<1>2. module = cmd /\ NoFinal(cb) /\ NoFinal(wire) /\ phase = "wait"
  BY <1>1 DEF Own, AnswersOwn, OneAnswer
<1>3. PICK a \in Seq(Tokens) :
        /\ wire' = wire \o a
        /\ \/ a = <<Reply("OK", cmd)>>
           \/ a = <<Reply("STATUS:3", cmd), Reply("OK", cmd)>>
           \/ a = <<Reply("ERROR", cmd)>> /\ data' = "no"
  BY <1>2, ModuleFacts
<1>4. /\ \A k \in 1 .. Len(a) : Final(a[k]) => k = Len(a) /\ a[k].cmd = cmd
      /\ data' # "no" => \A k \in 1 .. Len(a) : a[k].kind # "ERROR"
  <2>1. CASE a = <<Reply("OK", cmd)>>
    BY <2>1 DEF Reply, Final
  <2>2. CASE a = <<Reply("STATUS:3", cmd), Reply("OK", cmd)>>
    <3>1. /\ Len(a) = 2 /\ ~ Final(a[1]) /\ a[1].kind # "ERROR"
          /\ a[2].cmd = cmd /\ a[2].kind # "ERROR"
      BY <2>2 DEF Reply, Final
    <3>2. \A k \in 1 .. Len(a) : k = 1 \/ k = 2
      BY <3>1
    <3>3. QED
      BY <3>1, <3>2
  <2>3. CASE a = <<Reply("ERROR", cmd)>> /\ data' = "no"
    BY <2>3 DEF Reply, Final
  <2>4. QED
    BY <1>3, <2>1, <2>2, <2>3
<1>5. ASSUME NEW k \in 1 .. Len(wire')
      PROVE  \/ k \in 1 .. Len(wire) /\ wire'[k] = wire[k]
             \/ k - Len(wire) \in 1 .. Len(a) /\ wire'[k] = a[k - Len(wire)]
  BY <1>3, JoinAt DEF TypeOK
<1>6. Len(wire) \in Nat /\ Len(a) \in Nat
  BY JoinAt DEF TypeOK
<1>7. ASSUME NEW k \in 1 .. Len(wire'), Final(wire'[k])
      PROVE  k = Len(wire) + Len(a) /\ wire'[k].cmd = cmd
  <2>1. /\ k - Len(wire) \in 1 .. Len(a) /\ wire'[k] = a[k - Len(wire)]
    BY <1>2, <1>5, <1>7 DEF NoFinal
  <2>2. k - Len(wire) = Len(a) /\ a[k - Len(wire)].cmd = cmd
    BY <1>4, <1>7, <2>1
  <2>3. QED
    BY <1>6, <2>1, <2>2
<1>8. OneAnswer'
  BY <1>1, <1>2, <1>7 DEF OneAnswer, NoFinal
<1>9. ASSUME data' # "no" PROVE NoError(cb') /\ NoError(wire')
  <2>1. NoError(cb) /\ NoError(wire)
    BY <1>2, FinalIs
  <2>2. QED
    BY <1>1, <1>4, <1>5, <1>9, <2>1 DEF NoError
<1>10. QED
  BY <1>2, <1>8, <1>9

LEMMA OwnModule ==
  ASSUME TypeOK, Own, Module
  PROVE  Own'
<1> SUFFICES ASSUME gaveUp = "no" PROVE (AnswersOwn /\ LoginNext)'
  BY ModuleFacts DEF Own
<1>1. /\ UNCHANGED <<phase, cmd, payload, cb>> /\ module' = "none"
      /\ data' \in {data, "no"} /\ module # "none"
  BY ModuleFacts
<1>2. /\ module = cmd /\ phase = "wait" /\ OneAnswer'
      /\ data' # "no" => NoError(cb') /\ NoError(wire')
  BY AnswerJoined
<1>3. DataNext'
  BY <1>1, <1>2 DEF Own, AnswersOwn, DataNext
<1>4. LoginNext'
  <2>1. SUFFICES ASSUME srv' = "fresh" PROVE LoginNext'
    BY DEF LoginNext
  <2>2. CASE Connect
    BY <1>1, <1>2, <2>2 DEF Connect, LoginNext
  <2>3. CASE ~ Connect
    <3>1. UNCHANGED <<link, srv>>
      BY <2>1, <2>3, ReachesFacts DEF Module, Refuse, Prompt, Deliver, Report,
         server
    <3>2. /\ link = "up"
          /\ \/ cmd = "CIPSEND" /\ payload = "LOGIN" /\ data = "LOGIN"
             \/ cmd = "LOGIN" /\ module = "LOGIN"
      BY <1>1, <1>2, <2>1, <3>1 DEF Own, LoginNext
    <3>3. cmd = "CIPSEND"
      <4>1. ASSUME cmd = "LOGIN" PROVE FALSE
        <5>1. Deliver
          BY <1>2, <2>3, <3>2, <4>1 DEF Module, Refuse, Prompt, Report
        <5>2. QED
          BY <2>1, <5>1, ReachesFacts DEF Deliver
      <4>2. QED
        BY <3>2, <4>1
    <3>4. Prompt
      BY <1>2, <2>3, <3>2, <3>3 DEF Module, Refuse, Deliver, Report, Outgoing,
         Payloads
    <3>5. data' = data
      BY <3>4 DEF Prompt
    <3>6. QED
      BY <1>1, <1>2, <3>1, <3>2, <3>3, <3>5 DEF LoginNext
  <2>4. QED
    BY <2>2, <2>3
<1>5. QED
  BY <1>2, <1>3, <1>4 DEF AnswersOwn

LEMMA OwnSent ==
  ASSUME TypeOK, Own, ServerSends
  PROVE  Own'
<1> SUFFICES ASSUME gaveUp = "no" PROVE (AnswersOwn /\ LoginNext)'
  BY DEF Own, ServerSends, history
<1>0. PICK text \in Texts :
        wire' = wire \o <<FrameHead(sent'), FrameText(sent', text)>>
  BY DEF ServerSends, Sends
<1> DEFINE a == <<FrameHead(sent'), FrameText(sent', text)>>
<1>1. /\ UNCHANGED <<phase, cmd, payload, cb, module, data, link, srv>>
      /\ wire' = wire \o a /\ sent' = sent + 1
  BY <1>0 DEF ServerSends, main, module_state
<1>2. wire \in Seq(Tokens') /\ a \in Seq(Tokens')
  <2>1. a \in Seq(Tokens')
    BY <1>1, TokensGrow
  <2>2. wire \in Seq(Tokens')
    BY <1>1, TokensGrow DEF TypeOK
  <2>3. QED
    BY <2>1, <2>2
<1>3. \A k \in 1 .. Len(a) : ~ Final(a[k]) /\ a[k].kind # "ERROR"
  BY DEF FrameHead, FrameText, Final
<1> HIDE DEF a
<1>4. ASSUME NEW k \in 1 .. Len(wire')
      PROVE  \/ k \in 1 .. Len(wire) /\ wire'[k] = wire[k]
             \/ k - Len(wire) \in 1 .. Len(a) /\ wire'[k] = a[k - Len(wire)]
  BY <1>1, <1>2, JoinAt
<1>5. \A k \in 1 .. Len(wire') :
        /\ Final(wire'[k]) => k \in 1 .. Len(wire) /\ wire'[k] = wire[k]
        /\ NoError(wire) => wire'[k].kind # "ERROR"
  BY <1>3, <1>4 DEF NoError
<1>6. /\ NoFinal(wire) => NoFinal(wire')
      /\ NoError(wire) => NoError(wire')
      /\ \A k \in 1 .. Len(wire') :
           Final(wire'[k]) => k \in 1 .. Len(wire) /\ wire'[k] = wire[k]
  BY <1>5 DEF NoFinal, NoError
<1>7. OneAnswer'
  <2>1. \A k \in 1 .. Len(wire') : Final(wire'[k]) => wire'[k].cmd = cmd
    BY <1>6 DEF Own, AnswersOwn, OneAnswer
  <2>2. \A j, k \in 1 .. Len(wire') :
          Final(wire'[j]) /\ Final(wire'[k]) => j = k
    BY <1>6 DEF Own, AnswersOwn, OneAnswer
  <2>3. QED
    BY <1>1, <1>6, <2>1, <2>2 DEF Own, AnswersOwn, OneAnswer, NoFinal, Final
<1>8. DataNext'
  BY <1>1, <1>6 DEF Own, AnswersOwn, DataNext, NoError
<1>9. LoginNext'
  BY <1>1 DEF Own, LoginNext
<1>10. QED
  BY <1>7, <1>8, <1>9 DEF AnswersOwn

-----------------------------------------------------------------------------
(* Theorems. *)

LEMMA InvInit ==
  ASSUME Init
  PROVE  Inv
<1>1. TypeOK
  BY BoundsAssumption DEF Init, TypeOK, Commands, Payloads
<1>2. Frames
  BY DEF Init, Frames, FramesWhole, FramesOrdered
<1>3. Own
  BY DEF Init, Own, AnswersOwn, OneAnswer, DataNext, LoginNext, NoFinal
<1>4. QED
  BY <1>1, <1>2, <1>3 DEF Inv

LEMMA InvStep ==
  ASSUME Inv, [Next]_vars
  PROVE  Inv'
<1> USE DEF Inv
<1>1. CASE Transmit
  BY <1>1, TypeCommand, OwnTransmit, FramesWiped DEF Transmit, Command, history
<1>2. CASE PollOk \/ PollError
  BY <1>2, TypeCommand, OwnPoll, FramesSame DEF PollOk, PollError, Command
<1>3. CASE GiveUp
  <2>1. Own'
    BY <1>3 DEF GiveUp, Own
  <2>2. QED
    BY <1>3, <2>1, TypeCommand, FramesSame DEF GiveUp, Command
<1>4. CASE HandleCopy
  BY <1>4, TypeLoop, OwnLoop, FramesHandled DEF Handle, Frames
<1>5. CASE HandleWipe
  BY <1>5, TypeLoop, OwnWipe, FramesWiped DEF Handle, HandleWipe, Frames,
     history
<1>6. CASE StatusDue \/ SampleDue
  BY <1>6, TypeLoop, OwnLoop, FramesSame DEF StatusDue, SampleDue, Frames
<1>7. CASE Receive
  BY <1>7, TypeReceive, OwnReceive, FramesReceived
<1>8. CASE Module
  <2>1. PICK a \in Seq(Tokens) :
          /\ wire' = wire \o a
          /\ \/ a = <<Reply("OK", module)>>
             \/ a = <<Reply("STATUS:3", module), Reply("OK", module)>>
             \/ a = <<Reply("ERROR", module)>>
    BY <1>8, ModuleFacts
  <2>2. NoFrame(a)
    <3>1. CASE Len(a) = 1
      BY <2>1, <3>1 DEF NoFrame, Reply, Body
    <3>2. CASE a = <<Reply("STATUS:3", module), Reply("OK", module)>>
      <4>1. \A k \in 1 .. Len(a) : k = 1 \/ k = 2
        BY <3>2
      <4>2. QED
        BY <3>2, <4>1 DEF NoFrame, Reply, Body
    <3>3. QED
      BY <2>1, <3>1, <3>2
  <2>3. Frames'
    BY <1>8, <2>1, <2>2, FramesKept, ModuleFacts
  <2>4. QED
    BY <1>8, <2>3, TypeModule, OwnModule
<1>9. CASE ServerSends
  BY <1>9, TypeServer, OwnSent, FramesSent
<1>10. CASE ServerCloses \/ LinkLost \/ OldSessionEnds
  BY <1>10, TypeServer, OwnServer, FramesSame DEF ServerCloses, LinkLost,
     OldSessionEnds, main, history
<1>11. CASE UNCHANGED vars
  <2>1. UNCHANGED <<phase, cmd, payload, boot, cb, wire, module, data, link,
                    srv, acceptor, oldsession, sent, handled, gaveUp, faults>>
    BY <1>11 DEF vars, main, module_state, server, history
  <2>2. TypeOK'
    BY <2>1, TokensSame DEF TypeOK
  <2>3. Frames'
    BY <2>1, FramesSame
  <2>4. Own'
    BY <2>1 DEF Own, AnswersOwn, OneAnswer, DataNext, LoginNext, NoFinal,
       NoError, Final
  <2>5. QED
    BY <2>2, <2>3, <2>4
<1>12. QED
  BY <1>1, <1>2, <1>3, <1>4, <1>5, <1>6, <1>7, <1>8, <1>9, <1>10, <1>11
  DEF Next, Command, Handle

LEMMA InvAlways == Spec => []Inv
<1>1. Init => Inv
  BY InvInit
<1>2. Inv /\ [Next]_vars => Inv'
  BY InvStep
<1>3. QED
  BY <1>1, <1>2, PTL DEF Spec

\* Every variable of the driver, the module and the server (esp.c, main.c) has
\* its type, for any number of messages and faults.
THEOREM TypeCorrect == Spec => []TypeOK
<1>1. Inv => TypeOK
  BY DEF Inv
<1>2. QED
  BY <1>1, InvAlways, PTL

\* strchr at main.c:177 finds a '[' whenever the test at main.c:174 succeeds.
THEOREM CopyCorrect == Spec => []NoNullCopy
<1>1. Inv => NoNullCopy
  BY ReadyHasBody DEF Inv, Frames, NoNullCopy
<1>2. QED
  BY <1>1, InvAlways, PTL

\* The loop (main.c:174-181) handles messages in order and none of them twice.
THEOREM HandledCorrect == Spec => HandledOnce
<1>1. Inv /\ [Next]_vars => [HandleCopy => handled' > handled]_vars
  <2>1. SUFFICES ASSUME Inv, HandleCopy PROVE handled' > handled
    OBVIOUS
  <2>2. PICK k \in 1 .. Len(cb) : Body(cb[k]) /\ handled' = cb[k].frame
    BY <2>1, Handled DEF Inv, Frames
  <2>3. phase # "wipe"
    BY <2>1 DEF HandleCopy
  <2>4. QED
    BY <2>1, <2>2, <2>3 DEF Inv, Frames, FramesOrdered
<1>2. QED
  BY <1>1, InvAlways, PTL DEF Spec, HandledOnce

\* As long as every command has ended with its answer, or that has been made
\* good, the reply that ends a command (esp.c:37-39) is its own; where it is no
\* reply, it is the text of a message.
THEOREM AnswersCorrect == Spec => AnswersMatch
<1>1. Inv /\ [Next]_vars =>
        [/\ PollOk /\ gaveUp = "no" =>
              First("OK", cb).cmd = cmd \/ First("OK", cb).frame # 0
         /\ PollError /\ gaveUp = "no" =>
              First("ERROR", cb).cmd = cmd \/ First("ERROR", cb).frame # 0]_vars
  <2>1. SUFFICES ASSUME Inv, NEW word \in {"OK", "ERROR"}, Has(word, cb),
                        phase = "wait", gaveUp = "no",
                        First(word, cb).frame = 0
                 PROVE  First(word, cb).cmd = cmd
    BY DEF PollOk, PollError
  <2>2. PICK k \in 1 .. Len(cb) : First(word, cb) = cb[k] /\ Final(cb[k])
    BY <2>1, EndedByReply DEF Inv
  <2>3. cb[k].cmd = cmd
    BY <2>1, <2>2 DEF Inv, Own, AnswersOwn, OneAnswer
  <2>4. QED
    BY <2>2, <2>3
<1>2. QED
  BY <1>1, InvAlways, PTL DEF Spec, AnswersMatch

\* No message overtakes the login on a new connection (esp.c:146-156), so the
\* server refuses one only for an old session or after a command that has ended
\* without its answer, when that has not been made good.
THEOREM LoginCorrect == Spec => LoginFirst
<1>1. Inv /\ [Next]_vars =>
        [srv = "fresh" /\ srv' = "refused"
           => oldsession = "yes" \/ gaveUp = "yes"]_vars
  <2>1. SUFFICES ASSUME Inv, [Next]_vars, srv = "fresh", srv' = "refused",
                        oldsession # "yes", gaveUp # "yes"
                 PROVE  FALSE
    OBVIOUS
  <2>2. gaveUp = "no" /\ oldsession = "no"
    BY <2>1 DEF Inv, TypeOK
  <2>3. Deliver
    BY <2>1 DEF Next, vars, server, Command, Handle, Transmit, PollOk,
       PollError, GiveUp, HandleCopy, HandleWipe, StatusDue, SampleDue, Receive,
       Module, Connect, Refuse, Prompt, Report, ServerSends, ServerCloses,
       LinkLost, OldSessionEnds
  <2>4. module # "LOGIN" /\ module \in Outgoing
    BY <2>1, <2>2, <2>3 DEF Deliver, Reaches
  <2>5. module = cmd /\ phase = "wait"
    BY <2>1, <2>2, <2>3, AnswerJoined DEF Inv, Module
  <2>6. cmd = "CIPSEND"
    BY <2>1, <2>2, <2>4, <2>5 DEF Inv, Own, LoginNext, Outgoing, Payloads
  <2>7. QED
    BY <2>4, <2>5, <2>6 DEF Outgoing, Payloads
<1>2. QED
  BY <1>1, InvAlways, PTL DEF Spec, LoginFirst

==============================================================================
