----------------------------- MODULE MessageParse -----------------------------
(***************************************************************************)
(* How the relay server takes a message apart, cms_server.c:257-285.       *)
(*                                                                         *)
(* Every session thread reads into a buffer of its own and cuts it into    *)
(* words with strtok, which remembers where to go on in ONE variable of    *)
(* the C library.  The words are pointers, kept in the thread's pCommand   *)
(* from one message to the next.  The acceptor does the same with a login  *)
(* line (161-174) and is one of the Parsers.                               *)
(*                                                                         *)
(* A pointer is the buffer it points into and the number of the word; what *)
(* the words say does not matter.  A position that another message has     *)
(* been read over is taken to be at the start of the word of its number.   *)
(***************************************************************************)
EXTENDS Integers

CONSTANTS
  Parsers,           \* the threads that parse, each with its own buffer
  COMMAND_MAX_COUNT, \* words kept of one message
  MaxFields,         \* bound: words in a message
  NULL

\* pCommand has room for the words of [cmd:to]text.
ASSUME FieldsAssumption ==
  /\ COMMAND_MAX_COUNT \in Nat /\ COMMAND_MAX_COUNT >= 3
  /\ MaxFields \in Nat \ {0}

Places == Parsers \X (1 .. MaxFields + 1)
ASSUME NullAssumption == NULL \notin Places

VARIABLES
  pc,         \* where each parser is in its loop
  fields,     \* words in its buffer, 0 once the buffer has been cleared
  pCommand,   \* the words it has found
  i,          \* how many of them belong to this message
  olds,       \* where strtok goes on, for everybody
  place,      \* where the strtok call of each parser has found olds
  overlapped, \* another parser has moved olds during this parse (history)
  alive       \* FALSE once a NULL has been compared with a name

parse == <<pCommand, i, place>>
vars == <<pc, fields, parse, olds, overlapped, alive>>

Parsing(t) == pc[t] \in {"next", "take"}

\* Parser t has moved olds: all others that are parsing are overlapped.
Overlap(t) ==
  overlapped' = [u \in Parsers |->
                   IF u = t THEN overlapped[t] ELSE overlapped[u] \/ Parsing(u)]

\* read() into the cleared buffer.  [cmd:to]text has three words or more, but
\* the Wi-Fi node answers SENSOR and LED requests with the one word "[SENSOR"
\* or "[LED", and a prompt of cms_client.c left empty at the end of its input
\* yields two words.  No client sends a message without any.
Read(t) ==
  /\ alive /\ pc[t] = "read"
  /\ \E n \in 1 .. MaxFields : fields' = [fields EXCEPT ![t] = n]
  /\ pc' = [pc EXCEPT ![t] = "first"]
  /\ UNCHANGED <<parse, olds, overlapped, alive>>

\* Mutant: strtok(NULL, ...) from the first word on.
FirstGoesOn(t) ==
  /\ alive /\ pc[t] = "first"
  /\ i' = [i EXCEPT ![t] = 0]
  /\ overlapped' = [overlapped EXCEPT ![t] = FALSE]
  /\ pc' = [pc EXCEPT ![t] = "next"]
  /\ UNCHANGED <<fields, pCommand, place, olds, alive>>

\* Mutant: the count of words starts one too high.
FirstCountsTwo(t) ==
  /\ alive /\ pc[t] = "first"
  /\ pCommand' = [pCommand EXCEPT ![t][1] = <<t, 1>>]
  /\ i' = [i EXCEPT ![t] = 2]
  /\ olds' = <<t, 2>>
  /\ overlapped' = [u \in Parsers |->
                      u # t /\ (overlapped[u] \/ Parsing(u))]
  /\ pc' = [pc EXCEPT ![t] = "next"]
  /\ UNCHANGED <<fields, place, alive>>

\* pCommand[0] = strtok(buffer, ...).
First(t) ==
  /\ alive /\ pc[t] = "first"
  /\ pCommand' = [pCommand EXCEPT ![t][1] = <<t, 1>>]
  /\ i' = [i EXCEPT ![t] = 1]
  /\ olds' = <<t, 2>>
  /\ overlapped' = [u \in Parsers |->
                      u # t /\ (overlapped[u] \/ Parsing(u))]
  /\ pc' = [pc EXCEPT ![t] = "next"]
  /\ UNCHANGED <<fields, place, alive>>

\* strtok(NULL, ...) looks up where to go on ...
LookUp(t) ==
  /\ alive /\ pc[t] = "next"
  /\ place' = [place EXCEPT ![t] = olds]
  /\ pc' = [pc EXCEPT ![t] = "take"]
  /\ UNCHANGED <<fields, pCommand, i, olds, overlapped, alive>>

\* Mutant: the limit is tested before the count goes up.
TakeOneTooMany(t) ==
  /\ alive /\ pc[t] = "take"
  /\ IF place[t][2] <= fields[place[t][1]]
     THEN /\ pCommand' = [pCommand EXCEPT ![t][i[t] + 1] = place[t]]
          /\ i' = [i EXCEPT ![t] = @ + 1]
          /\ olds' = <<place[t][1], place[t][2] + 1>>
          /\ pc' = [pc EXCEPT ![t] = IF i[t] >= COMMAND_MAX_COUNT
                                     THEN "relay" ELSE "next"]
     ELSE /\ olds' = place[t]
          /\ pc' = [pc EXCEPT ![t] = "relay"]
          /\ UNCHANGED <<pCommand, i>>
  /\ place' = [place EXCEPT ![t] = NULL]
  /\ Overlap(t)
  /\ UNCHANGED <<fields, alive>>

\* Mutant: strtok does not move on behind the word it returns.
TakeRepeats(t) ==
  /\ alive /\ pc[t] = "take"
  /\ IF place[t][2] <= fields[place[t][1]]
     THEN /\ pCommand' = [pCommand EXCEPT ![t][i[t] + 1] = place[t]]
          /\ i' = [i EXCEPT ![t] = @ + 1]
          /\ olds' = place[t]
          /\ pc' = [pc EXCEPT ![t] = IF i[t] + 1 >= COMMAND_MAX_COUNT
                                     THEN "relay" ELSE "next"]
     ELSE /\ olds' = place[t]
          /\ pc' = [pc EXCEPT ![t] = "relay"]
          /\ UNCHANGED <<pCommand, i>>
  /\ place' = [place EXCEPT ![t] = NULL]
  /\ Overlap(t)
  /\ UNCHANGED <<fields, alive>>

\* ... and finds a word there, or the end of the message.
Take(t) ==
  /\ alive /\ pc[t] = "take"
  /\ IF place[t][2] <= fields[place[t][1]]
     THEN /\ pCommand' = [pCommand EXCEPT ![t][i[t] + 1] = place[t]]
          /\ i' = [i EXCEPT ![t] = @ + 1]
          /\ olds' = <<place[t][1], place[t][2] + 1>>
          /\ pc' = [pc EXCEPT ![t] = IF i[t] + 1 >= COMMAND_MAX_COUNT
                                     THEN "relay" ELSE "next"]
     ELSE /\ olds' = place[t]
          /\ pc' = [pc EXCEPT ![t] = "relay"]
          /\ UNCHANGED <<pCommand, i>>
  /\ place' = [place EXCEPT ![t] = NULL]
  /\ Overlap(t)
  /\ UNCHANGED <<fields, alive>>

\* The words are used, and where a message is too short what pCommand has kept
\* of earlier ones.  A NULL as the addressee stops the process in strcmp (the
\* sender's own slot is taken, so the comparison is reached).
\* Then the buffer is cleared for the next read().
Relay(t) ==
  /\ alive /\ pc[t] = "relay"
  /\ alive' = (pCommand[t][2] # NULL)
  /\ fields' = [fields EXCEPT ![t] = 0]
  /\ pc' = [pc EXCEPT ![t] = "read"]
  /\ UNCHANGED <<parse, olds, overlapped>>

Init ==
  /\ pc = [t \in Parsers |-> "read"]
  /\ fields = [t \in Parsers |-> 0]
  /\ pCommand = [t \in Parsers |-> [n \in 1 .. COMMAND_MAX_COUNT |-> NULL]]
  /\ i = [t \in Parsers |-> 0]
  /\ olds = NULL
  /\ place = [t \in Parsers |-> NULL]
  /\ overlapped = [t \in Parsers |-> FALSE]
  /\ alive = TRUE

Next == \E t \in Parsers :
          Read(t) \/ First(t) \/ LookUp(t) \/ Take(t) \/ Relay(t)

Spec == Init /\ [][Next]_vars

-----------------------------------------------------------------------------
(* Properties. *)

\* Every variable has its type: no parse writes past the end of pCommand, and
\* strtok never goes on from nowhere or from beyond a message.
TypeOK ==
  /\ pc \in [Parsers -> {"read", "first", "next", "take", "relay"}]
  /\ fields \in [Parsers -> 0 .. MaxFields]
  /\ pCommand \in
       [Parsers -> [1 .. COMMAND_MAX_COUNT -> Places \cup {NULL}]]
  /\ i \in [Parsers -> 0 .. COMMAND_MAX_COUNT]
  /\ olds \in Places \cup {NULL}
  /\ place \in [Parsers -> Places \cup {NULL}]
  /\ overlapped \in [Parsers -> BOOLEAN]
  /\ alive \in BOOLEAN
  /\ \A t \in Parsers :
       /\ pc[t] = "next" => olds # NULL
       /\ pc[t] = "take" => place[t] # NULL /\ olds # NULL
       /\ Parsing(t) => i[t] < COMMAND_MAX_COUNT

\* The words a message of parser t should yield.
Kept(t) == IF fields[t] < COMMAND_MAX_COUNT THEN fields[t]
                                            ELSE COMMAND_MAX_COUNT

\* A parse that no other has overlapped finds the words of its own message in
\* their order, and misses none but those there is no room for.  (Behind the
\* words of a short message pCommand still holds those of earlier ones.)
AloneParsesOwn ==
  \A t \in Parsers : pc[t] = "relay" /\ ~overlapped[t] =>
    /\ i[t] = Kept(t)
    /\ \A n \in 1 .. Kept(t) : pCommand[t][n] = <<t, n>>

\* Whatever the others do, the command of a message is its own.
CommandIsOwn ==
  \A t \in Parsers : pc[t] \in {"next", "take", "relay"} =>
    pCommand[t][1] = <<t, 1>>

\* Only two kinds of message end the process: one whose parse another has
\* overlapped, and one that has no second word.  Clients that take turns and
\* name an addressee never do, short messages after long ones included.
DiesOnlyMixedOrShort ==
  [][alive /\ ~alive' =>
       \E t \in Parsers :
         pc[t] = "relay" /\ (overlapped[t] \/ fields[t] < 2)]_vars

\* What the prompt of cms_client.c says of [cmd:to]text: a message goes to the
\* addressee that it names.
AddresseeIsOwn ==
  \A t \in Parsers : pc[t] = "relay" /\ fields[t] >= 2 =>
    pCommand[t][2] = <<t, 2>>

==============================================================================
