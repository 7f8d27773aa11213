-------------------------- MODULE MessageParseProofs --------------------------
(***************************************************************************)
(* Proofs about MessageParse, for every set of parsers and every size of   *)
(* message and of pCommand.                                                *)
(***************************************************************************)
EXTENDS MessageParse, TLAPS

-----------------------------------------------------------------------------
(* The inductive invariant. *)

\* From the first word to the last, a parser counts at least one word, holds a
\* message, and has its own command.
Begun ==
  \A t \in Parsers :
    /\ pc[t] \in {"first", "next", "take", "relay"} => fields[t] >= 1
    /\ pc[t] \in {"next", "take", "relay"} => i[t] >= 1
    /\ pc[t] \in {"next", "take", "relay"} => pCommand[t][1] = <<t, 1>>

\* While nobody has moved olds since its first word, a parser has found its
\* own words and goes on at the next.
Alone ==
  \A t \in Parsers : ~overlapped[t] =>
    /\ pc[t] \in {"next", "take", "relay"} =>
         /\ i[t] <= fields[t]
         /\ \A n \in 1 .. i[t] : pCommand[t][n] = <<t, n>>
    /\ pc[t] \in {"next", "take"} => olds = <<t, i[t] + 1>>
    /\ pc[t] = "take" => place[t] = olds
    /\ pc[t] = "relay" => i[t] = Kept(t)

Inv == TypeOK /\ Begun /\ Alone

LEMMA InvInit == Init => Inv
BY FieldsAssumption DEF Init, Inv, TypeOK, Begun, Alone, Parsing

\* A step of parser t leaves what is said of the others as it was, but for olds
\* and overlapped.
LEMMA InvRead == ASSUME NEW t \in Parsers, Inv, Read(t) PROVE Inv'
<1>1. TypeOK'
  BY FieldsAssumption DEF Inv, TypeOK, Read, parse, Parsing
<1>2. Begun'
  BY FieldsAssumption DEF Inv, TypeOK, Begun, Read, parse
<1>3. Alone'
  BY FieldsAssumption DEF Inv, TypeOK, Alone, Read, parse, Kept
<1>4. QED
  BY <1>1, <1>2, <1>3 DEF Inv

LEMMA InvFirst == ASSUME NEW t \in Parsers, Inv, First(t) PROVE Inv'
<1>1. <<t, 1>> \in Places /\ <<t, 2>> \in Places
  BY FieldsAssumption DEF Places
<1>0. /\ pCommand' = [pCommand EXCEPT ![t][1] = <<t, 1>>]
      /\ i' = [i EXCEPT ![t] = 1]
      /\ olds' = <<t, 2>>
      /\ overlapped' = [u \in Parsers |->
                          u # t /\ (overlapped[u] \/ Parsing(u))]
      /\ pc' = [pc EXCEPT ![t] = "next"]
      /\ UNCHANGED <<fields, place, alive>>
  BY DEF First
<1>3. pCommand'[t][1] = <<t, 1>> /\ i'[t] = 1 /\ ~overlapped'[t]
  <2>1. 1 \in 1 .. COMMAND_MAX_COUNT
    BY FieldsAssumption
  <2>2. pCommand'[t][1] = <<t, 1>>
    BY <1>0, <2>1 DEF Inv, TypeOK
  <2>3. i'[t] = 1 /\ ~overlapped'[t]
    BY <1>0 DEF Inv, TypeOK
  <2>4. QED
    BY <2>2, <2>3
<1>4. \A u \in Parsers \ {t} :
        /\ pCommand'[u] = pCommand[u] /\ i'[u] = i[u] /\ pc'[u] = pc[u]
        /\ overlapped'[u] = (overlapped[u] \/ Parsing(u))
  BY DEF Inv, TypeOK, First
<1>2. TypeOK'
  <2>1. pCommand' \in [Parsers -> [1 .. COMMAND_MAX_COUNT
                                      -> Places \cup {NULL}]]
    BY <1>0, <1>1 DEF Inv, TypeOK
  <2>2. i' \in [Parsers -> 0 .. COMMAND_MAX_COUNT]
    BY <1>0, FieldsAssumption DEF Inv, TypeOK
  <2>3. overlapped' \in [Parsers -> BOOLEAN]
    BY <1>0
  <2>4. olds' \in Places /\ olds' # NULL
    BY <1>0, <1>1, NullAssumption
  <2>5. pc' \in [Parsers -> {"read", "first", "next", "take", "relay"}]
    BY <1>0 DEF Inv, TypeOK
  <2>6. ASSUME NEW u \in Parsers, Parsing(u)' PROVE i'[u] < COMMAND_MAX_COUNT
    <3>1. CASE u = t
      BY <1>3, <3>1, FieldsAssumption
    <3>2. CASE u # t
      BY <1>4, <2>6, <3>2 DEF Inv, TypeOK, Parsing
    <3>3. QED
      BY <3>1, <3>2
  <2>7. \A u \in Parsers : pc'[u] = "take" => place'[u] # NULL
    BY <1>0, <1>4 DEF Inv, TypeOK
  <2>8. QED
    BY <1>0, <2>1, <2>2, <2>3, <2>4, <2>5, <2>6, <2>7 DEF Inv, TypeOK
<1>5. Begun'
  BY <1>3, <1>4, FieldsAssumption DEF Inv, TypeOK, Begun, First, Parsing
<1>6. Alone'
  <2> SUFFICES ASSUME NEW u \in Parsers, ~overlapped'[u]
               PROVE  /\ pc'[u] \in {"next", "take", "relay"} =>
                           /\ i'[u] <= fields'[u]
                           /\ \A n \in 1 .. i'[u] :
                                pCommand'[u][n] = <<u, n>>
                      /\ pc'[u] \in {"next", "take"} =>
                           olds' = <<u, i'[u] + 1>>
                      /\ pc'[u] = "take" => place'[u] = olds'
                      /\ pc'[u] = "relay" => i'[u] = Kept(u)'
    BY DEF Alone
  <2>1. CASE u = t
    <3>1. fields[t] \in Nat /\ fields[t] >= 1 /\ pc'[t] = "next"
      BY <1>0 DEF Inv, TypeOK, Begun, First
    <3>2. QED
      BY <1>0, <1>3, <2>1, <3>1
  <2>2. CASE u # t
    <3>1. ~overlapped[u] /\ pc[u] \notin {"next", "take"}
      BY <1>4, <2>2 DEF Parsing
    <3>2. QED
      BY <1>0, <1>4, <2>2, <3>1 DEF Inv, Alone, Kept
  <2>3. QED
    BY <2>1, <2>2
<1>7. QED
  BY <1>2, <1>5, <1>6 DEF Inv

LEMMA InvLookUp == ASSUME NEW t \in Parsers, Inv, LookUp(t) PROVE Inv'
<1>1. TypeOK'
  BY DEF Inv, TypeOK, LookUp, Parsing
<1>2. Begun'
  BY DEF Inv, TypeOK, Begun, LookUp
<1>3. Alone'
  BY DEF Inv, TypeOK, Alone, LookUp, Kept
<1>4. QED
  BY <1>1, <1>2, <1>3 DEF Inv

LEMMA InvTake == ASSUME NEW t \in Parsers, Inv, Take(t) PROVE Inv'
<1>1. place[t] \in Places /\ pc[t] = "take"
  BY DEF Inv, TypeOK, Take
<1>2. PICK b \in Parsers, k \in 1 .. MaxFields + 1 : place[t] = <<b, k>>
  BY <1>1 DEF Places
<1>3. /\ fields[b] \in 0 .. MaxFields /\ fields[t] \in 0 .. MaxFields
      /\ i[t] \in 1 .. COMMAND_MAX_COUNT - 1
  BY <1>1, FieldsAssumption DEF Inv, TypeOK, Begun, Parsing
<1>4. \A u \in Parsers \ {t} :
        /\ pCommand'[u] = pCommand[u] /\ i'[u] = i[u] /\ pc'[u] = pc[u]
        /\ overlapped'[u] = (overlapped[u] \/ Parsing(u))
  BY DEF Inv, TypeOK, Take, Overlap
<1>5. overlapped'[t] = overlapped[t]
  BY DEF Inv, TypeOK, Take, Overlap
<1>6. CASE k <= fields[b]
  <2>1. /\ pCommand' = [pCommand EXCEPT ![t][i[t] + 1] = <<b, k>>]
        /\ i' = [i EXCEPT ![t] = i[t] + 1]
        /\ olds' = <<b, k + 1>>
        /\ pc' = [pc EXCEPT ![t] = IF i[t] + 1 >= COMMAND_MAX_COUNT
                                   THEN "relay" ELSE "next"]
    BY <1>2, <1>6 DEF Take
  <2>2. <<b, k + 1>> \in Places /\ i[t] + 1 \in 1 .. COMMAND_MAX_COUNT
    BY <1>3, <1>6, FieldsAssumption DEF Places
  <2>3. /\ i'[t] = i[t] + 1 /\ pc'[t] \in {"relay", "next"}
        /\ pc'[t] = "relay" <=> i[t] + 1 >= COMMAND_MAX_COUNT
        /\ i'[t] < COMMAND_MAX_COUNT \/ pc'[t] = "relay"
        /\ pCommand'[t][i[t] + 1] = <<b, k>>
        /\ \A n \in 1 .. i[t] : pCommand'[t][n] = pCommand[t][n]
    <3>1. /\ i[t] \in Int /\ COMMAND_MAX_COUNT \in Int
          /\ pCommand[t] \in [1 .. COMMAND_MAX_COUNT -> Places \cup {NULL}]
      BY <1>3, FieldsAssumption DEF Inv, TypeOK
    <3>2. i'[t] = i[t] + 1
      BY <2>1 DEF Inv, TypeOK
    <3>3. pc'[t] = IF i[t] + 1 >= COMMAND_MAX_COUNT THEN "relay" ELSE "next"
      BY <2>1 DEF Inv, TypeOK
    <3>4. pCommand'[t] = [pCommand[t] EXCEPT ![i[t] + 1] = <<b, k>>]
      BY <2>1 DEF Inv, TypeOK
    <3>5. /\ pCommand'[t][i[t] + 1] = <<b, k>>
          /\ \A n \in 1 .. i[t] : pCommand'[t][n] = pCommand[t][n]
      BY <1>3, <2>2, <3>1, <3>4
    <3>6. QED
      BY <3>1, <3>2, <3>3, <3>5
  <2>4. TypeOK'
    <3>1. pCommand' \in [Parsers -> [1 .. COMMAND_MAX_COUNT
                                       -> Places \cup {NULL}]]
      BY <1>1, <1>2, <2>1, <2>2 DEF Inv, TypeOK
    <3>2. /\ pc' \in [Parsers -> {"read", "first", "next", "take", "relay"}]
          /\ i' \in [Parsers -> 0 .. COMMAND_MAX_COUNT]
      BY <2>1, <2>2 DEF Inv, TypeOK
    <3>7. olds' \in Places /\ olds' # NULL
      BY <2>1, <2>2, NullAssumption
    <3>3. \A u \in Parsers : Parsing(u)' => i'[u] < COMMAND_MAX_COUNT
      BY <1>3, <1>4, <2>3 DEF Inv, TypeOK, Parsing
    <3>4. /\ fields' = fields /\ alive' = alive
          /\ place' \in [Parsers -> Places \cup {NULL}]
          /\ \A u \in Parsers \ {t} : place'[u] = place[u]
          /\ overlapped' \in [Parsers -> BOOLEAN]
      BY DEF Take, Overlap, Inv, TypeOK, Parsing
    <3>5. \A u \in Parsers : pc'[u] = "take" => place'[u] # NULL
      BY <1>4, <2>3, <3>4 DEF Inv, TypeOK
    <3>6. QED
      BY <3>1, <3>2, <3>3, <3>4, <3>5, <3>7 DEF Inv, TypeOK
  <2>5. ~overlapped[t] => b = t /\ k = i[t] + 1
    BY <1>1, <1>2 DEF Inv, Alone
  <2>6. Begun'
    <3>1. fields' = fields
      BY DEF Take
    <3>2. i[t] >= 1 /\ i[t] + 1 >= 1 /\ 1 \in 1 .. i[t]
      BY <1>3, FieldsAssumption
    <3>3. pCommand'[t][1] = <<t, 1>> /\ fields[t] >= 1
      BY <1>1, <2>3, <3>2 DEF Inv, Begun
    <3>4. QED
      BY <1>4, <2>3, <3>1, <3>2, <3>3 DEF Inv, Begun
  <2>7. Alone'
    <3> SUFFICES ASSUME NEW u \in Parsers, ~overlapped'[u]
                 PROVE  /\ pc'[u] \in {"next", "take", "relay"} =>
                             /\ i'[u] <= fields'[u]
                             /\ \A n \in 1 .. i'[u] :
                                  pCommand'[u][n] = <<u, n>>
                        /\ pc'[u] \in {"next", "take"} =>
                             olds' = <<u, i'[u] + 1>>
                        /\ pc'[u] = "take" => place'[u] = olds'
                        /\ pc'[u] = "relay" => i'[u] = Kept(u)'
      BY DEF Alone
    <3>1. CASE u = t
      <4>1. \A n \in 1 .. i[t] : pCommand[t][n] = <<t, n>>
        BY <1>1, <1>5, <3>1 DEF Inv, Alone
      <4>2. \A n \in 1 .. i'[t] : pCommand'[t][n] = <<t, n>>
        BY <1>3, <1>5, <2>3, <2>5, <3>1, <4>1
      <4>3. pc'[t] = "relay" => i'[t] = Kept(t)'
        BY <1>3, <1>5, <1>6, <2>3, <2>5, <3>1, FieldsAssumption
        DEF Kept, Take
      <4>4. pc'[t] = "next" => olds' = <<t, i'[t] + 1>>
        BY <1>5, <2>1, <2>3, <2>5, <3>1
      <4>5. i'[t] <= fields'[t]
        BY <1>3, <1>5, <1>6, <2>3, <2>5, <3>1 DEF Take
      <4>6. QED
        BY <2>3, <3>1, <4>2, <4>3, <4>4, <4>5
    <3>2. CASE u # t
      <4>1. ~overlapped[u] /\ pc[u] \notin {"next", "take"}
        BY <1>4, <3>2 DEF Parsing
      <4>2. QED
        BY <1>4, <3>2, <4>1 DEF Inv, Alone, Kept, Take
    <3>3. QED
      BY <3>1, <3>2
  <2>8. QED
    BY <2>4, <2>6, <2>7 DEF Inv
<1>7. CASE k > fields[b]
  <2>1. /\ pCommand' = pCommand /\ i' = i /\ olds' = <<b, k>>
        /\ pc' = [pc EXCEPT ![t] = "relay"]
    BY <1>2, <1>3, <1>7 DEF Take
  <2>2. TypeOK'
    BY <1>1, <1>2, <2>1, NullAssumption
    DEF Inv, TypeOK, Take, Overlap, Parsing
  <2>3. ~overlapped[t] => b = t /\ k = i[t] + 1
    BY <1>1, <1>2 DEF Inv, Alone
  <2>4. Begun'
    BY <1>1, <1>4, <1>5, <2>1 DEF Inv, TypeOK, Begun, Take, Parsing
  <2>5. Alone'
    <3> SUFFICES ASSUME NEW u \in Parsers, ~overlapped'[u]
                 PROVE  /\ pc'[u] \in {"next", "take", "relay"} =>
                             /\ i'[u] <= fields'[u]
                             /\ \A n \in 1 .. i'[u] :
                                  pCommand'[u][n] = <<u, n>>
                        /\ pc'[u] \in {"next", "take"} =>
                             olds' = <<u, i'[u] + 1>>
                        /\ pc'[u] = "take" => place'[u] = olds'
                        /\ pc'[u] = "relay" => i'[u] = Kept(u)'
      BY DEF Alone
    <3>1. CASE u = t
      <4>1. \A n \in 1 .. i[t] : pCommand[t][n] = <<t, n>>
        BY <1>1, <1>5, <3>1 DEF Inv, Alone
      <4>2. i[t] = fields[t] /\ i[t] < COMMAND_MAX_COUNT
        <5>1. i[t] <= fields[t] /\ i[t] + 1 > fields[t]
          BY <1>1, <1>5, <1>7, <2>3, <3>1 DEF Inv, Alone
        <5>2. QED
          BY <1>3, <5>1, FieldsAssumption
      <4>3. pc'[t] = "relay" /\ fields' = fields
        BY <2>1 DEF Inv, TypeOK, Take
      <4>4. QED
        BY <1>3, <2>1, <3>1, <4>1, <4>2, <4>3 DEF Kept
    <3>2. CASE u # t
      <4>1. ~overlapped[u] /\ pc[u] \notin {"next", "take"}
        BY <1>4, <3>2 DEF Parsing
      <4>2. QED
        BY <1>4, <3>2, <4>1 DEF Inv, Alone, Kept, Take
    <3>3. QED
      BY <3>1, <3>2
  <2>6. QED
    BY <2>2, <2>4, <2>5 DEF Inv
<1>8. QED
  BY <1>3, <1>6, <1>7

LEMMA InvRelay == ASSUME NEW t \in Parsers, Inv, Relay(t) PROVE Inv'
<1>1. TypeOK'
  BY FieldsAssumption DEF Inv, TypeOK, Relay, parse, Parsing
<1>2. Begun'
  BY DEF Inv, TypeOK, Begun, Relay, parse
<1>3. Alone'
  BY DEF Inv, TypeOK, Alone, Relay, parse, Kept
<1>4. QED
  BY <1>1, <1>2, <1>3 DEF Inv

LEMMA InvNext == Inv /\ [Next]_vars => Inv'
<1>1. Inv /\ UNCHANGED vars => Inv'
  BY DEF Inv, TypeOK, Begun, Alone, Kept, Parsing, vars, parse
<1>2. QED
  BY <1>1, InvRead, InvFirst, InvLookUp, InvTake, InvRelay DEF Next

LEMMA InvCorrect == Spec => []Inv
BY InvInit, InvNext, PTL DEF Spec

-----------------------------------------------------------------------------
(* What follows. *)

\* No parse writes past pCommand or goes on from nowhere.
THEOREM TypeCorrect == Spec => []TypeOK
BY InvCorrect, PTL DEF Inv

\* A parse that no other overlaps finds the words of its message, in order, up
\* to the limit of pCommand.
THEOREM AloneCorrect == Spec => []AloneParsesOwn
<1>1. Inv => AloneParsesOwn
  BY DEF Inv, Alone, AloneParsesOwn
<1>2. QED
  BY <1>1, InvCorrect, PTL

\* No other parse can change the command of a message.
THEOREM CommandCorrect == Spec => []CommandIsOwn
<1>1. Inv => CommandIsOwn
  BY DEF Inv, Begun, CommandIsOwn
<1>2. QED
  BY <1>1, InvCorrect, PTL

\* The process is ended by a parse only that another has overlapped or that has
\* one word only: otherwise the addressee is the second word of the message.
THEOREM DeathNeedsCause == Spec => DiesOnlyMixedOrShort
<1>1. Inv /\ [Next]_vars =>
        [alive /\ ~alive' =>
           \E t \in Parsers :
             pc[t] = "relay" /\ (overlapped[t] \/ fields[t] < 2)]_vars
  <2> SUFFICES ASSUME Inv, Next, alive, ~alive'
               PROVE  \E t \in Parsers :
                        pc[t] = "relay" /\ (overlapped[t] \/ fields[t] < 2)
    BY DEF vars
  <2>1. PICK t \in Parsers : Relay(t)
    BY DEF Next, Read, First, LookUp, Take
  <2>2. pc[t] = "relay" /\ pCommand[t][2] = NULL
    BY <2>1 DEF Relay
  <2>3. ASSUME ~overlapped[t] PROVE fields[t] < 2
    <3>1. SUFFICES ASSUME fields[t] >= 2 PROVE FALSE
      BY DEF Inv, TypeOK
    <3>2. i[t] = Kept(t) /\ fields[t] \in Nat
      BY <2>2, <2>3 DEF Inv, TypeOK, Alone
    <3>3. 2 \in 1 .. i[t]
      BY <3>1, <3>2, FieldsAssumption DEF Kept
    <3>4. pCommand[t][2] = <<t, 2>>
      BY <2>2, <2>3, <3>3 DEF Inv, Alone
    <3>5. <<t, 2>> \in Places
      BY FieldsAssumption DEF Places
    <3>6. QED
      BY <2>2, <3>4, <3>5, NullAssumption
  <2>4. QED
    BY <2>2, <2>3
<1>2. QED
  BY <1>1, InvCorrect, PTL DEF Spec, DiesOnlyMixedOrShort

=============================================================================
