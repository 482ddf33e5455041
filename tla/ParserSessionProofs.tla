------------------------ MODULE ParserSessionProofs ------------------------
(***************************************************************************)
(* Proofs about ParserSession, for any number of parsers, any files and    *)
(* any number of parses.                                                   *)
(*                                                                         *)
(* Parser::parse() never sets the start condition of its scanner.  But     *)
(* from the first token on that the LALR parser can use, the start         *)
(* condition is what the parser's place in the grammar says it is: only    *)
(* INITIAL gives a token that a statement can begin with, and each token   *)
(* that moves the parser into or out of "{{ }}" and "{% %}" moves the      *)
(* scanner as well.  A parse that succeeds ends where text may follow.     *)
(*                                                                         *)
(* A parse that starts from a clean scanner goes lexeme by lexeme abreast  *)
(* of that of a new process (Abreast).  What is left of the file and how   *)
(* it is scanned has a weight that each lexeme lowers, so that the new     *)
(* process has come to the end when the parse has.                         *)
(***************************************************************************)
EXTENDS ParserSession, Induction

InVariable == {"print", "print+"}
InBlock == {"block", "if", "if+", "elseif", "elseif+", "else", "end", "for", "for+",
            "iterable", "iterable+"}

\* The start conditions the scanner can be in when the parser is at a place.
ModesAt(at) ==
    IF at = "text" THEN {"INITIAL", "IN_COMMENT"}
    ELSE IF at \in InVariable THEN {"IN_VARIABLE"}
    ELSE {"IN_BLOCK"}

\* Types of what the start condition depends on.
ScannerTypes ==
    /\ mode \in [Parser -> Mode]
    /\ DOMAIN buffer = Parser
    /\ eofPending \in [Parser -> BOOLEAN]
    /\ running \in Parser \cup {None}
    /\ eatWhitespace \in BOOLEAN
    /\ stack.at \in {"text", "rejected"} \cup InVariable \cup InBlock

\* The history variable start is about the parse that runs, or ended last.
Current ==
    /\ running # None => /\ start.parser = running /\ outcome = "none"
                         /\ stack.at # "rejected"
    /\ outcome # "none" => start.parser \in Parser
    /\ tokens = <<>> => stack.at = "text"
    /\ tokens # <<>> => start.parser \in Parser

\* The scanner follows the parser.
InStep == tokens # <<>> /\ stack.at # "rejected" =>
             mode[start.parser] \in ModesAt(stack.at)

\* A parse that succeeded has scanned its whole file.
AllScanned == outcome = "ast" => /\ running = None /\ Accepts(stack)
                                 /\ buffer[start.parser] = <<>>
                                 /\ ~ eofPending[start.parser]

SessionInv == ScannerTypes /\ Current /\ InStep /\ AllScanned

-----------------------------------------------------------------------------
(***************************************************************************)
(* The operators.                                                          *)
(***************************************************************************)
\* Which tokens move the parser between text, variables and blocks.
LEMMA Moves ==
    ASSUME NEW mv \in Move
    PROVE  /\ mv[2] = "T_RAW" => mv[3] = "text"
           /\ mv[2] = "T_VARIABLE_START" => mv[3] \in InVariable
           /\ mv[2] = "T_BLOCK_START" => mv[3] \in InBlock
           /\ mv[2] \in {"T_VARIABLE_END", "T_BLOCK_END"} => mv[3] = "text"
           /\ mv[1] = "text" => mv[2] \in {"T_RAW", "T_VARIABLE_START", "T_BLOCK_START"}
           /\ mv[1] \in InVariable /\ mv[2] # "T_VARIABLE_END" => mv[3] \in InVariable
           /\ mv[1] \in InBlock /\ mv[2] # "T_BLOCK_END" => mv[3] \in InBlock
           /\ mv[3] \in {"text"} \cup InVariable \cup InBlock
<1>1. CASE \E e \in Operand : mv = <<e[1], "T_IDENTIFIER", e[2]>>
  BY <1>1 DEF Operand, InVariable, InBlock
<1>2. CASE \E e \in Operand : mv = <<e[1], "T_MINUS", e[1]>>
  BY <1>2 DEF Operand, InVariable, InBlock
<1>3. CASE \E e \in Operand, t \in {"T_MINUS", "T_MOD"} : mv = <<e[2], t, e[1]>>
  BY <1>3 DEF Operand, InVariable, InBlock
<1>4. CASE \E a \in {"if+", "elseif+", "iterable+", "else", "end"} :
              mv = <<a, "T_BLOCK_END", "text">>
  BY <1>4 DEF InVariable, InBlock
<1>5. CASE mv \in {<<"text", "T_RAW", "text">>, <<"text", "T_VARIABLE_START", "print">>,
                   <<"text", "T_BLOCK_START", "block">>,
                   <<"print+", "T_VARIABLE_END", "text">>}
  BY <1>5 DEF InVariable, InBlock
<1>6. CASE mv \in {<<"block", "if", "if">>, <<"block", "elseif", "elseif">>,
                   <<"block", "else", "else">>, <<"block", "endif", "end">>,
                   <<"block", "for", "for">>, <<"block", "endfor", "end">>,
                   <<"for", "T_IDENTIFIER", "for+">>, <<"for+", "in", "iterable">>,
                   <<"iterable", "T_IDENTIFIER", "iterable+">>}
  BY <1>6 DEF InVariable, InBlock
<1>. QED  BY <1>1, <1>2, <1>3, <1>4, <1>5, <1>6 DEF Move

\* A token that is not rejected makes one of the moves.
LEMMA ShiftedMoves ==
    ASSUME NEW st, NEW t, Shifted(st, t).at # "rejected"
    PROVE  \E mv \in Move : mv[1] = st.at /\ mv[2] = t /\ mv[3] = Shifted(st, t).at
<1>. DEFINE next == {move[3] : move \in {mv \in Move : mv[1] = st.at /\ mv[2] = t}}
<1>1. next # {} /\ Shifted(st, t).at = CHOOSE a \in next : TRUE
  BY DEF Shifted
<1>2. Shifted(st, t).at \in next
  BY <1>1
<1>. QED  BY <1>2

LEMMA ModesAreModes == ASSUME NEW m \in Mode, NEW x PROVE ModeAfter(m, x) \in Mode
BY DEF ModeAfter, Mode

\* A lexeme without a token leaves the scanner where the parser's place says.
LEMMA QuietMode ==
    ASSUME NEW at, NEW m \in ModesAt(at), NEW x, NEW eat \in BOOLEAN,
           TokenOf(m, x, eat) = NoToken
    PROVE  ModeAfter(m, x) \in ModesAt(at)
BY DEF ModesAt, TokenOf, ModeAfter, NoToken, Word

\* A token that the parser can use takes the scanner where it takes the parser.  The
\* first token is one of INITIAL, whatever the start condition was before the parse.
LEMMA TokenMode ==
    ASSUME NEW mv \in Move, NEW m \in Mode, NEW x, NEW eat \in BOOLEAN,
           mv[1] \in {"text"} \cup InVariable \cup InBlock,
           mv[1] = "text" \/ m \in ModesAt(mv[1]),
           mv[2] = TokenOf(m, x, eat)
    PROVE  ModeAfter(m, x) \in ModesAt(mv[3])
<1>1. CASE mv[1] = "text"
  <2>1. mv[2] \in {"T_RAW", "T_VARIABLE_START", "T_BLOCK_START"}
    BY <1>1, Moves
  <2>2. m = "INITIAL"
    BY <2>1 DEF TokenOf, Mode, Word, NoToken
  <2>3. /\ mv[2] = "T_RAW" => ModeAfter(m, x) = "INITIAL"
        /\ mv[2] = "T_VARIABLE_START" => ModeAfter(m, x) = "IN_VARIABLE"
        /\ mv[2] = "T_BLOCK_START" => ModeAfter(m, x) = "IN_BLOCK"
    BY <2>2 DEF TokenOf, ModeAfter, NoToken
  <2>4. /\ mv[2] = "T_RAW" => mv[3] = "text"
        /\ mv[2] = "T_VARIABLE_START" => mv[3] \in InVariable
        /\ mv[2] = "T_BLOCK_START" => mv[3] \in InBlock
    BY Moves
  <2>. QED  BY <2>1, <2>3, <2>4 DEF ModesAt, InVariable, InBlock
<1>2. CASE mv[1] \in InVariable
  <2>1. m = "IN_VARIABLE"
    BY <1>2 DEF ModesAt, InVariable
  <2>2. mv[2] = "T_VARIABLE_END" <=> x = "}}"
    BY <2>1 DEF TokenOf, NoToken, Word
  <2>3. ModeAfter(m, x) = IF x = "}}" THEN "INITIAL" ELSE "IN_VARIABLE"
    BY <2>1 DEF ModeAfter
  <2>4. IF x = "}}" THEN mv[3] = "text" ELSE mv[3] \in InVariable
    BY <1>2, <2>2, Moves
  <2>. QED  BY <2>3, <2>4 DEF ModesAt, InVariable
<1>3. CASE mv[1] \in InBlock
  <2>1. m = "IN_BLOCK"
    BY <1>3 DEF ModesAt, InVariable, InBlock
  <2>2. mv[2] = "T_BLOCK_END" <=> x \in {"%}", "%-}"}
    BY <2>1 DEF TokenOf, NoToken, Word
  <2>3. ModeAfter(m, x) = IF x \in {"%}", "%-}"} THEN "INITIAL" ELSE "IN_BLOCK"
    BY <2>1 DEF ModeAfter
  <2>4. IF x \in {"%}", "%-}"} THEN mv[3] = "text" ELSE mv[3] \in InBlock
    BY <1>3, <2>2, Moves
  <2>. QED  BY <2>3, <2>4 DEF ModesAt, InVariable, InBlock
<1>. QED  BY <1>1, <1>2, <1>3

-----------------------------------------------------------------------------
(***************************************************************************)
(* The invariant.                                                          *)
(***************************************************************************)
LEMMA InitSessionInv == ASSUME FileAssumption, Init PROVE SessionInv
BY DEF FileAssumption, Init, EmptyStack, SessionInv, ScannerTypes, Current, InStep,
       AllScanned, Mode

LEMMA ParseSessionInv ==
    ASSUME FileAssumption, SessionInv, NEW p \in Parser, NEW file \in File, Parse(p, file)
    PROVE  SessionInv'
BY DEF FileAssumption, Parse, EmptyStack, SessionInv, ScannerTypes, Current, InStep,
       AllScanned, Mode

\* What one lexeme does to the scanner and to the parser.
LEMMA ScanSessionInv ==
    ASSUME FileAssumption, SessionInv, Scan
    PROVE  SessionInv'
<1>. DEFINE p == running
            m == mode[p]
            x == Head(buffer[p])
            t == TokenOf(m, x, eatWhitespace)
<1>1. /\ p \in Parser /\ m \in Mode /\ eatWhitespace \in BOOLEAN
      /\ start.parser = p /\ outcome = "none"
      /\ stack.at \in {"text"} \cup InVariable \cup InBlock
      /\ tokens # <<>> => m \in ModesAt(stack.at)
      /\ tokens = <<>> => stack.at = "text"
  BY DEF Scan, SessionInv, ScannerTypes, Current, InStep
<1>2. /\ mode' = [mode EXCEPT ![p] = ModeAfter(m, x)]
      /\ DOMAIN buffer' = DOMAIN buffer
      /\ eatWhitespace' = EatAfter(m, x, eatWhitespace)
      /\ tokens' = IF t = NoToken THEN tokens ELSE Append(tokens, <<t, x>>)
      /\ stack' = IF t = NoToken THEN stack ELSE Shifted(stack, t)
      /\ start' = start
      /\ IF stack'.at = "rejected"
         THEN outcome' = "error" /\ running' = None
         ELSE UNCHANGED <<outcome, running, eofPending>>
  BY DEF Scan
<1>3. eofPending' \in [Parser -> BOOLEAN]
  <2>1. eofPending \in [Parser -> BOOLEAN]
    BY DEF SessionInv, ScannerTypes
  <2>2. CASE stack'.at = "rejected"
    <3>1. eofPending' = [eofPending EXCEPT ![p] = buffer'[p] = <<>> /\ LooksAhead(m, x)]
      BY <2>2 DEF Scan
    <3>2. (buffer'[p] = <<>> /\ LooksAhead(m, x)) \in BOOLEAN
      OBVIOUS
    <3>. QED  BY <2>1, <3>1, <3>2
  <2>. QED  BY <1>2, <2>1, <2>2
<1>4. mode' \in [Parser -> Mode] /\ mode'[p] = ModeAfter(m, x)
  BY <1>1, <1>2, ModesAreModes DEF SessionInv, ScannerTypes
<1>5. eatWhitespace' \in BOOLEAN
  BY <1>1, <1>2 DEF EatAfter
<1>6. t # NoToken => tokens' # <<>>
  BY <1>2
<1>. HIDE DEF x, t, m, p
<1>7. CASE t = NoToken
  <2>1. tokens' = tokens /\ stack' = stack
    BY <1>2, <1>7
  <2>2. tokens # <<>> => ModeAfter(m, x) \in ModesAt(stack.at)
    BY <1>1, <1>7, QuietMode DEF t
  <2>3. stack.at # "rejected"
    BY <1>1 DEF InVariable, InBlock
  <2>. QED  BY <1>1, <1>2, <1>3, <1>4, <1>5, <2>1, <2>2, <2>3
            DEF SessionInv, ScannerTypes, Current, InStep, AllScanned, p
<1>8. CASE t # NoToken /\ stack'.at = "rejected"
  BY <1>1, <1>2, <1>3, <1>4, <1>5, <1>6, <1>8
     DEF SessionInv, ScannerTypes, Current, InStep, AllScanned
<1>9. CASE t # NoToken /\ stack'.at # "rejected"
  <2>1. PICK mv \in Move : mv[1] = stack.at /\ mv[2] = t /\ mv[3] = stack'.at
    BY <1>2, <1>9, ShiftedMoves
  <2>2. ModeAfter(m, x) \in ModesAt(stack'.at)
    BY <1>1, <2>1, TokenMode DEF t
  <2>3. stack'.at \in {"text"} \cup InVariable \cup InBlock
    BY <2>1, Moves
  <2>. QED  BY <1>1, <1>2, <1>3, <1>4, <1>5, <1>6, <1>9, <2>2, <2>3
            DEF SessionInv, ScannerTypes, Current, InStep, AllScanned, p
<1>. QED  BY <1>7, <1>8, <1>9

LEMMA EndOfFileSessionInv ==
    ASSUME FileAssumption, SessionInv, EndOfFile
    PROVE  SessionInv'
BY DEF FileAssumption, EndOfFile, SessionInv, ScannerTypes, Current, InStep, AllScanned

\* The invariant holds in every process that parses files.
LEMMA SessionInvariant == Spec => []SessionInv
<1>1. Init => SessionInv
  BY FileAssumption, InitSessionInv
<1>2. SessionInv /\ [Next]_vars => SessionInv'
  <2>. SUFFICES ASSUME SessionInv, [Next]_vars PROVE SessionInv'
    OBVIOUS
  <2>1. CASE UNCHANGED vars
    BY <2>1 DEF vars, SessionInv, ScannerTypes, Current, InStep, AllScanned
  <2>. QED  BY <2>1, FileAssumption, ParseSessionInv, ScanSessionInv,
               EndOfFileSessionInv DEF Next
<1>. QED  BY <1>1, <1>2, PTL DEF Spec

\* A parse that succeeds leaves the scanner nothing to scan and no end of file to
\* report and, if it was given a token, the start condition of text or of a comment,
\* whatever the parses before it had left behind (Parser::parse() resets nothing).
THEOREM SuccessCleans == Spec => []SuccessCleansScanner
<1>1. SessionInv => SuccessCleansScanner
  BY DEF SessionInv, Current, InStep, AllScanned, Accepts, ModesAt, SuccessCleansScanner
<1>. QED  BY <1>1, SessionInvariant, PTL

-----------------------------------------------------------------------------
(***************************************************************************)
(* What a new process makes of a file.                                     *)
(***************************************************************************)
\* The runs of a given length exist.
LEMMA FreshRunUpTo ==
    ASSUME NEW file, NEW n \in Nat
    PROVE  \E g : g = [i \in 0 .. n |-> IF i = 0 THEN FreshStart(file)
                                                 ELSE FreshStep(g[i - 1])]
<1>1. PICK S : S = {k \in Nat : \E g : g = [i \in 0 .. k |-> IF i = 0 THEN FreshStart(file)
                                                           ELSE FreshStep(g[i - 1])]}
  OBVIOUS
<1>2. 0 \in S
  <2>1. PICK g : g = [i \in 0 .. 0 |-> FreshStart(file)]
    OBVIOUS
  <2>2. g = [i \in 0 .. 0 |-> IF i = 0 THEN FreshStart(file) ELSE FreshStep(g[i - 1])]
    BY <2>1
  <2>. QED  BY <1>1, <2>2
<1>3. ASSUME NEW k \in Nat, k \in S PROVE k + 1 \in S
  <2>1. PICK g : g = [i \in 0 .. k |-> IF i = 0 THEN FreshStart(file)
                                                ELSE FreshStep(g[i - 1])]
    BY <1>1, <1>3
  <2>2. PICK h : h = [i \in 0 .. k + 1 |-> IF i <= k THEN g[i] ELSE FreshStep(g[k])]
    OBVIOUS
  <2>3. /\ \A i \in 0 .. k : h[i] = g[i]
        /\ h[k + 1] = FreshStep(g[k]) /\ h[k] = g[k]
    BY <2>2
  <2>4. \A i \in 0 .. k : g[i] = IF i = 0 THEN FreshStart(file) ELSE FreshStep(g[i - 1])
    BY <2>1
  <2>5. ASSUME NEW i \in 0 .. k + 1
        PROVE  h[i] = IF i = 0 THEN FreshStart(file) ELSE FreshStep(h[i - 1])
    <3>1. CASE i = 0
      BY <2>3, <2>4, <3>1
    <3>2. CASE i \in 1 .. k
      <4>1. h[i - 1] = g[i - 1] /\ h[i] = g[i] /\ i \in 0 .. k /\ i # 0
        BY <2>3, <3>2
      <4>. QED  BY <2>4, <4>1
    <3>3. CASE i = k + 1
      <4>1. i - 1 = k /\ i # 0
        BY <3>3
      <4>. QED  BY <2>3, <3>3, <4>1
    <3>. QED  BY <3>1, <3>2, <3>3
  <2>6. h = [i \in 0 .. k + 1 |-> IF i = 0 THEN FreshStart(file) ELSE FreshStep(h[i - 1])]
    BY <2>2, <2>5
  <2>7. k + 1 \in Nat
    OBVIOUS
  <2>. QED  BY <1>1, <2>6, <2>7
<1>4. n \in S
  BY <1>2, <1>3, SetInduction
<1>. QED  BY <1>1, <1>4

\* The run exists, and is computed step by step.
LEMMA FreshRunSteps ==
    ASSUME NEW file
    PROVE  /\ FreshRun(file)[0] = FreshStart(file)
           /\ \A n \in Nat : FreshRun(file)[n + 1] = FreshStep(FreshRun(file)[n])
<1>1. PICK G : G = [n \in Nat |->
                       CHOOSE g : g = [i \in 0 .. n |-> IF i = 0 THEN FreshStart(file)
                                                        ELSE FreshStep(g[i - 1])]]
  OBVIOUS
<1>2. ASSUME NEW n \in Nat, NEW i \in 0 .. n
      PROVE  G[n][i] = IF i = 0 THEN FreshStart(file) ELSE FreshStep(G[n][i - 1])
  <2>1. G[n] = CHOOSE g : g = [j \in 0 .. n |-> IF j = 0 THEN FreshStart(file)
                                                ELSE FreshStep(g[j - 1])]
    BY <1>1
  <2>2. PICK g : g = G[n]
    OBVIOUS
  <2>3. g = [j \in 0 .. n |-> IF j = 0 THEN FreshStart(file) ELSE FreshStep(g[j - 1])]
    <3>1. \E h : h = [j \in 0 .. n |-> IF j = 0 THEN FreshStart(file)
                                               ELSE FreshStep(h[j - 1])]
      BY FreshRunUpTo, Zenon
    <3>. QED  BY <2>1, <2>2, <3>1, Zenon
  <2>4. g[i] = IF i = 0 THEN FreshStart(file) ELSE FreshStep(g[i - 1])
    BY <2>3
  <2>. QED  BY <2>2, <2>4
<1>3. \A n \in Nat : G[n][0] = FreshStart(file)
  <2>1. ASSUME NEW n \in Nat PROVE G[n][0] = FreshStart(file)
    <3>1. 0 \in 0 .. n
      OBVIOUS
    <3>. QED  BY <1>2, <3>1
  <2>. QED  BY <2>1
<1>4. \A i, n \in Nat : i + 1 <= n => G[n][i + 1] = FreshStep(G[n][i])
  <2>1. ASSUME NEW i \in Nat, NEW n \in Nat, i + 1 <= n
        PROVE  G[n][i + 1] = FreshStep(G[n][i])
    <3>1. PICK j \in 0 .. n : j = i + 1
      BY <2>1
    <3>2. j # 0 /\ j - 1 = i
      BY <3>1
    <3>3. G[n][j] = FreshStep(G[n][j - 1])
      BY <1>2, <3>2
    <3>. QED  BY <3>1, <3>2, <3>3
  <2>. QED  BY <2>1
\* Two runs agree as far as both of them go.
<1>5. \A i \in Nat : \A n, m \in Nat : i <= n /\ i <= m => G[n][i] = G[m][i]
  <2>1. PICK T : T = {i \in Nat : \A n, m \in Nat : i <= n /\ i <= m => G[n][i] = G[m][i]}
    OBVIOUS
  <2>2. 0 \in T
    BY <1>3, <2>1
  <2>3. ASSUME NEW i \in Nat, i \in T PROVE i + 1 \in T
    <3>1. \A n, m \in Nat : i + 1 <= n /\ i + 1 <= m => G[n][i] = G[m][i]
      BY <2>1, <2>3
    <3>2. \A n, m \in Nat : i + 1 <= n /\ i + 1 <= m => G[n][i + 1] = G[m][i + 1]
      BY <1>4, <3>1
    <3>. QED  BY <2>1, <3>2
  <2>4. \A i \in Nat : i \in T
    BY <2>2, <2>3, SetInduction
  <2>. QED  BY <2>1, <2>4
<1>6. PICK F : F = [n \in Nat |-> G[n][n]]
  OBVIOUS
<1>7. F[0] = FreshStart(file)
  BY <1>3, <1>6
<1>8. \A n \in Nat : F[n + 1] = FreshStep(F[n])
  <2>1. ASSUME NEW n \in Nat PROVE F[n + 1] = FreshStep(F[n])
    <3>1. G[n + 1][n + 1] = FreshStep(G[n + 1][n])
      BY <1>4
    <3>2. G[n + 1][n] = G[n][n]
      BY <1>5
    <3>3. F[n + 1] = G[n + 1][n + 1] /\ F[n] = G[n][n]
      BY <1>6
    <3>. QED  BY <3>1, <3>2, <3>3
  <2>. QED  BY <2>1
<1>9. F = [n \in Nat |-> IF n = 0 THEN FreshStart(file) ELSE FreshStep(F[n - 1])]
  <2>1. ASSUME NEW n \in Nat
        PROVE  F[n] = IF n = 0 THEN FreshStart(file) ELSE FreshStep(F[n - 1])
    <3>1. CASE n = 0
      BY <1>7, <3>1
    <3>2. CASE n # 0
      <4>1. PICK k \in Nat : k = n - 1
        BY <3>2
      <4>2. n = k + 1
        BY <4>1
      <4>3. F[k + 1] = FreshStep(F[k])
        BY <1>8
      <4>. QED  BY <3>2, <4>1, <4>2, <4>3
    <3>. QED  BY <3>1, <3>2
  <2>. QED  BY <1>6, <2>1
<1>10. FreshRun(file) = [n \in Nat |-> IF n = 0 THEN FreshStart(file)
                                               ELSE FreshStep(FreshRun(file)[n - 1])]
  BY <1>9 DEF FreshRun
<1>11. FreshRun(file)[0] = FreshStart(file)
  BY <1>10
<1>12. ASSUME NEW n \in Nat PROVE FreshRun(file)[n + 1] = FreshStep(FreshRun(file)[n])
  <2>1. PICK k \in Nat : k = n + 1
    OBVIOUS
  <2>2. k # 0 /\ k - 1 = n
    BY <2>1
  <2>3. FreshRun(file)[k] = FreshStep(FreshRun(file)[k - 1])
    BY <1>10, <2>2
  <2>. QED  BY <2>1, <2>2, <2>3
<1>. QED  BY <1>11, <1>12

\* A run stays where the file is at its end or the parser has given up.
LEMMA FreshRunOver ==
    ASSUME NEW file, NEW n \in Nat,
           \/ FreshRun(file)[n].rest = <<>>
           \/ FreshRun(file)[n].stack.at = "rejected"
    PROVE  \A m \in Nat : m >= n => FreshRun(file)[m] = FreshRun(file)[n]
<1>1. PICK s : s = FreshRun(file)[n]
  OBVIOUS
<1>2. FreshStep(s) = s
  BY <1>1 DEF FreshStep
<1>3. PICK T : T = {m \in Nat : FreshRun(file)[m] = s}
  OBVIOUS
<1>4. n \in T
  BY <1>1, <1>3
<1>5. ASSUME NEW m \in Nat, m \in T PROVE m + 1 \in T
  <2>1. FreshRun(file)[m + 1] = FreshStep(FreshRun(file)[m])
    BY FreshRunSteps
  <2>. QED  BY <1>2, <1>3, <1>5, <2>1
<1>6. \A m \in Nat : m >= n => m \in T
  BY <1>4, <1>5, SetInductionFrom
<1>. QED  BY <1>1, <1>3, <1>6

-----------------------------------------------------------------------------
(***************************************************************************)
(* A parse that begins with a clean scanner keeps abreast of the run of a  *)
(* new process on the same file, one lexeme each.                          *)
(***************************************************************************)
\* The file as it is read: without its white space in front, if that is eaten.
Expected == IF start.eat THEN Eaten(start.file) ELSE start.file

\* The lexeme that "%-}" becomes in a variable, where it is scanned again.
Again == "-}"

\* The steps a run needs at most for what is left of the file.
Weight(rest) == IF rest # <<>> /\ Head(rest) = Again THEN 2 * Len(rest) - 1
                                                     ELSE 2 * Len(rest)

\* eat_whitespace is the same where it matters: in front of white space in text.
SameEat(s) ==
    IF s.mode = "INITIAL"
    THEN s.rest # <<>> /\ Head(s.rest) = "space" => s.eat = eatWhitespace
    ELSE ~ eatWhitespace

Matches(s) ==
    /\ s.mode = mode[running] /\ s.rest = buffer[running]
    /\ s.stack = stack /\ s.tokens = tokens
    /\ SameEat(s)

\* The white space that is eaten has not been scanned yet.
BeforeEaten ==
    /\ start.eat /\ start.file # <<>> /\ Head(start.file) = "space"
    /\ mode[running] = "INITIAL" /\ buffer[running] = start.file /\ eatWhitespace = TRUE
    /\ stack = EmptyStack /\ tokens = <<>>

Abreast ==
    running # None /\ start.clean =>
        /\ buffer[running] \in Seq(Lexeme)
        /\ \/ BeforeEaten
           \/ \E n \in Nat :
                 /\ n + Weight(buffer[running]) <= 2 * Len(Expected)
                 /\ Matches(FreshRun(Expected)[n])

FreshInv ==
    /\ start.eat \in BOOLEAN
    /\ start.parser # None => start.file \in File
    /\ Abreast
    /\ AsFreshUnlessSoiled

LEMMA Leading ==
    ASSUME NEW s \in Seq(Lexeme), s # <<>>
    PROVE  /\ Len(s) \in Nat /\ Len(s) > 0 /\ Head(s) \in Lexeme /\ Head(s) = s[1]
           /\ Tail(s) \in Seq(Lexeme) /\ Len(Tail(s)) = Len(s) - 1
           /\ Tail(s) # <<>> => Len(s) > 1 /\ Head(Tail(s)) = s[2]
<1>1. Tail(s) \in Seq(Lexeme) /\ Len(Tail(s)) = Len(s) - 1 /\ Len(s) > 0 /\ Len(s) \in Nat
  OBVIOUS
<1>2. ASSUME Tail(s) # <<>> PROVE Len(s) > 1 /\ Head(Tail(s)) = s[2]
  <2>1. Len(Tail(s)) > 0
    BY <1>1, <1>2
  <2>. QED  BY <1>1, <2>1
<1>. QED  BY <1>1, <1>2

\* One lexeme less to scan, or the same one as "-}".
LEMMA Lighter ==
    ASSUME NEW m, NEW s \in Seq(Lexeme), s # <<>>
    PROVE  /\ RestAfter(m, Head(s), Tail(s)) \in Seq(Lexeme)
           /\ Weight(RestAfter(m, Head(s), Tail(s))) + 1 <= Weight(s)
           /\ Weight(s) \in Nat
<1>1. /\ Len(s) \in Nat /\ Len(s) > 0 /\ Tail(s) \in Seq(Lexeme)
      /\ Len(Tail(s)) = Len(s) - 1
  BY Leading
<1>2. Weight(s) \in Nat /\ Weight(s) >= 2 * Len(s) - 1
  BY <1>1 DEF Weight
<1>3. CASE m = "IN_VARIABLE" /\ Head(s) = "%-}"
  <2>1. PICK r : r = RestAfter(m, Head(s), Tail(s))
    OBVIOUS
  <2>2. r = <<Again>> \o Tail(s)
    BY <1>3, <2>1 DEF RestAfter, Again
  <2>3. Again \in Lexeme
    BY DEF Again, Lexeme
  <2>4. <<Again>> \in Seq(Lexeme)
    BY <2>3
  <2>5. r \in Seq(Lexeme) /\ Len(r) = Len(s) /\ r[1] = Again
    BY <1>1, <2>2, <2>4
  <2>6. Weight(r) = 2 * Len(s) - 1 /\ Weight(s) = 2 * Len(s)
    <3>1. r # <<>> /\ Head(r) = Again
      BY <1>1, <2>5
    <3>2. Head(s) # Again
      BY <1>3 DEF Again
    <3>. QED  BY <2>5, <3>1, <3>2 DEF Weight
  <2>. QED  BY <1>1, <1>2, <2>1, <2>5, <2>6
<1>4. CASE ~ (m = "IN_VARIABLE" /\ Head(s) = "%-}")
  <2>1. RestAfter(m, Head(s), Tail(s)) = Tail(s)
    BY <1>4 DEF RestAfter
  <2>2. Weight(Tail(s)) <= 2 * (Len(s) - 1) /\ Weight(Tail(s)) \in Int
    BY <1>1 DEF Weight
  <2>3. Weight(Tail(s)) + 1 <= Weight(s)
    BY <1>1, <1>2, <2>2
  <2>. QED  BY <1>1, <1>2, <2>1, <2>3, Zenon
<1>. QED  BY <1>3, <1>4

LEMMA ParseAbreast ==
    ASSUME FileAssumption, SessionInv, FreshInv, NEW p \in Parser, NEW file \in File,
           Parse(p, file)
    PROVE  FreshInv'
<1>1. /\ p # None /\ running' = p /\ outcome' = "none" /\ mode' = mode
      /\ stack' = EmptyStack /\ tokens' = <<>> /\ eatWhitespace' = eatWhitespace
      /\ eatWhitespace \in BOOLEAN
  BY DEF Parse, FileAssumption, SessionInv, ScannerTypes
<1>2. /\ start'.file = file /\ start'.eat = eatWhitespace
      /\ start'.clean = Clean(p) /\ start'.parser = p
  BY DEF Parse
<1>3. AsFreshUnlessSoiled'
  BY <1>1 DEF AsFreshUnlessSoiled
<1>4. ASSUME start'.clean PROVE Abreast'
  <2>1. mode[p] = "INITIAL" /\ buffer[p] = <<>> /\ ~ eofPending[p] /\ p \in DOMAIN buffer
    BY <1>2, <1>4 DEF Clean, SessionInv, ScannerTypes
  <2>2. buffer'[p] = Joined(<<>>, file)
    BY <2>1 DEF Parse
  <2>3. file \in Seq(Lexeme)
    BY DEF FileAssumption
  <2>4. Joined(<<>>, file) = file
    BY <2>3 DEF Joined
  <2>5. buffer'[p] = file
    BY <2>2, <2>4
  <2>6. CASE eatWhitespace /\ file # <<>> /\ Head(file) = "space"
    <3>1. BeforeEaten'
      BY <1>1, <1>2, <2>1, <2>5, <2>6 DEF BeforeEaten
    <3>. QED  BY <1>1, <2>3, <2>5, <3>1 DEF Abreast
  <2>7. CASE ~ (eatWhitespace /\ file # <<>> /\ Head(file) = "space")
    <3>1. Expected' = file
      BY <1>1, <1>2, <2>7 DEF Expected, Eaten
    <3>2. FreshRun(file)[0] = FreshStart(file)
      BY FreshRunSteps
    <3>3. SameEat(FreshStart(file))'
      BY <1>1, <2>7 DEF SameEat, FreshStart
    <3>4. Matches(FreshStart(file))'
      BY <1>1, <2>1, <2>5, <3>3 DEF Matches, FreshStart
    <3>5. PICK n \in Nat : n = 0
      OBVIOUS
    <3>6. n + Weight(file) <= 2 * Len(file)
      BY <2>3, <3>5 DEF Weight
    <3>7. Matches(FreshRun(Expected)[n])'
      BY <3>1, <3>2, <3>4, <3>5
    <3>8. n + Weight(buffer'[running']) <= 2 * Len(Expected')
      BY <1>1, <2>5, <3>1, <3>6
    <3>. QED  BY <1>1, <2>3, <2>5, <3>7, <3>8 DEF Abreast
  <2>. QED  BY <2>6, <2>7
<1>5. Abreast'
  BY <1>4 DEF Abreast
<1>. QED  BY <1>1, <1>2, <1>3, <1>5 DEF FreshInv

\* The "%-}" that ends a block.
Closing(m, x) == m = "IN_BLOCK" /\ x = "%-}"

\* eat_whitespace is looked at in front of white space in text only.
LEMMA SameToken ==
    ASSUME NEW m \in Mode, NEW x, NEW e, NEW f, m = "INITIAL" /\ x = "space" => e = f
    PROVE  TokenOf(m, x, e) = TokenOf(m, x, f)
<1>1. CASE e = f
  BY <1>1
<1>2. CASE m = "IN_VARIABLE"
  BY <1>2, Zenon DEF TokenOf
<1>3. CASE m = "IN_BLOCK"
  BY <1>3, Zenon DEF TokenOf
<1>4. CASE m = "IN_COMMENT"
  BY <1>4, Zenon DEF TokenOf
<1>5. CASE x # "space"
  BY <1>5, Zenon DEF TokenOf
<1>. QED  BY <1>1, <1>2, <1>3, <1>4, <1>5 DEF Mode

LEMMA SameEatAfter ==
    ASSUME NEW m \in Mode, NEW x, NEW eat \in BOOLEAN, m # "INITIAL" => ~ eat
    PROVE  /\ ModeAfter(m, x) # "INITIAL" => ~ EatAfter(m, x, eat)
           /\ ModeAfter(m, x) = "INITIAL" /\ x # "space" =>
                 EatAfter(m, x, eat) = Closing(m, x)
           /\ ModeAfter(m, x) = "INITIAL" /\ x = "space" =>
                 m = "INITIAL" /\ EatAfter(m, x, eat) = eat
<1>1. CASE m = "INITIAL"
  <2>1. CASE x = "space"
    <3>1. ModeAfter(m, x) = "INITIAL"
      BY <1>1, <2>1, Zenon DEF ModeAfter
    <3>2. EatAfter(m, x, eat) = eat
      BY <1>1, <2>1, Zenon DEF EatAfter
    <3>. QED  BY <1>1, <2>1, <3>1, <3>2
  <2>2. CASE x # "space"
    <3>1. EatAfter(m, x, eat) = FALSE
      BY <1>1, <2>2, Zenon DEF EatAfter
    <3>2. Closing(m, x) = FALSE
      BY <1>1, Zenon DEF Closing
    <3>. QED  BY <2>2, <3>1, <3>2, Zenon
  <2>. QED  BY <2>1, <2>2
<1>2. CASE m = "IN_BLOCK"
  <2>1. CASE x = "%-}"
    <3>1. ModeAfter(m, x) = "INITIAL"
      BY <1>2, <2>1, Zenon DEF ModeAfter
    <3>2. EatAfter(m, x, eat) = TRUE
      BY <1>2, <2>1, Zenon DEF EatAfter
    <3>3. Closing(m, x) = TRUE /\ x # "space"
      BY <1>2, <2>1, Zenon DEF Closing
    <3>. QED  BY <3>1, <3>2, <3>3, Zenon
  <2>2. CASE x # "%-}"
    <3>1. EatAfter(m, x, eat) = eat /\ ~ eat
      BY <1>2, <2>2, Zenon DEF EatAfter
    <3>2. Closing(m, x) = FALSE
      BY <2>2, Zenon DEF Closing
    <3>3. x = "space" => ModeAfter(m, x) # "INITIAL"
      BY <1>2, Zenon DEF ModeAfter
    <3>4. eat = FALSE
      BY <3>1, Zenon
    <3>. QED  BY <3>1, <3>2, <3>3, <3>4, Zenon
  <2>. QED  BY <2>1, <2>2
<1>3. CASE m # "INITIAL" /\ m # "IN_BLOCK"
  <2>1. EatAfter(m, x, eat) = eat /\ ~ eat
    BY <1>3, Zenon DEF EatAfter
  <2>2. Closing(m, x) = FALSE
    BY <1>3, Zenon DEF Closing
  <2>3. x = "space" => ModeAfter(m, x) # "INITIAL"
    BY <1>3, Zenon DEF ModeAfter
  <2>4. eat = FALSE
    BY <2>1, Zenon
  <2>. QED  BY <2>1, <2>2, <2>3, <2>4, Zenon
<1>. QED  BY <1>1, <1>2, <1>3

\* A step of the run does what the scanner does.
LEMMA StepInStep ==
    ASSUME NEW s, NEW x, NEW rest, NEW m \in Mode, NEW st, NEW toks, NEW eat, NEW t,
           s.mode = m, s.rest = rest, s.stack = st, s.tokens = toks,
           rest # <<>>, st.at # "rejected", x = Head(rest),
           m = "INITIAL" /\ x = "space" => s.eat = eat,
           t = TokenOf(m, x, eat)
    PROVE  /\ FreshStep(s).mode = ModeAfter(m, x)
           /\ FreshStep(s).rest = RestAfter(m, x, Tail(rest))
           /\ FreshStep(s).eat = IF x = "space" THEN s.eat
                                                ELSE Closing(m, x)
           /\ FreshStep(s).stack = IF t = NoToken THEN st ELSE Shifted(st, t)
           /\ FreshStep(s).tokens = IF t = NoToken THEN toks ELSE Append(toks, <<t, x>>)
<1>1. TokenOf(m, x, s.eat) = t
  BY SameToken
<1>. QED  BY <1>1, Zenon DEF FreshStep, Closing

LEMMA ScanAbreast ==
    ASSUME FileAssumption, SessionInv, FreshInv, Scan
    PROVE  FreshInv'
<1>1. PICK p : p = running
  OBVIOUS
<1>2. PICK m : m = mode[p]
  OBVIOUS
<1>3. PICK r : r = buffer[p]
  OBVIOUS
<1>4. PICK x : x = Head(r)
  OBVIOUS
<1>5. PICK t : t = TokenOf(m, x, eatWhitespace)
  OBVIOUS
<1>6. /\ p \in Parser /\ p # None /\ m \in Mode /\ p \in DOMAIN mode /\ p \in DOMAIN buffer
      /\ eatWhitespace \in BOOLEAN /\ start.parser = p /\ start.file \in File
      /\ stack.at # "rejected" /\ outcome = "none"
  <2>1. p \in Parser /\ p # None
    BY <1>1 DEF Scan, SessionInv, ScannerTypes
  <2>2. start.parser = p /\ outcome = "none" /\ stack.at # "rejected"
    BY <1>1, <2>1 DEF SessionInv, Current
  <2>. QED  BY <1>2, <2>1, <2>2 DEF SessionInv, ScannerTypes, FreshInv
<1>7. r # <<>> /\ start' = start
  BY <1>1, <1>3 DEF Scan
<1>8. mode'[p] = ModeAfter(m, x)
  BY <1>1, <1>2, <1>3, <1>4, <1>6, Zenon DEF Scan
<1>9. buffer'[p] = RestAfter(m, x, Tail(r))
  BY <1>1, <1>2, <1>3, <1>4, <1>6, Zenon DEF Scan
<1>10. eatWhitespace' = EatAfter(m, x, eatWhitespace)
  BY <1>1, <1>2, <1>3, <1>4, Zenon DEF Scan
<1>11. tokens' = IF t = NoToken THEN tokens ELSE Append(tokens, <<t, x>>)
  BY <1>1, <1>2, <1>3, <1>4, <1>5, Zenon DEF Scan
<1>12. stack' = IF t = NoToken THEN stack ELSE Shifted(stack, t)
  BY <1>1, <1>2, <1>3, <1>4, <1>5, Zenon DEF Scan
<1>13. IF stack'.at = "rejected" THEN outcome' = "error" /\ running' = None
                                 ELSE outcome' = "none" /\ running' = p
  BY <1>1, <1>6, Zenon DEF Scan
<1>14. Expected' = Expected
  BY <1>7 DEF Expected
<1>15. CASE ~ start.clean
  BY <1>6, <1>7, <1>15 DEF FreshInv, Abreast, AsFreshUnlessSoiled
<1>16. CASE start.clean
  <2>1. r \in Seq(Lexeme)
    BY <1>1, <1>3, <1>6, <1>16 DEF FreshInv, Abreast
  <2>2. /\ buffer'[p] \in Seq(Lexeme) /\ Weight(r) \in Nat
        /\ Weight(buffer'[p]) + 1 <= Weight(r)
    BY <1>4, <1>7, <1>9, <2>1, Lighter
  <2>3. CASE BeforeEaten
    <3>1. /\ m = "INITIAL" /\ r = start.file /\ x = "space" /\ eatWhitespace = TRUE
          /\ stack = EmptyStack /\ tokens = <<>>
      BY <1>1, <1>2, <1>3, <1>4, <2>3 DEF BeforeEaten
    <3>2. t = NoToken
      BY <1>5, <3>1, Zenon DEF TokenOf
    <3>3. mode'[p] = "INITIAL"
      BY <1>8, <3>1, Zenon DEF ModeAfter
    <3>4. buffer'[p] = Tail(r)
      BY <1>9, <3>1, Zenon DEF RestAfter
    <3>5. Expected = Tail(r)
      BY <1>4, <1>7, <2>3, <3>1, Zenon DEF BeforeEaten, Expected, Eaten
    <3>6. stack' = EmptyStack /\ tokens' = <<>> /\ stack'.at # "rejected"
      BY <1>6, <1>11, <1>12, <3>1, <3>2
    <3>7. Tail(r) # <<>> => Head(Tail(r)) # "space"
      <4>1. ASSUME Tail(r) # <<>> PROVE Head(Tail(r)) # "space"
        <5>1. Len(r) > 1 /\ Head(Tail(r)) = r[2] /\ Head(r) = r[1] /\ Len(r) \in Nat
          BY <1>7, <2>1, <4>1, Leading
        <5>2. \A i \in 1 .. Len(r) - 1 : r[i] = "space" => r[i + 1] # "space"
          BY <1>6, <3>1 DEF FileAssumption
        <5>3. 1 \in 1 .. Len(r) - 1
          BY <5>1
        <5>. QED  BY <1>4, <3>1, <5>1, <5>2, <5>3
      <4>. QED  BY <4>1
    <3>8. FreshRun(Expected)[0] = FreshStart(Tail(r))
      BY <3>5, FreshRunSteps
    <3>9. running' = p /\ outcome' = "none"
      BY <1>13, <3>6
    <3>10. Matches(FreshStart(Tail(r)))'
      BY <3>3, <3>4, <3>6, <3>7, <3>9 DEF Matches, SameEat, FreshStart
    <3>11. PICK n \in Nat : n = 0
      OBVIOUS
    <3>12. n + Weight(buffer'[p]) <= 2 * Len(Expected)
      <4>1. Tail(r) \in Seq(Lexeme)
        BY <1>7, <2>1
      <4>2. n + Weight(Tail(r)) <= 2 * Len(Tail(r))
        BY <3>11, <4>1 DEF Weight
      <4>. QED  BY <3>4, <3>5, <4>2, Zenon
    <3>13. Matches(FreshRun(Expected)[n])'
      BY <1>14, <3>8, <3>10, <3>11
    <3>14. Abreast'
      BY <1>14, <2>2, <3>12, <3>13, <3>9 DEF Abreast
    <3>15. AsFreshUnlessSoiled'
      BY <3>9 DEF AsFreshUnlessSoiled
    <3>. QED  BY <1>7, <3>14, <3>15 DEF FreshInv
  <2>4. CASE ~ BeforeEaten
    <3>1. PICK n \in Nat : /\ n + Weight(r) <= 2 * Len(Expected)
                           /\ Matches(FreshRun(Expected)[n])
      BY <1>1, <1>3, <1>6, <1>16, <2>4 DEF FreshInv, Abreast
    <3>2. PICK s : s = FreshRun(Expected)[n]
      OBVIOUS
    <3>3. PICK u : u = FreshRun(Expected)[n + 1]
      OBVIOUS
    <3>4. u = FreshStep(s)
      BY <3>2, <3>3, FreshRunSteps
    <3>5. /\ s.mode = m /\ s.rest = r /\ s.stack = stack /\ s.tokens = tokens
          /\ m = "INITIAL" /\ x = "space" => s.eat = eatWhitespace
          /\ m # "INITIAL" => ~ eatWhitespace
      BY <1>1, <1>2, <1>3, <1>4, <1>7, <3>1, <3>2 DEF Matches, SameEat
    <3>6. /\ u.mode = ModeAfter(m, x) /\ u.rest = RestAfter(m, x, Tail(r))
          /\ u.eat = IF x = "space" THEN s.eat ELSE Closing(m, x)
          /\ u.stack = IF t = NoToken THEN stack ELSE Shifted(stack, t)
          /\ u.tokens = IF t = NoToken THEN tokens ELSE Append(tokens, <<t, x>>)
      BY <1>4, <1>5, <1>6, <1>7, <3>4, <3>5, StepInStep
    <3>7. /\ u.mode = mode'[p] /\ u.rest = buffer'[p] /\ u.stack = stack'
          /\ u.tokens = tokens'
      BY <1>8, <1>9, <1>11, <1>12, <3>6, Zenon
    <3>8. /\ u.mode = "INITIAL" => u.eat = eatWhitespace'
          /\ u.mode # "INITIAL" => ~ eatWhitespace'
      <4>1. /\ ModeAfter(m, x) # "INITIAL" => ~ EatAfter(m, x, eatWhitespace)
            /\ ModeAfter(m, x) = "INITIAL" /\ x # "space" =>
                  EatAfter(m, x, eatWhitespace) = Closing(m, x)
            /\ ModeAfter(m, x) = "INITIAL" /\ x = "space" =>
                  m = "INITIAL" /\ EatAfter(m, x, eatWhitespace) = eatWhitespace
        BY <1>6, <3>5, SameEatAfter
      <4>. QED  BY <1>10, <3>5, <3>6, <4>1, Zenon
    <3>9. CASE stack'.at = "rejected"
      <4>1. outcome' = "error" /\ running' = None
        BY <1>13, <3>9
      <4>2. Abreast'
        BY <4>1 DEF Abreast
      <4>3. n + 1 <= 2 * Len(Expected) /\ 2 * Len(Expected) \in Nat
        <5>1. Expected \in Seq(Lexeme)
          <6>1. start.file \in Seq(Lexeme)
            BY <1>6 DEF FileAssumption
          <6>. QED  BY <6>1 DEF Expected, Eaten
        <5>2. Weight(buffer'[p]) \in Nat
          BY <2>2 DEF Weight
        <5>. QED  BY <2>2, <3>1, <5>1, <5>2
      <4>4. FreshRun(Expected)[2 * Len(Expected)] = u
        BY <3>3, <3>7, <3>9, <4>3, FreshRunOver
      <4>5. ~ Accepts(u.stack)
        BY <3>7, <3>9 DEF Accepts
      <4>6. FreshParse(Expected) = [outcome |-> "error", tokens |-> tokens']
        BY <3>7, <4>4, <4>5, Zenon DEF FreshParse
      <4>7. AsFreshUnlessSoiled'
        BY <1>14, <4>1, <4>6 DEF AsFreshUnlessSoiled, Expected
      <4>. QED  BY <1>7, <4>2, <4>7 DEF FreshInv
    <3>10. CASE stack'.at # "rejected"
      <4>1. outcome' = "none" /\ running' = p
        BY <1>13, <3>10
      <4>2. Matches(u)'
        BY <3>7, <3>8, <4>1 DEF Matches, SameEat
      <4>3. (n + 1) + Weight(buffer'[p]) <= 2 * Len(Expected)
        <5>1. Expected \in Seq(Lexeme)
          <6>1. start.file \in Seq(Lexeme)
            BY <1>6 DEF FileAssumption
          <6>. QED  BY <6>1 DEF Expected, Eaten
        <5>2. Weight(buffer'[p]) \in Nat
          BY <2>2 DEF Weight
        <5>. QED  BY <2>2, <3>1, <5>1, <5>2
      <4>4. PICK k \in Nat : k = n + 1
        OBVIOUS
      <4>5. k + Weight(buffer'[p]) <= 2 * Len(Expected) /\ Matches(FreshRun(Expected)[k])'
        BY <1>14, <3>3, <4>2, <4>3, <4>4
      <4>6. Abreast'
        BY <1>14, <2>2, <4>1, <4>5 DEF Abreast
      <4>7. AsFreshUnlessSoiled'
        BY <4>1 DEF AsFreshUnlessSoiled
      <4>. QED  BY <1>7, <4>6, <4>7 DEF FreshInv
    <3>. QED  BY <3>9, <3>10
  <2>. QED  BY <2>3, <2>4
<1>. QED  BY <1>15, <1>16


LEMMA EndOfFileAbreast ==
    ASSUME FileAssumption, SessionInv, FreshInv, EndOfFile
    PROVE  FreshInv'
<1>1. PICK p : p = running
  OBVIOUS
<1>2. /\ p # None /\ buffer[p] = <<>> /\ running' = None /\ start' = start
      /\ outcome' = IF Accepts(stack) THEN "ast" ELSE "error"
      /\ tokens' = tokens
  BY <1>1 DEF EndOfFile
<1>3. start.file \in Seq(Lexeme) /\ Expected' = Expected
  BY <1>1, <1>2 DEF FreshInv, FileAssumption, SessionInv, ScannerTypes, Current, Expected
<1>4. Abreast'
  BY <1>2 DEF Abreast
<1>5. ASSUME start.clean PROVE AsFreshUnlessSoiled'
  <2>1. ~ BeforeEaten
    BY <1>1, <1>2 DEF BeforeEaten
  <2>2. PICK n \in Nat : /\ n + Weight(buffer[p]) <= 2 * Len(Expected)
                         /\ Matches(FreshRun(Expected)[n])
    BY <1>1, <1>2, <1>5, <2>1 DEF FreshInv, Abreast
  <2>3. n <= 2 * Len(Expected) /\ 2 * Len(Expected) \in Nat
    <3>1. Expected \in Seq(Lexeme)
      BY <1>3 DEF Expected, Eaten
    <3>2. Weight(<<>>) = 0
      BY DEF Weight
    <3>. QED  BY <1>2, <2>2, <3>1, <3>2
  <2>4. PICK u : u = FreshRun(Expected)[n]
    OBVIOUS
  <2>5. u.rest = <<>> /\ u.stack = stack /\ u.tokens = tokens
    BY <1>1, <1>2, <2>2, <2>4 DEF Matches
  <2>6. FreshRun(Expected)[2 * Len(Expected)] = u
    BY <2>3, <2>4, <2>5, FreshRunOver
  <2>7. FreshParse(Expected) = [outcome |-> outcome', tokens |-> tokens']
    BY <1>2, <2>5, <2>6, Zenon DEF FreshParse
  <2>. QED  BY <1>3, <2>7 DEF AsFreshUnlessSoiled, Expected
<1>6. AsFreshUnlessSoiled'
  BY <1>2, <1>5 DEF AsFreshUnlessSoiled
<1>. QED  BY <1>2, <1>4, <1>6 DEF FreshInv

LEMMA FreshInvariant == Spec => []FreshInv
<1>1. Init => FreshInv
  BY DEF Init, FreshInv, Abreast, AsFreshUnlessSoiled
<1>2. SessionInv /\ FreshInv /\ [Next]_vars => FreshInv'
  <2>. SUFFICES ASSUME SessionInv, FreshInv, [Next]_vars PROVE FreshInv'
    OBVIOUS
  <2>1. CASE UNCHANGED vars
    BY <2>1 DEF vars, FreshInv, Abreast, AsFreshUnlessSoiled, Expected, BeforeEaten,
                Matches, SameEat
  <2>. QED  BY <2>1, FileAssumption, ParseAbreast, ScanAbreast, EndOfFileAbreast DEF Next
<1>. QED  BY <1>1, <1>2, SessionInvariant, PTL DEF Spec

\* A parser whose scanner the last parse left clean gives what the parser of a new
\* process gives, up to the white space in front of the file that a "%-}" at the end of
\* the file before it takes away: no other state of parse() outlives it.
THEOREM AsFresh == Spec => []AsFreshUnlessSoiled
<1>1. FreshInv => AsFreshUnlessSoiled
  BY DEF FreshInv
<1>. QED  BY <1>1, FreshInvariant, PTL
=============================================================================
