--------------------------- MODULE ParserSession ---------------------------
(***************************************************************************)
(* A process parses one file after the other.  A Parser keeps its flex     *)
(* scanner between the files: the start condition and the part of its      *)
(* buffer that was not scanned survive a parse that ends in an error, and  *)
(* eat_whitespace is a variable that all scanners share.  An engine has    *)
(* one parser for templates, the pass that resolves includes another.      *)
(*                                                                         *)
(* A file is a sequence of lexemes: delimiters, keywords, words and white  *)
(* space.  What a lexeme means depends on the start condition.  (White     *)
(* space in front of "{-%" is dropped by a rule of its own and left out.)  *)
(* The tokens a parser was given decide its AST, so they stand for it.     *)
(***************************************************************************)
EXTENDS Integers, Sequences

CONSTANTS
    Parser,     \* the parsers of the process
    File,       \* the files: sequences of lexemes
    None,       \* no parser
    MaxParses   \* bound: files that are parsed

Word == {"word", "if", "elseif", "else", "endif", "for", "in", "endfor"}
Lexeme == Word \cup {"{{", "}}", "{%", "%}", "%-}", "-}", "{#", "#}", "space"}
Mode == {"INITIAL", "IN_VARIABLE", "IN_BLOCK", "IN_COMMENT"}

\* White space that follows white space is the same lexeme: [ \t\n\r]+.
ASSUME FileAssumption ==
    /\ File \subseteq Seq(Lexeme)
    /\ \A f \in File : \A i \in 1 .. Len(f) - 1 :
          f[i] = "space" => f[i + 1] # "space"
    /\ None \notin Parser
    /\ MaxParses \in Nat

VARIABLES
    mode,           \* parser -> start condition of its scanner
    buffer,         \* parser -> what its scanner has still to scan
    eofPending,     \* parser -> the scanner has met an end of file but not
                    \*           reported it (YY_BUFFER_EOF_PENDING)
    eatWhitespace,  \* the static variable of syntax.l
    running,        \* the parser that is in parse(), or None
    stack,          \* what the stack of the LALR parser amounts to
    tokens,         \* the tokens of this parse, or of the last one
    outcome,        \* "none", or how the last parse ended: "ast" or "error"
    parses,         \* number of parses so far
    start           \* history: how this parse, or the last one, began

vars == <<mode, buffer, eofPending, eatWhitespace, running, stack, tokens,
          outcome, parses, start>>

NoToken == "none"

(***************************************************************************)
(* The rules of syntax.l.                                                  *)
(***************************************************************************)
TokenOf(m, x, eat) ==
    CASE m = "INITIAL" ->
           (CASE x = "{{" -> "T_VARIABLE_START"
              [] x = "{%" -> "T_BLOCK_START"
              [] x = "{#" -> NoToken
              [] x = "space" /\ eat -> NoToken
              [] OTHER -> "T_RAW")
      [] m = "IN_COMMENT" -> NoToken
      [] m = "IN_VARIABLE" ->
           (CASE x = "}}" -> "T_VARIABLE_END"
              [] x \in Word -> "T_IDENTIFIER"
              [] x \in {"{%", "%}", "%-}"} -> "T_MOD"
              [] x = "-}" -> "T_MINUS"
              [] OTHER -> NoToken)
      [] m = "IN_BLOCK" ->
           (CASE x \in {"%}", "%-}"} -> "T_BLOCK_END"
              [] x = "word" -> "T_IDENTIFIER"
              [] x \in Word -> x
              [] x = "{%" -> "T_MOD"
              [] x = "-}" -> "T_MINUS"
              [] OTHER -> NoToken)

ModeAfter(m, x) ==
    CASE m = "INITIAL" /\ x = "{{" -> "IN_VARIABLE"
      [] m = "INITIAL" /\ x = "{%" -> "IN_BLOCK"
      [] m = "INITIAL" /\ x = "{#" -> "IN_COMMENT"
      [] m = "IN_VARIABLE" /\ x = "}}" -> "INITIAL"
      [] m = "IN_BLOCK" /\ x \in {"%}", "%-}"} -> "INITIAL"
      [] m = "IN_COMMENT" /\ x = "#}" -> "INITIAL"
      [] OTHER -> m

\* Does the scanner read past the lexeme before it knows where it ends?
LooksAhead(m, x) ==
    \/ m = "INITIAL" /\ x \notin {"{{", "{%", "{#"}
    \/ m = "IN_COMMENT" /\ x # "#}"
    \/ m \in {"IN_VARIABLE", "IN_BLOCK"} /\ x \in Word \cup {"space"}
    \/ m = "IN_BLOCK" /\ x = "{%"

(***************************************************************************)
(* Plausible bugs, each caught by a property below; the specification does *)
(* not use them.  A text that does not reset eat_whitespace, an end of     *)
(* file in a comment that is scanned again and again, and a body that need *)
(* not be closed.                                                          *)
(***************************************************************************)
EatAfterKept(m, x, eat) ==
    IF m = "IN_BLOCK" /\ x = "%-}" THEN TRUE
    ELSE IF m = "INITIAL" /\ x \notin Word \cup {"space"} THEN FALSE
    ELSE eat

RestInCommentKept(m, x, rest) ==
    IF m = "IN_COMMENT" /\ x # "#}" /\ rest = <<>> THEN <<x>> ELSE rest

AcceptsAnywhere(st) == st.at # "rejected"

EatAfter(m, x, eat) ==
    IF m = "IN_BLOCK" /\ x = "%-}" THEN TRUE
    ELSE IF m = "INITIAL" /\ x # "space" THEN FALSE
    ELSE eat

\* In a variable "%-}" is an operator, another one, and a character that no rule
\* matches, which is skipped (as are the others that give no token there).
RestAfter(m, x, rest) ==
    IF m = "IN_VARIABLE" /\ x = "%-}" THEN <<"-}">> \o rest ELSE rest

(***************************************************************************)
(* The rules of syntax.y, as what may follow: stack.at is the place in the *)
(* current statement, stack.open the bodies around it, each with its kind  *)
(* and whether it has a statement already (it needs one).  "print", "if"   *)
(* and "elseif" expect an operand, "print+" and so on have one.            *)
(***************************************************************************)
Operand == {<<"print", "print+">>, <<"if", "if+">>, <<"elseif", "elseif+">>}

Move ==
    {<<"text", "T_RAW", "text">>, <<"text", "T_VARIABLE_START", "print">>,
     <<"text", "T_BLOCK_START", "block">>, <<"print+", "T_VARIABLE_END", "text">>,
     <<"block", "if", "if">>, <<"block", "elseif", "elseif">>,
     <<"block", "else", "else">>, <<"block", "endif", "end">>,
     <<"block", "for", "for">>, <<"block", "endfor", "end">>,
     <<"for", "T_IDENTIFIER", "for+">>, <<"for+", "in", "iterable">>,
     <<"iterable", "T_IDENTIFIER", "iterable+">>}
    \cup {<<e[1], "T_IDENTIFIER", e[2]>> : e \in Operand}
    \cup {<<e[1], "T_MINUS", e[1]>> : e \in Operand}
    \cup {<<e[2], t, e[1]>> : e \in Operand, t \in {"T_MINUS", "T_MOD"}}
    \cup {<<a, "T_BLOCK_END", "text">> :
             a \in {"if+", "elseif+", "iterable+", "else", "end"}}

Places == {move[1] : move \in Move} \cup {"rejected"}

\* The keywords a block may start with in a body.
Keywords(body) ==
    {"if", "for"} \cup
    IF ~ body.some THEN {}
    ELSE CASE body.kind = "if" -> {"elseif", "else", "endif"}
           [] body.kind = "ifelse" -> {"endif"}
           [] body.kind = "for" -> {"else", "endfor"}
           [] body.kind = "forelse" -> {"endfor"}
           [] body.kind = "root" -> {}

Body(kind) == [kind |-> kind, some |-> FALSE]
Kind == {"root", "if", "ifelse", "for", "forelse"}

\* A statement, or a block, ends in the last of the open bodies.
WithStatement(open) == [open EXCEPT ![Len(open)].some = TRUE]

OpenAfter(st, t) ==
    LET inner == st.open[Len(st.open)]
        outer == SubSeq(st.open, 1, Len(st.open) - 1)
    IN  CASE t \in {"T_RAW", "T_VARIABLE_END"} -> WithStatement(st.open)
          [] t = "T_BLOCK_END" /\ st.at = "if+" -> Append(st.open, Body("if"))
          [] t = "T_BLOCK_END" /\ st.at = "iterable+" -> Append(st.open, Body("for"))
          [] t = "T_BLOCK_END" /\ st.at = "elseif+" -> Append(outer, Body("if"))
          [] t = "T_BLOCK_END" /\ st.at = "else" ->
               Append(outer, Body(IF inner.kind = "if" THEN "ifelse" ELSE "forelse"))
          [] t = "T_BLOCK_END" /\ st.at = "end" -> WithStatement(outer)
          [] OTHER -> st.open

Shifted(st, t) ==
    LET next == {move[3] : move \in {mv \in Move : mv[1] = st.at /\ mv[2] = t}}
    IN  IF \/ next = {}
           \/ st.at = "block" /\ t \notin Keywords(st.open[Len(st.open)])
        THEN [at |-> "rejected", open |-> st.open]
        ELSE [at |-> CHOOSE a \in next : TRUE, open |-> OpenAfter(st, t)]

EmptyStack == [at |-> "text", open |-> <<Body("root")>>]

\* root at the end of the file: every body is closed.
Accepts(st) == st.at = "text" /\ Len(st.open) = 1

-----------------------------------------------------------------------------
Init ==
    /\ mode = [p \in Parser |-> "INITIAL"]
    /\ buffer = [p \in Parser |-> <<>>]
    /\ eofPending = [p \in Parser |-> FALSE]
    /\ eatWhitespace = FALSE
    /\ running = None
    /\ stack = EmptyStack
    /\ tokens = <<>>
    /\ outcome = "none"
    /\ parses = 0
    /\ start = [parser |-> None, file |-> <<>>, clean |-> TRUE, eat |-> FALSE]

Clean(p) == mode[p] = "INITIAL" /\ buffer[p] = <<>> /\ ~ eofPending[p]

\* Words, and white space, that meet at the seam of two files are one lexeme.
Joined(s, t) ==
    IF s = <<>> \/ t = <<>> THEN s \o t
    ELSE LET last == s[Len(s)]
         IN  IF last \in Word /\ t[1] \in Word
             THEN SubSeq(s, 1, Len(s) - 1) \o <<"word">> \o Tail(t)
             ELSE IF last = "space" /\ t[1] = "space" THEN s \o Tail(t)
             ELSE s \o t

\* parse(): the scanner's input is the new file, the rest is as it was.  What is
\* left in the buffer is scanned first; an end of file that is still to be
\* reported is all that is scanned.
Parse(p, file) ==
    /\ running = None
    /\ parses < MaxParses
    /\ running' = p
    /\ buffer' = [buffer EXCEPT ![p] = IF eofPending[p] THEN <<>>
                                       ELSE Joined(buffer[p], file)]
    /\ stack' = EmptyStack
    /\ tokens' = <<>>
    /\ outcome' = "none"
    /\ parses' = parses + 1
    /\ start' = [parser |-> p, file |-> file, clean |-> Clean(p),
                 eat |-> eatWhitespace]
    /\ UNCHANGED <<mode, eofPending, eatWhitespace>>

\* One lexeme is scanned; its token, if it has one, goes to the LALR parser, which
\* gives up at the first token it cannot use.
Scan ==
    LET p  == running
        m  == mode[p]
        x  == Head(buffer[p])
        t  == TokenOf(m, x, eatWhitespace)
        st == IF t = NoToken THEN stack ELSE Shifted(stack, t)
    IN  /\ running # None
        /\ buffer[p] # <<>>
        /\ mode' = [mode EXCEPT ![p] = ModeAfter(m, x)]
        /\ buffer' = [buffer EXCEPT ![p] = RestAfter(m, x, Tail(@))]
        /\ eatWhitespace' = EatAfter(m, x, eatWhitespace)
        /\ tokens' = IF t = NoToken THEN tokens ELSE Append(tokens, <<t, x>>)
        /\ stack' = st
        /\ IF st.at = "rejected"
           THEN /\ outcome' = "error"
                /\ running' = None
                /\ eofPending' = [eofPending EXCEPT ![p] =
                                    buffer'[p] = <<>> /\ LooksAhead(m, x)]
           ELSE UNCHANGED <<outcome, running, eofPending>>
        /\ UNCHANGED <<parses, start>>

\* The end of the file is reported: the buffer starts afresh with the next one,
\* the start condition does not.
EndOfFile ==
    LET p == running
    IN  /\ running # None
        /\ buffer[p] = <<>>
        /\ eofPending' = [eofPending EXCEPT ![p] = FALSE]
        /\ outcome' = IF Accepts(stack) THEN "ast" ELSE "error"
        /\ running' = None
        /\ UNCHANGED <<mode, buffer, eatWhitespace, stack, tokens, parses, start>>

Next ==
    \/ \E p \in Parser, file \in File : Parse(p, file)
    \/ Scan
    \/ EndOfFile

Spec == Init /\ [][Next]_vars /\ WF_vars(Scan \/ EndOfFile)

-----------------------------------------------------------------------------
\* Types of the scanners and of the stack.
TypeOK ==
    /\ mode \in [Parser -> Mode]
    /\ buffer \in [Parser -> Seq(Lexeme)]
    /\ eofPending \in [Parser -> BOOLEAN]
    /\ eatWhitespace \in BOOLEAN
    /\ running \in Parser \cup {None}
    /\ stack.at \in Places
    /\ stack.open \in Seq([kind : Kind, some : BOOLEAN])
    /\ outcome \in {"none", "ast", "error"}
    /\ parses \in Nat
    /\ start.parser \in Parser \cup {None}

(***************************************************************************)
(* Reference: what a parser that has parsed nothing before makes of a      *)
(* file, lexeme by lexeme.  White space is eaten after the "%-}" of a      *)
(* block up to the next text.                                              *)
(***************************************************************************)
FreshStart(file) == [mode |-> "INITIAL", rest |-> file, eat |-> FALSE,
                     stack |-> EmptyStack, tokens |-> <<>>]

FreshStep(s) ==
    LET x == Head(s.rest)
        t == TokenOf(s.mode, x, s.eat)
    IN  IF s.rest = <<>> \/ s.stack.at = "rejected" THEN s
        ELSE [mode   |-> ModeAfter(s.mode, x),
              rest   |-> RestAfter(s.mode, x, Tail(s.rest)),
              eat    |-> IF x = "space" THEN s.eat
                                        ELSE s.mode = "IN_BLOCK" /\ x = "%-}",
              stack  |-> IF t = NoToken THEN s.stack ELSE Shifted(s.stack, t),
              tokens |-> IF t = NoToken THEN s.tokens
                                        ELSE Append(s.tokens, <<t, x>>)]

FreshRun(file) ==
    LET run[n \in Nat] == IF n = 0 THEN FreshStart(file) ELSE FreshStep(run[n - 1])
    IN  run

\* A lexeme is scanned once, or twice if it is scanned again as "-}".
FreshParse(file) ==
    LET last == FreshRun(file)[2 * Len(file)]
    IN  [outcome |-> IF Accepts(last.stack) THEN "ast" ELSE "error",
         tokens |-> last.tokens]

\* eat_whitespace is set when the file begins: its leading white space is lost.
Eaten(file) ==
    IF file # <<>> /\ Head(file) = "space" THEN Tail(file) ELSE file

\* Parser::parse() gives what a new process would give for the file, if the
\* scanner was left clean by the parse before it - except that a file that ends
\* with "%-}" takes away the white space that the next file begins with, whichever
\* parser reads it (syntax.l:7).
AsFreshUnlessSoiled ==
    outcome # "none" /\ start.clean =>
        [outcome |-> outcome, tokens |-> tokens] =
            FreshParse(IF start.eat THEN Eaten(start.file) ELSE start.file)

\* Parser::parse() resets nothing in the scanner.  What makes it usable again is a
\* parse that succeeds, whatever state earlier errors had left it in: it leaves
\* nothing to scan and no end of file to report and, if it was given a token, the
\* start condition of text or of a comment.  It is not all that a new scanner has: a
\* comment that the file does not close is still open for the next file, and a parse
\* without tokens may leave any start condition.
SuccessCleansScanner ==
    outcome = "ast" =>
        /\ buffer[start.parser] = <<>>
        /\ ~ eofPending[start.parser]
        /\ tokens # <<>> => mode[start.parser] \in {"INITIAL", "IN_COMMENT"}

\* Every call of Parser::parse() returns.
EveryParseEnds == running # None ~> running = None
=============================================================================
