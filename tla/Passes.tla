------------------------------- MODULE Passes -------------------------------
(***************************************************************************)
(* The optimising passes on a template whose includes are resolved:        *)
(* constant folding, conversion of literal print blocks to raw blocks and  *)
(* coalescing of raw blocks, run in this order by a PassManager.  The PHP  *)
(* extension runs all of them, the command line tools the enabled ones.    *)
(***************************************************************************)
EXTENDS ConstantFolding, Evaluation, SequencesExt, TLC

CONSTANTS
    Templates,  \* the templates, as the parser leaves them
    Inputs,     \* values of the variables of a template
    Counts,     \* numbers of elements of what is iterated over
    StreamDigits,   \* significant digits operator<< prints (6)
    PhpDigits   \* significant digits PHP prints (its setting "precision")

ASSUME DigitsAssumption ==
    StreamDigits \in Nat \ {0} /\ PhpDigits \in Nat /\ StreamDigits <= PhpDigits

VARIABLES
    template,   \* the template
    enabled,    \* the passes that are run
    ast,        \* what the passes made of it so far
    at,         \* the next pass
    failed      \* has a pass thrown?

vars == <<template, enabled, ast, at, failed>>

(***************************************************************************)
(* AST nodes.  A text is a sequence of words.  The kids of an if or for    *)
(* block are its two bodies, of which the second may be missing.           *)
(***************************************************************************)
Block(kind, text, exprs, kids) ==
    [kind |-> kind, text |-> text, exprs |-> exprs, kids |-> kids]

RawBlock(text) == Block("raw", text, <<>>, <<>>)
PrintBlock(e) == Block("print", <<>>, <<e>>, <<>>)
IfBlock(cond, then, else) == Block("if", <<>>, <<cond>>, <<then, else>>)
ForBlock(iterable, body, else) == Block("for", <<>>, <<iterable>>, <<body, else>>)
Statements(kids) == Block("stmts", <<>>, <<>>, kids)
Missing == Block("missing", <<>>, <<>>, <<>>)

IsRaw(node) == node.kind = "raw"

\* from_statements_array().
FromStatements(list) == IF Len(list) = 1 THEN list[1] ELSE Statements(list)

(***************************************************************************)
(* Plausible bugs, each caught by a property below; the specification does *)
(* not use them.  Coalescing before conversion, a concatenation that ends  *)
(* with the first text, statements that are moved up but not folded.       *)
(***************************************************************************)
OrderCoalescingEarly == <<"fold", "coalesce", "convert">>


MergedKeepingSingle(kids) ==
    Statements(FlattenSeq([i \in DOMAIN kids |->
        IF kids[i].kind = "stmts" THEN kids[i].kids ELSE <<kids[i]>>]))

Order == <<"fold", "convert", "coalesce">>

\* concat().
Joined(texts, text) == texts \o text

\* CoalesceRawBlocksPass: a raw block takes the text of the raw blocks after it.
Coalesced(kids) ==
    FoldLeft(LAMBDA done, kid :
                IF IsRaw(kid) /\ done # <<>> /\ IsRaw(done[Len(done)])
                THEN [done EXCEPT ![Len(done)].text = Joined(@, kid.text)]
                ELSE Append(done, kid),
             <<>>, kids)

(***************************************************************************)
(* A double is printed in a number of significant digits, with an exponent *)
(* if it is too large or too small for them: the same way by operator<<    *)
(* and by PHP, but for the number of digits and the words.  A text is the  *)
(* number that is read back from it, and how an exponent is written.       *)
(***************************************************************************)
Stream == [digits |-> StreamDigits, inf |-> "inf", nan |-> "nan", exponent |-> "e"]
Php == [digits |-> PhpDigits, inf |-> "INF", nan |-> "NAN", exponent |-> "E"]

\* |a| in units of 10^-k, rounded to the nearest, the even one of two.
InUnits(a, k) ==
    LET n == Abs(a[1]) * (IF k > 0 THEN 10 ^ k ELSE 1)
        d == a[2] * (IF k < 0 THEN 10 ^ (-k) ELSE 1)
        up == 2 * (n % d) > d \/ (2 * (n % d) = d /\ (n \div d) % 2 = 1)
    IN  (n \div d) + (IF up THEN 1 ELSE 0)

\* The place after the point of the last of the digits of a (not zero).
Places == -4 .. 4   \* bound
LastPlace(a, digits) ==
    Max({k \in Places : InUnits(a, k) \in 10 ^ (digits - 1) .. 10 ^ digits - 1})

InDigits(a, digits) ==
    LET k == LastPlace(a, digits)
        m == Sign(a[1]) * InUnits(a, k)
    IN  IF a[1] = 0 THEN a
        ELSE IF k >= 0 THEN Fraction(m, 10 ^ k) ELSE <<m * 10 ^ (-k), 1>>

HasExponent(a, digits) ==
    a[1] # 0 /\ digits - 1 - LastPlace(a, digits) \notin -4 .. digits - 1

DoubleText(a, style) ==
    CASE a = NaN  -> <<style.nan>>
      [] a[2] = 0 -> IF a[1] > 0 THEN <<style.inf>> ELSE <<"-" \o style.inf>>
      [] OTHER    -> <<ToString(InDigits(a, style.digits)) \o
                       (IF HasExponent(a, style.digits) THEN style.exponent ELSE "")>>

\* ConvertLiteralPrintBlockToRawBlockPass.
LiteralText(e) ==
    CASE IsString(e)  -> <<e.op>>
      [] IsBoolean(e) -> <<IF True(e) THEN "true" ELSE "false">>
      [] e.node = "integer" -> <<ToString(e.value[1])>>
      [] OTHER        -> DoubleText(e.value, Stream)

\* process_node() of a pass.
Processed(pass, node) ==
    CASE pass = "fold" ->
            [node EXCEPT !.exprs = [i \in DOMAIN @ |-> Folded(@[i])]]
      [] pass = "convert" ->
            IF node.kind = "print" /\ IsLiteral(node.exprs[1])
            THEN RawBlock(LiteralText(node.exprs[1])) ELSE node
      [] pass = "coalesce" ->
            IF node.kind = "stmts" THEN Statements(Coalesced(node.kids))
            ELSE node

\* ASTPass::statements() once the children are processed: those of a child that
\* is a StatementsAST are moved up, and a single child takes its parent's place.
Merged(kids) ==
    FromStatements(FlattenSeq([i \in DOMAIN kids |->
        IF kids[i].kind = "stmts" THEN kids[i].kids ELSE <<kids[i]>>]))

\* ASTPass::process(): the node, then what it contains.
RECURSIVE Walked(_, _)
Walked(pass, node) ==
    LET processed == Processed(pass, node)
        kids == [i \in DOMAIN processed.kids |-> Walked(pass, processed.kids[i])]
    IN  IF processed.kind = "stmts" THEN Merged(kids)
        ELSE [processed EXCEPT !.kids = kids]

RECURSIVE Nodes(_)
Nodes(node) == {node} \cup UNION {Nodes(node.kids[i]) : i \in DOMAIN node.kids}
Exprs(node) == UNION {ToSet(n.exprs) : n \in Nodes(node)}

Throws(pass) == pass = "fold" /\ \E e \in Exprs(ast) : IsError(Folded(e))

Init ==
    /\ template \in Templates
    /\ enabled \in SUBSET ToSet(Order)
    /\ ast = template
    /\ at = 1
    /\ failed = FALSE

Running == ~ failed /\ at <= Len(Order)

\* PassManager::run() runs the next pass, and goes on with the AST it returns.
RunPass ==
    /\ Running /\ Order[at] \in enabled
    /\ ~ Throws(Order[at])
    /\ ast' = Walked(Order[at], ast)
    /\ at' = at + 1
    /\ UNCHANGED <<template, enabled, failed>>

\* A division by zero: run() deletes the AST and rethrows.
PassThrows ==
    /\ Running /\ Order[at] \in enabled
    /\ Throws(Order[at])
    /\ failed' = TRUE
    /\ UNCHANGED <<template, enabled, ast, at>>

\* optimizeAST() does not add a pass that is disabled.
SkipPass ==
    /\ Running /\ Order[at] \notin enabled
    /\ at' = at + 1
    /\ UNCHANGED <<template, enabled, ast, failed>>

Next == RunPass \/ PassThrows \/ SkipPass

Spec == Init /\ [][Next]_vars
-----------------------------------------------------------------------------
(***************************************************************************)
(* Reference: the output of an AST when the variable has value x and what  *)
(* is iterated over has n elements, as print_integer(), print_boolean(),   *)
(* print_double(), print_string() and print_variant() print it.            *)
(***************************************************************************)
PrintedText(v) ==
    CASE IsError(v)   -> <<"failure">>
      [] IsString(v)  -> <<v.op>>
      [] IsBoolean(v) -> IF True(v) THEN <<"1">> ELSE <<>>
      [] v.node = "integer" -> <<ToString(v.value[1])>>
      [] OTHER        -> DoubleText(v.value, Php)

RECURSIVE Output(_, _, _)
Output(node, x, n) ==
    CASE node.kind = "missing" -> <<>>
      [] node.kind = "raw"   -> node.text
      [] node.kind = "print" -> PrintedText(Valued(node.exprs[1], x))
      [] node.kind = "if"    -> IF True(Valued(node.exprs[1], x))
                                THEN Output(node.kids[1], x, n)
                                ELSE Output(node.kids[2], x, n)
      [] node.kind = "for"   -> IF n = 0 THEN Output(node.kids[2], x, n)
                                ELSE FlattenSeq([i \in 1 .. n |->
                                         Output(node.kids[1], x, n)])
      [] node.kind = "stmts" -> FlattenSeq([i \in DOMAIN node.kids |->
                                               Output(node.kids[i], x, n)])

SameOutput == \A x \in Inputs, n \in Counts : Output(ast, x, n) = Output(template, x, n)

\* The literals that ConvertLiteralPrintBlockToRawBlockPass finds in the template.
ConvertedLiterals ==
    LET found(e) == IF "fold" \in enabled THEN Folded(e) ELSE e
        printed == {n \in Nodes(template) : n.kind = "print"}
    IN  IF "convert" \in enabled
        THEN {e \in {found(n.exprs[1]) : n \in printed} : IsLiteral(e)} ELSE {}

\* A finite double that operator<< prints exactly, and without an exponent.
IsPlain(a) ==
    a[2] # 0 /\ InDigits(a, StreamDigits) = a /\ ~ HasExponent(a, StreamDigits)

\* A literal that conversion prints the way the runtime does: no boolean (TRUE is
\* converted to "true", which print_boolean() prints as "1"), and no double that
\* is infinite, is no number, or is not plain in the digits of operator<<.
PrintsAlike(e) ==
    /\ ~ IsBoolean(e)
    /\ e.node = "double" => IsPlain(e.value)


\* After a pass its work is done, and no later pass undoes it: nothing more to
\* fold, no literal left to print, no raw block after a raw block.
WorkIsDone(pass) ==
    CASE pass = "fold"    -> \A e \in Exprs(ast) : Folded(e) = e
      [] pass = "convert" -> \A n \in Nodes(ast) :
                                n.kind = "print" => ~ IsLiteral(n.exprs[1])
      [] pass = "coalesce" -> \A n \in Nodes(ast) : n.kind = "stmts" =>
                                \A i \in 2 .. Len(n.kids) :
                                    ~ (IsRaw(n.kids[i - 1]) /\ IsRaw(n.kids[i]))

NothingUndone ==
    \A i \in 1 .. at - 1 : Order[i] \in enabled => WorkIsDone(Order[i])

\* The shape LLVMVisitor and the passes count on: a list of statements is never
\* in another list and never has one statement; blocks keep two bodies.
Flat ==
    \A n \in Nodes(ast) :
        /\ n.kind = "stmts" => /\ Len(n.kids) # 1
                               /\ \A i \in DOMAIN n.kids : n.kids[i].kind # "stmts"
        /\ n.kind \in {"if", "for"} => /\ Len(n.kids) = 2
                                       /\ n.kids[1].kind # "missing"
        /\ n.kind \in {"raw", "print", "missing"} => n.kids = <<>>
=============================================================================
