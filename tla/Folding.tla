------------------------------ MODULE Folding ------------------------------
(***************************************************************************)
(* An expression from the parser to FoldConstantExpressionsPass.  The      *)
(* parser builds it bottom up, on the stack of its LALR automaton; if it   *)
(* is in an included file, its variable is replaced; the pass folds it.    *)
(***************************************************************************)
EXTENDS ConstantFolding, Evaluation

CONSTANTS
    Leaves,         \* literals and variables in the template
    Replacements,   \* what an include block may map a variable to
    MaxOperands,    \* bound: operands on the stack of the parser
    MaxOperations   \* bound: operations in an expression

ASSUME FoldingAssumption == MaxOperands \in Nat /\ MaxOperations \in Nat

VARIABLES
    operands,   \* the expressions parsed and not yet used in another one
    operations, \* how many operations were parsed
    included,   \* were the variables of the expression replaced?
    result      \* what the pass made of the expression; none at first

vars == <<operands, operations, included, result>>

None == Error("none")

\* The expression with its variable replaced.
RECURSIVE Substituted(_, _)
Substituted(e, x) ==
    IF e.node = "variable" THEN x
    ELSE [e EXCEPT !.args = [i \in DOMAIN @ |-> Substituted(@[i], x)]]

Init ==
    /\ operands = <<>>
    /\ operations = 0
    /\ included = FALSE
    /\ result = None

Parsing == result = None /\ ~ included

\* The rules of the grammar for literals and variables.
ParseLeaf(e) ==
    /\ Parsing
    /\ Len(operands) < MaxOperands
    /\ operands' = Append(operands, e)
    /\ UNCHANGED <<operations, included, result>>

\* The rules for an operation: its node, if its operands pass the assertions of
\* the rule (if not, the template is rejected).
ParseOperation(node, op, n) ==
    LET kept == Len(operands) - n
        e    == Node(node, op, <<0, 1>>, SubSeq(operands, kept + 1, kept + n))
    IN  /\ Parsing
        /\ kept >= 0
        /\ operations < MaxOperations
        /\ \A i \in 1 .. n : ValueType(e.args[i]) \in OperandTypes(e)
        /\ operands' = Append(SubSeq(operands, 1, kept), e)
        /\ operations' = operations + 1
        /\ UNCHANGED <<included, result>>

\* ReplaceVariableReferencesPass: the expression is in an included file, and its
\* variable gets what the include block maps it to.  Types are not looked at.
Replace(x) ==
    /\ Parsing
    /\ Len(operands) = 1
    /\ operands' = <<Substituted(operands[1], x)>>
    /\ included' = TRUE
    /\ UNCHANGED <<operations, result>>

Fold ==
    /\ result = None
    /\ Len(operands) = 1
    /\ result' = Folded(operands[1])
    /\ UNCHANGED <<operands, operations, included>>

Next ==
    \/ \E e \in Leaves : ParseLeaf(e)
    \/ \E op \in BinaryOps : ParseOperation("binary", op, 2)
    \/ \E op \in ComparisonOps : ParseOperation("comparison", op, 2)
    \/ \E op \in UnaryOps : ParseOperation("unary", op, 1)
    \/ ParseOperation("call", "f", 1)
    \/ \E x \in Replacements : Replace(x)
    \/ Fold

Spec == Init /\ [][Next]_vars
-----------------------------------------------------------------------------
CONSTANT Inputs     \* the values of variable x

\* The pass has run on this tree, and has not thrown.
tree == operands[1]
Done == result # None /\ ~ IsError(result)

Operations(e) == {s \in Subtrees(e) : s.node \in {"binary", "unary", "comparison"}}

\* Operations(e) whose operands are no variants have the values the native code
\* compares.  A folded "!=" is TRUE of NaN, FCmpONE is not.
Compares(e, ops, Hazard(_, _)) == \E s \in Operations(e) :
    /\ s.op \in ops
    /\ ~ IsVariant(s.args[1]) /\ ~ IsVariant(s.args[2])
    /\ \E x \in Inputs : Hazard(Valued(s.args[1], x), Valued(s.args[2], x))

ComparesNaN(e) ==
    LET nan(l, r) == Dbl(NaN) \in {l, r}
    IN  Compares(e, {"!="}, nan)

\* Two longs that are different, and the same double: folding compares doubles,
\* the native code compares longs.
ComparesRounded(e) ==
    LET rounded(l, r) == /\ {l.node, r.node} = {"integer"}
                         /\ l # r /\ AsDouble(l) = AsDouble(r)
    IN  Compares(e, {"==", "!="} \cup Orders, rounded)

\* Type correctness: the pass leaves an expression with the static type of the
\* one it was given, which the type rules of the grammar would accept as well if
\* they accept that one: what LLVMVisitor generates for the nodes around it does
\* not depend on folding.
FoldKeepsTypes ==
    Done => /\ ValueType(result) = ValueType(tree)
            /\ WellTyped(tree) => WellTyped(result)

\* The folded expression has the value the native code (for numbers, strings
\* and booleans) and the host (for variants) give the original one, wherever
\* that is defined; with two exceptions, where the code folds a comparison to
\* what native code does not find: "!=" of NaN, and the comparison of two
\* integers no double tells apart (NUMERIC_VALUE).
FoldPreservesValue ==
    Done /\ ~ ComparesNaN(tree) /\ ~ ComparesRounded(tree) =>
        \A x \in Inputs :
            Valued(tree, x) # Undefined => Valued(result, x) = Valued(tree, x)

\* What the pass throws ("Division by zero", "Modulo by zero"), or leaves to the
\* language (the least long divided by -1), is never about an expression that
\* has a value.  Whether the template ever evaluates that expression does not
\* matter to the pass: one in a branch that is never taken refuses the template.
FoldThrowsOnlyAtUndefined ==
    result \in {Error("Division by zero"), Error("Modulo by zero"), Undefined} =>
        \A x \in Inputs : Valued(tree, x) \in {Undefined, Fails}

\* Folding a folded expression changes nothing, and does not throw: walking the
\* operands twice, and running the pass again, is harmless.
FoldIsStable == Done => Folded(result) = result

\* No literal is cast to a class it is not of ("these comparison operations only
\* supports numeric values", "&&" and "||" "only supports boolean values") in an
\* expression that obeys the type rules of the grammar, however folding changes
\* its operands.  Orders and connectives look for one operand of the right class
\* and cast both.  So a mapping to a literal, of which nothing checks the type,
\* does get a literal misread: TRUE && x, where x becomes 2.
FoldReadsItsOperandsIfWellTyped ==
    result = Error("misread") => ~ WellTyped(tree)
=============================================================================
