-------------------------- MODULE ConstantFolding --------------------------
(***************************************************************************)
(* FoldConstantExpressionsPass, as an operator on expressions.             *)
(***************************************************************************)
EXTENDS Expressions

(***************************************************************************)
(* Plausible bugs, each caught by a property below; the specification does *)
(* not use them.  A modulus that is never negative, a zero looked for on    *)
(* the wrong side, a result typed by its left operand, doubles that are no *)
(* constants and a sign applied to the operand as it was before folding.   *)
(***************************************************************************)
FoldIntegersFloored(e, a, b) ==
    CASE e.op = "+" -> Long(Wrapped(a + b))
      [] e.op = "-" -> Long(Wrapped(a - b))
      [] e.op = "*" -> Long(Wrapped(a * b))
      [] b = 0      -> Error(IF e.op = "/" THEN "Division by zero"
                                           ELSE "Modulo by zero")
      [] a = Least /\ b = -1 -> Error("undefined")
      [] e.op = "/" -> Long(Quotient(a, b))
      [] OTHER      -> Long(IF b > 0 THEN a % b ELSE Remainder(a, b))

FoldIntegersZeroLeft(e, a, b) ==
    CASE e.op = "+" -> Long(Wrapped(a + b))
      [] e.op = "-" -> Long(Wrapped(a - b))
      [] e.op = "*" -> Long(Wrapped(a * b))
      [] a = 0      -> Error(IF e.op = "/" THEN "Division by zero"
                                           ELSE "Modulo by zero")
      [] b = 0      -> Error("undefined")
      [] e.op = "/" -> Long(Quotient(a, b))
      [] OTHER      -> Long(Remainder(a, b))

InexactByLeft(l, r) == l.node = "double"

FoldSignStale(e, sub) ==
    LET sign == IF e.op = "-" THEN -1 ELSE 1
    IN  CASE ~ IsNumeric(e.args[1]) -> Unary(e.op, sub)
          [] sub.node = "double"  -> Dbl(<<sign * sub.value[1], sub.value[2]>>)
          [] sub.node = "integer" -> Long(Wrapped(sign * sub.value[1]))

(***************************************************************************)
(* The pass.  Dividing the least long by -1 overflows, which is undefined. *)
(***************************************************************************)
\* isNumericLiteralExpression().
IsConstant(e) == IsNumeric(e)

FoldIntegers(e, a, b) ==
    CASE e.op = "+" -> Long(Wrapped(a + b))
      [] e.op = "-" -> Long(Wrapped(a - b))
      [] e.op = "*" -> Long(Wrapped(a * b))
      [] b = 0      -> Error(IF e.op = "/" THEN "Division by zero"
                                           ELSE "Modulo by zero")
      [] a = Least /\ b = -1 -> Error("undefined")
      [] e.op = "/" -> Long(Quotient(a, b))
      [] OTHER      -> Long(Remainder(a, b))

FoldDoubles(e, a, b) ==
    CASE e.op = "+" -> Dbl(Plus(a, b))
      [] e.op = "-" -> Dbl(Minus(a, b))
      [] e.op = "*" -> Dbl(Times(a, b))
      [] e.op = "/" -> Dbl(Over(a, b))
      [] OTHER      -> e

Inexact(l, r) == "double" \in {l.node, r.node}

FoldBinary(e) ==
    LET l == e.args[1]
        r == e.args[2]
    IN  IF ~ IsConstant(l) \/ ~ IsConstant(r) THEN e
        ELSE IF Inexact(l, r) THEN FoldDoubles(e, AsDouble(l), AsDouble(r))
        ELSE FoldIntegers(e, l.value[1], r.value[1])

\* The unary plus and minus, of an operand that was folded to sub.
FoldSign(e, sub) ==
    LET sign == IF e.op = "-" THEN -1 ELSE 1
    IN  CASE sub.node = "double"  -> Dbl(<<sign * sub.value[1], sub.value[2]>>)
          [] sub.node = "integer" -> Long(Wrapped(sign * sub.value[1]))
          [] OTHER                -> Unary(e.op, sub)

FoldUnary(e, sub) ==
    IF e.op \in {"+", "-"} THEN FoldSign(e, sub)
    ELSE IF IsBoolean(sub) THEN Bool(~ True(sub))
    ELSE Unary(e.op, sub)

\* static_cast to the class of a number, or of a boolean: what is not one is
\* read as one.
CastToNumber(e) == IF IsNumeric(e) THEN e ELSE Error("misread")
CastToBoolean(e) == IF IsBoolean(e) THEN e ELSE Error("misread")

\* NUMERIC_VALUE makes doubles of two numbers, two longs included, before they
\* are compared.
FoldEquality(e) ==
    LET l == e.args[1]
        r == e.args[2]
        same(equal) == Bool(IF e.op = "==" THEN equal ELSE ~ equal)
    IN  CASE IsNumeric(l) /\ IsNumeric(r) -> same(SameAs(AsDouble(l), AsDouble(r)))
          [] IsBoolean(l) /\ IsBoolean(r) -> same(l.value = r.value)
          [] IsString(l) /\ IsString(r)   -> same(l.op = r.op)
          [] OTHER                        -> e

FoldOrder(e) ==
    LET l == CastToNumber(e.args[1])
        r == CastToNumber(e.args[2])
        a == AsDouble(l)
        b == AsDouble(r)
    IN  CASE ~ IsNumeric(e.args[1]) /\ ~ IsNumeric(e.args[2]) -> e
          [] IsError(l) \/ IsError(r) -> Error("misread")
          [] e.op = "<"  -> Bool(Below(a, b))
          [] e.op = ">"  -> Bool(Below(b, a))
          [] e.op = "<=" -> Bool(Below(a, b) \/ SameAs(a, b))
          [] OTHER       -> Bool(Below(b, a) \/ SameAs(a, b))

FoldConnective(e) ==
    LET l == CastToBoolean(e.args[1])
        r == CastToBoolean(e.args[2])
    IN  CASE ~ IsBoolean(e.args[1]) /\ ~ IsBoolean(e.args[2]) -> e
          [] IsError(l) \/ IsError(r) -> Error("misread")
          [] e.op = "&&" -> Bool(True(l) /\ True(r))
          [] OTHER       -> Bool(True(l) \/ True(r))

FoldComparison(e) ==
    CASE ~ IsLiteral(e.args[1]) \/ ~ IsLiteral(e.args[2]) -> e
      [] e.op \in {"==", "!="} -> FoldEquality(e)
      [] e.op \in Orders       -> FoldOrder(e)
      [] OTHER                 -> FoldConnective(e)

\* process(): the operands from left to right, then the node; the first
\* exception ends it.  (ExpressionPass walks the operands of what is left a
\* second time, which changes nothing: FoldIsStable.)
RECURSIVE Folded(_)
Folded(e) ==
    LET l == Folded(e.args[1])
        r == Folded(e.args[2])
        node == [e EXCEPT !.args = <<l, r>>]
    IN  CASE e.args = <<>> -> e
          [] IsError(l) -> l
          [] e.node = "unary" -> FoldUnary(e, l)
          [] Len(e.args) = 1 -> [e EXCEPT !.args = <<l>>]
          [] IsError(r) -> r
          [] e.node = "binary" -> FoldBinary(node)
          [] e.node = "comparison" -> FoldComparison(node)
          [] OTHER -> node
=============================================================================
