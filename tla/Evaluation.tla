----------------------------- MODULE Evaluation -----------------------------
(***************************************************************************)
(* What an expression is worth: the native code LLVMVisitor generates for  *)
(* numbers, strings and booleans, the host (Zend) for variants.            *)
(***************************************************************************)
EXTENDS Expressions, Bitwise

(***************************************************************************)
(* Native code, for operands that are no variants: i64, i1, double or a    *)
(* pointer.  The type rules of the grammar keep booleans and strings out   *)
(* of most operations; an include puts them there.  "undefined" is an      *)
(* instruction LLVM refuses (an assertion) or whose result is poison.      *)
(***************************************************************************)
Undefined == Error("undefined")

\* SIToFP, of an i64 and of an i1 (whose TRUE is -1).
ToDouble(v) == IF IsBoolean(v) THEN <<-v.value[1], 1>> ELSE AsDouble(v)

NativeIntegers(op, a, b) ==
    CASE op = "+" -> Long(Wrapped(a + b))
      [] op = "-" -> Long(Wrapped(a - b))
      [] op = "*" -> Long(Wrapped(a * b))
      [] b = 0 \/ (a = Least /\ b = -1) -> Undefined
      [] op = "/" -> IF Remainder(a, b) = 0 THEN Long(Quotient(a, b))
                                            ELSE Undefined
      [] OTHER    -> Long(Remainder(a, b))

\* One bit, of which TRUE is -1: what it adds up to wraps, -1 / -1 overflows.
NativeBits(op, a, b) ==
    CASE op \in {"+", "-"} -> Bool(a # b)
      [] op = "*"          -> Bool(a /\ b)
      [] a \/ ~ b          -> Undefined
      [] OTHER             -> Bool(FALSE)

Computed(op, a, b) ==
    CASE op = "+" -> Plus(a, b)
      [] op = "-" -> Minus(a, b)
      [] op = "*" -> Times(a, b)
      [] op = "/" -> Over(a, b)
      [] OTHER    -> Mod(a, b)

\* Operands LLVM has no instruction for: a pointer, and integers of two widths.
Mismatched(l, r) ==
    "string" \in {l.node, r.node} \/ {l.node, r.node} = {"integer", "boolean"}

NativeBinary(op, l, r) ==
    CASE Mismatched(l, r) -> Undefined
      [] {l.node, r.node} = {"integer"} ->
            NativeIntegers(op, l.value[1], r.value[1])
      [] {l.node, r.node} = {"boolean"} -> NativeBits(op, True(l), True(r))
      [] OTHER -> Dbl(Computed(op, ToDouble(l), ToDouble(r)))

\* CreateNeg and CreateNot are instructions for integers: the bits of a long
\* are negated, and the negation of one bit is that bit.
NativeUnary(op, v) ==
    CASE op = "+" -> v
      [] v.node \in {"double", "string"} -> Undefined
      [] op = "-" -> IF IsBoolean(v) THEN v ELSE Long(Wrapped(-v.value[1]))
      [] OTHER    -> IF IsBoolean(v) THEN Bool(~ True(v)) ELSE Long(-1 - v.value[1])

\* The ordered comparisons of two numbers: FCmpONE is FALSE of NaN.
Ordered(op, a, b) ==
    CASE op = "==" -> SameAs(a, b)
      [] op = "!=" -> Below(a, b) \/ Below(b, a)
      [] op = "<"  -> Below(a, b)
      [] op = ">"  -> Below(b, a)
      [] op = "<=" -> Below(a, b) \/ SameAs(a, b)
      [] op = ">=" -> Below(b, a) \/ SameAs(a, b)

\* The connectives of two longs are bitwise.
NativeConnective(op, l, r) ==
    LET bits(v) == v.value[1] % 2 ^ Width
    IN  CASE "double" \in {l.node, r.node} -> Undefined
          [] IsBoolean(l) /\ op = "&&" -> Bool(True(l) /\ True(r))
          [] IsBoolean(l) /\ op = "||" -> Bool(True(l) \/ True(r))
          [] op = "&&" -> Long(Wrapped(bits(l) & bits(r)))
          [] OTHER     -> Long(Wrapped(bits(l) | bits(r)))

\* Two longs are compared as they are.
NativeComparison(op, l, r) ==
    CASE Mismatched(l, r) -> Undefined
      [] op \in Connectives -> NativeConnective(op, l, r)
      [] {l.node, r.node} = {"integer"} -> Bool(Ordered(op, l.value, r.value))
      [] OTHER -> Bool(Ordered(op, ToDouble(l), ToDouble(r)))

(***************************************************************************)
(* The host (Zend): booleans and strings become numbers, an integer that   *)
(* overflows a double, and a division by zero fails.                       *)
(***************************************************************************)
Fails == Error("fails")

AsNumber(v) == IF IsString(v) THEN Long(0)
               ELSE IF IsBoolean(v) THEN Long(v.value[1])
               ELSE v
AsLong(v) == IF AsNumber(v).value[2] = 0 THEN 0
             ELSE Wrapped(Quotient(AsNumber(v).value[1], AsNumber(v).value[2]))
Truth(v) == IsString(v) \/ v.value # <<0, 1>>

\* An operation on two numbers: on two longs if its result is one, else on
\* doubles.
ZendNumbers(op, l, r) ==
    LET exact == Computed(op, l.value, r.value)
    IN  IF {l.node, r.node} = {"integer"} /\ exact[2] = 1 /\ InRange(exact[1])
        THEN Long(exact[1])
        ELSE Dbl(Computed(op, AsDouble(l), AsDouble(r)))

ZendBinary(op, left, right) ==
    LET l == AsNumber(left)
        r == AsNumber(right)
    IN  CASE op = "/" /\ r.value = <<0, 1>>  -> Fails
          [] op = "%" /\ AsLong(right) = 0   -> Fails
          [] op = "%" -> Long(Remainder(AsLong(left), AsLong(right)))
          [] OTHER    -> ZendNumbers(op, l, r)

\* unary_variant_operation(): the sign is an operation on zero.
ZendUnary(op, v) == IF op = "!" THEN Bool(~ Truth(v)) ELSE ZendBinary(op, Long(0), v)

\* compare_variant(), where compare_function() gives the sign of a difference
\* (0 for NaN), of the truths of the operands if either is a boolean.  (Two
\* different strings only meet in == and !=.)
ZendComparison(op, l, r) ==
    LET boolean == IsBoolean(l) \/ IsBoolean(r)
        inexact == "double" \in {l.node, r.node}
        compared(v) == CASE boolean -> Bool(Truth(v)).value
                         [] inexact -> AsDouble(AsNumber(v))
                         [] OTHER   -> AsNumber(v).value
        a == compared(l)
        b == compared(r)
        sign == IF IsString(l) /\ IsString(r) THEN IF l.op = r.op THEN 0 ELSE 1
                ELSE IF Below(a, b) THEN -1 ELSE IF Below(b, a) THEN 1 ELSE 0
    IN  CASE op = "&&" -> Bool(Truth(l) /\ Truth(r))
          [] op = "||" -> Bool(Truth(l) \/ Truth(r))
          [] OTHER     -> Bool(Ordered(op, <<sign, 1>>, <<0, 1>>))

\* Is the value of an expression a variant?  (Not quite its valueType(): the
\* negation of a variant is one.)
RECURSIVE IsVariant(_)
IsVariant(e) ==
    \/ e.node \in {"variable", "call"}
    \/ /\ e.node \in {"binary", "unary"}
       /\ \E i \in DOMAIN e.args : IsVariant(e.args[i])

(***************************************************************************)
(* The value of an expression when variable x has a given value.  A node   *)
(* is an operation of the host if one of its operands is a variant.  Every *)
(* call returns its first argument.                                        *)
(***************************************************************************)
RECURSIVE Valued(_, _)
Valued(e, x) ==
    LET l == Valued(e.args[1], x)
        r == Valued(e.args[2], x)
        variant == \E i \in DOMAIN e.args : IsVariant(e.args[i])
    IN  CASE IsLiteral(e) -> e
          [] e.node = "variable" -> x
          [] IsError(l) -> l
          [] e.node = "call" -> l
          [] e.node = "unary" -> IF variant THEN ZendUnary(e.op, l)
                                            ELSE NativeUnary(e.op, l)
          [] IsError(r) -> r
          [] e.node = "binary" -> IF variant THEN ZendBinary(e.op, l, r)
                                             ELSE NativeBinary(e.op, l, r)
          [] OTHER -> IF variant THEN ZendComparison(e.op, l, r)
                                 ELSE NativeComparison(e.op, l, r)
=============================================================================
