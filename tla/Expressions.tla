---------------------------- MODULE Expressions ----------------------------
(***************************************************************************)
(* Expressions of a template: the trees, their static types, the type      *)
(* rules of the grammar, and the arithmetic of the numbers in them.        *)
(*                                                                         *)
(* An integer is a C++ long, of Width bits.  A double is a fraction <<n, d>>*)
(* in lowest terms, with d = 0 for the infinities and NaN.  A long is      *)
(* rounded to Precision bits where the code makes a double of it; signed   *)
(* zeros are left out, and so is the rounding of what doubles add up to.   *)
(* A call stands for every node that has operands and a value only the     *)
(* host knows (method calls, attributes).                                  *)
(***************************************************************************)
EXTENDS Integers, Sequences, FiniteSetsExt

CONSTANTS
    Width,      \* bits of a long
    Precision   \* bits of the significand of a double

ASSUME WidthAssumption == Width \in Nat \ {0}
ASSUME PrecisionAssumption == Precision \in Nat \ {0}

(***************************************************************************)
(* Numbers.                                                                *)
(***************************************************************************)
Least == -(2 ^ (Width - 1))
InRange(n) == n >= Least /\ n < -Least
Wrapped(n) == ((n - Least) % (2 ^ Width)) + Least

Sign(n) == IF n > 0 THEN 1 ELSE IF n < 0 THEN -1 ELSE 0
Abs(n) == IF n < 0 THEN -n ELSE n

\* C++ division and modulus truncate towards zero.
Quotient(a, b) == Sign(a) * Sign(b) * (Abs(a) \div Abs(b))
Remainder(a, b) == a - b * Quotient(a, b)

Fraction(n, d) ==
    IF d = 0 THEN <<Sign(n), 0>>
    ELSE LET g == Max({k \in 1 .. Abs(d) : n % k = 0 /\ Abs(d) % k = 0})
         IN  <<Sign(d) * (n \div g), Abs(d) \div g>>
NaN == <<0, 0>>

\* The double nearest to a long; of two, the one with an even significand.
Rounded(n) ==
    LET unit == 2 ^ Min({k \in 0 .. Width : Abs(n) < 2 ^ (k + Precision)})
        whole == Abs(n) \div unit
        twice == 2 * (Abs(n) % unit)
        up == twice > unit \/ (twice = unit /\ whole % 2 = 1)
    IN  Sign(n) * unit * (IF up THEN whole + 1 ELSE whole)

\* Two infinities add up to one of them, or to nothing.
Plus(a, b) ==
    IF a[2] = 0 /\ b[2] = 0
    THEN IF a = b THEN a ELSE NaN
    ELSE Fraction(a[1] * b[2] + b[1] * a[2], a[2] * b[2])
Negated(a) == <<-a[1], a[2]>>
Minus(a, b) == Plus(a, Negated(b))
Times(a, b) == Fraction(a[1] * b[1], a[2] * b[2])
Over(a, b) == IF b[1] = 0 /\ b[2] # 0 THEN <<Sign(a[1]), 0>>
              ELSE Fraction(a[1] * b[2], a[2] * b[1])
Mod(a, b) ==
    IF a[2] = 0 \/ b = NaN \/ b[1] = 0 THEN NaN
    ELSE IF b[2] = 0 THEN a
    ELSE Minus(a, Times(b, <<Quotient(a[1] * b[2], a[2] * b[1]), 1>>))

\* The IEEE comparisons: NaN is different from, and not below, everything.
SameAs(a, b) == a = b /\ a # NaN
Below(a, b) ==
    /\ NaN \notin {a, b}
    /\ a # b
    /\ IF a[2] = 0 /\ b[2] = 0 THEN a[1] < b[1] ELSE a[1] * b[2] < b[1] * a[2]

(***************************************************************************)
(* Trees.                                                                  *)
(***************************************************************************)
Node(node, op, value, args) ==
    [node |-> node, op |-> op, value |-> value, args |-> args]

Long(n) == Node("integer", "", <<n, 1>>, <<>>)
Dbl(a) == Node("double", "", a, <<>>)
Bool(b) == Node("boolean", "", <<IF b THEN 1 ELSE 0, 1>>, <<>>)
Str(s) == Node("string", s, <<0, 1>>, <<>>)
Variable(name) == Node("variable", name, <<0, 1>>, <<>>)
Call(name, args) == Node("call", name, <<0, 1>>, args)
Binary(op, l, r) == Node("binary", op, <<0, 1>>, <<l, r>>)
Unary(op, e) == Node("unary", op, <<0, 1>>, <<e>>)
Comparison(op, l, r) == Node("comparison", op, <<0, 1>>, <<l, r>>)

\* What is no expression: an exception, a result the language leaves undefined.
Error(what) == Node("error", what, <<0, 1>>, <<>>)

BinaryOps == {"+", "-", "*", "/", "%"}
UnaryOps == {"+", "-", "!"}
Orders == {"<", "<=", ">", ">="}
Connectives == {"&&", "||"}
ComparisonOps == {"==", "!="} \cup Orders \cup Connectives

IsLiteral(e) == e.node \in {"integer", "double", "boolean", "string"}
IsNumeric(e) == e.node \in {"integer", "double"}
IsBoolean(e) == e.node = "boolean"
IsString(e) == e.node = "string"
IsError(e) == e.node = "error"

True(e) == e.value[1] = 1

\* A number as a double.
AsDouble(e) ==
    IF e.node = "integer" THEN <<Rounded(e.value[1]), 1>> ELSE e.value

RECURSIVE Subtrees(_)
Subtrees(e) == {e} \cup UNION {Subtrees(e.args[i]) : i \in DOMAIN e.args}

\* valueType().
RECURSIVE ValueType(_)
ValueType(e) ==
    LET types == {ValueType(e.args[i]) : i \in DOMAIN e.args}
    IN  CASE IsLiteral(e) -> e.node
          [] e.node \in {"variable", "call"} -> "variant"
          [] e.node = "comparison" \/ e.op = "!" -> "boolean"
          [] OTHER -> IF "variant" \in types THEN "variant"
                      ELSE IF types = {"integer"} THEN "integer"
                      ELSE "double"

(***************************************************************************)
(* Plausible bug, caught by a property; no specification uses it: a grammar *)
(* that forgets what the connectives need.                                 *)
(***************************************************************************)
OperandTypesAnyConnective(e) ==
    LET all == {"integer", "double", "boolean", "string", "variant"}
    IN  IF e.node \in {"call"} \/ e.op \in {"==", "!="} \cup Connectives THEN all
        ELSE IF e.op = "!" THEN {"boolean", "variant"}
        ELSE {"integer", "double", "variant"}

\* The types the grammar asks of the operands of a node (ASSERT_NUMERIC and
\* ASSERT_BOOLEAN).
OperandTypes(e) ==
    LET all == {"integer", "double", "boolean", "string", "variant"}
    IN  IF e.node \in {"call"} \/ e.op \in {"==", "!="} THEN all
        ELSE IF e.op \in {"!"} \cup Connectives THEN {"boolean", "variant"}
        ELSE {"integer", "double", "variant"}

\* What the parser accepts.
WellTyped(e) ==
    \A s \in Subtrees(e) : \A i \in DOMAIN s.args :
        ValueType(s.args[i]) \in OperandTypes(s)
=============================================================================
