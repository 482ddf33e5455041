----------------------------- MODULE MCFolding -----------------------------
(***************************************************************************)
(* Expressions with up to two operations, on a few literals of each type   *)
(* and a variable: both zeros, a half, the most a 4 bit long can be, which *)
(* makes 7 + 2 overflow.  Of two bits of precision, doubles tell 7 - 2     *)
(* from 7 but not from 4.                                                  *)
(***************************************************************************)
EXTENDS Folding

X == Variable("x")

\* Every type, and few of each.
MCLeaves == {Long(0), Long(2), Long(4), Long(7), Dbl(<<0, 1>>), Dbl(<<1, 2>>),
             Bool(TRUE), Str("a"), X}

MCInputs == {Long(0), Long(3), Dbl(<<1, 2>>), Bool(FALSE), Str("a")}

\* An attribute of another variable, and the literals and the negative number
\* that an include block may just as well map a variable to.
MCReplacements == {Call("attribute", <<Variable("y")>>), Str("a"), Bool(TRUE),
                   Long(2), Unary("-", Dbl(<<1, 2>>))}
=============================================================================
