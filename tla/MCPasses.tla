----------------------------- MODULE MCPasses -----------------------------
(***************************************************************************)
(* Templates of up to three plain statements, or with one if or for block  *)
(* whose bodies have one or two statements: raw blocks side by side, print *)
(* blocks of literals and of expressions that fold to one (next to raw     *)
(* blocks, so that conversion makes something to coalesce), bodies of a    *)
(* single statement, and a division by zero.  Doubles of up to two digits  *)
(* are plain, 100 and 1/8 are not, 1000 has an exponent for PHP too, and   *)
(* there are an infinity, a NaN and a boolean.                             *)
(***************************************************************************)
EXTENDS Passes

X == Variable("x")
Half == Dbl(<<1, 2>>)
Sum == Binary("+", Long(1), Half)
IsOne == Comparison("==", X, Long(1))
Certain == Comparison("<", Long(1), Long(2))

Plain == {RawBlock(<<"a">>), RawBlock(<<"b">>), PrintBlock(Str("c")), PrintBlock(Long(2)),
          PrintBlock(Sum), PrintBlock(X)}
Lists(set) == {<<s>> : s \in set} \cup (set \X set)
Bodies == {FromStatements(l) : l \in Lists(Plain \ {RawBlock(<<"b">>), PrintBlock(Sum)})}
ElseBodies == {Missing, RawBlock(<<"d">>), Statements(<<RawBlock(<<"d">>), PrintBlock(Sum)>>)}
Blocks == {IfBlock(c, b, e) : c \in {IsOne, Certain}, b \in Bodies, e \in ElseBodies}
          \cup {ForBlock(X, b, e) : b \in Bodies, e \in ElseBodies}
Wrong == {PrintBlock(Binary("/", Long(1), Long(0)))}
Doubles == {PrintBlock(Dbl(a)) : a \in {<<12, 1>>, <<100, 1>>, <<1000, 1>>, <<1, 8>>}}
           \cup {PrintBlock(Binary("/", Dbl(<<n, 1>>), Long(0))) : n \in {0, 1}}
Constants == Doubles \cup {PrintBlock(Certain)}

MCTemplates ==
    {FromStatements(l) : l \in {<<>>} \cup Lists(Plain) \cup (Plain \X Plain \X Plain)
        \cup {<<b>> : b \in Blocks} \cup (Blocks \X Plain) \cup (Plain \X Wrong)
        \cup (Plain \X Constants) \cup {<<c>> : c \in Constants}}

MCInputs == {Long(1), Half, Str("e")}
=============================================================================
