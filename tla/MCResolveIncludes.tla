------------------------- MODULE MCResolveIncludes -------------------------
(***************************************************************************)
(* Three files: main includes a and b, a includes b.  Files with no, one   *)
(* and several statements, so that an AST is empty, a single node or a     *)
(* StatementsAST, and included ASTs are spliced, substituted for the whole *)
(* file, or vanish; includes with a scope, with a complete mapping and     *)
(* with one that misses a variable.                                        *)
(***************************************************************************)
EXTENDS ResolveIncludes, TLC

Name == {"x", "y"}

Using(f) == IncludeBlock(f, <<"y", "k">>, <<>>)
With(f) == IncludeBlock(f, <<>>, ("x" :> <<"y">>) @@ ("y" :> <<"x", "k">>))
Missing(f) == IncludeBlock(f, <<>>, "x" :> <<"x">>)
X == PrintBlock(<<"x">>)
Y == PrintBlock(<<"y", "k">>)

BBodies == {<<>>, <<X>>, <<Y, X>>, <<RawBlock, X, RawBlock>>}
ABodies == {<<Using("b")>>, <<With("b")>>, <<X, With("b")>>,
            <<With("b"), Using("b"), Y>>, <<RawBlock>>, <<Missing("b")>>}
MainBodies == {<<Using("a")>>, <<With("a")>>,
               <<X, With("a"), Using("b")>>, <<With("b"), With("a")>>,
               <<Y, Using("a"), RawBlock>>, <<X, Missing("a"), Y>>}

MCPrograms ==
    {("main" :> m) @@ ("a" :> a) @@ ("b" :> b) :
        m \in MainBodies, a \in ABodies, b \in BBodies}
=============================================================================
