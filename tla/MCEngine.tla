----------------------------- MODULE MCEngine -----------------------------
(***************************************************************************)
(* The contents of the run: two sound files; one with a syntax error; a    *)
(* condition that is a variable, at which the visitor throws; and a        *)
(* comparison of literals of different types, of which it makes no IR that *)
(* the verifier accepts.                                                   *)
(***************************************************************************)
EXTENDS Engine, TLC

MCContent == {"one", "two", "unclosed", "if foo", "compared"}
MCFlaw ==
    [c \in MCContent |->
        CASE c = "unclosed" -> "syntax"
          [] c = "if foo"   -> "visit"
          [] c = "compared" -> "verify"
          [] OTHER          -> "none"]

\* Templates, and names of functions, are interchangeable.
MCSymmetry == Permutations(Template) \cup Permutations(FunctionName)
=============================================================================
