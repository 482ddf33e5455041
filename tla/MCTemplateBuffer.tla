-------------------------- MODULE MCTemplateBuffer --------------------------
(***************************************************************************)
(* A small instance of TemplateBuffer: two letters and NUL, strings of     *)
(* every length from 0 to past a chunk, an initial block of 2 chars and    *)
(* chunks of 3, so that a string may fit, fill the block exactly, need one *)
(* chunk, or be longer than a chunk.                                       *)
(***************************************************************************)
EXTENDS TemplateBuffer

MCByte == {"a", "b", "0"}
MCText == {<<>>, <<"a">>, <<"b", "a">>, <<"a", "0", "b">>,
           <<"b", "b", "a", "a">>}
=============================================================================
