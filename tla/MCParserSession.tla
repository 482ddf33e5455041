-------------------------- MODULE MCParserSession --------------------------
(***************************************************************************)
(* Two parsers and the files of the run.                                   *)
(***************************************************************************)
EXTENDS ParserSession

CONSTANTS p1, p2

MCParser == {p1, p2}

MCFile == {
    <<>>,
    <<"space", "word">>,
    \* {{ without a name: the rest is left in the scanner
    <<"{{", "}}", "space", "word">>,
    \* a file that ends inside a variable, and one that ends inside a block,
    \* where the scanner has seen the end of the file
    <<"{{", "word">>,
    <<"{%", "endif">>,
    \* a comment that is not closed
    <<"word", "{#", "word">>,
    \* text that closes it, and a variable
    <<"word", "space", "#}", "{{", "word", "}}">>,
    \* white space that is eaten, at the end of the file too
    <<"space", "{%", "if", "word", "%-}", "space", "word", "{%", "endif", "%-}">>,
    <<"{%", "if", "word", "%}", "word", "{%", "elseif", "word", "%}", "word",
      "{%", "else", "%}", "word", "{%", "endif", "%}">>,
    <<"{%", "for", "word", "in", "word", "%}", "word", "{%", "else", "%}",
      "word", "{%", "endfor", "%}">>}
=============================================================================
