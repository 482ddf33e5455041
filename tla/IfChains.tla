------------------------------ MODULE IfChains ------------------------------
(***************************************************************************)
(* How the grammar builds the AST of a template: the lists of statements,  *)
(* loops with an else body, and the chains of if, elseif and else.  The    *)
(* parser is a stack of open blocks; each step is what the actions of      *)
(* syntax.y do when a statement or a keyword of a block has been read.     *)
(* The text is read in parallel into an outline of what was written, which *)
(* is what the AST is compared with.                                       *)
(*                                                                         *)
(* Conditions and pieces of text are numbered in the order they appear.    *)
(* An AST of a statement that is not a block (raw, print, include) is one  *)
(* leaf.                                                                   *)
(***************************************************************************)
EXTENDS Integers, Sequences, SequencesExt

CONSTANTS
    None,           \* a null AST*
    MaxBlocks,      \* bound: if and for blocks of a template
    MaxBranches,    \* bound: conditions of a template, elseif included
    MaxLeaves       \* bound: leaves of a template

VARIABLES
    open,       \* the blocks being parsed, outermost first; the first is the root
    root,       \* the AST handed to syntax_set_extra(), None until then
    deleted,    \* the nodes that were deleted, one entry per deletion
    conds,      \* number of conditions read so far
    leaves,     \* number of leaves read so far
    source      \* the outline of the whole template, once it has been read

vars == <<open, root, deleted, conds, leaves, source>>

Leaf(i) == [type |-> "leaf", id |-> i]
If(c, then, else) == [type |-> "if", cond |-> c, then |-> then, else |-> else]
For(c, body, else) == [type |-> "for", cond |-> c, then |-> body, else |-> else]
Statements(list) == [type |-> "statements", list |-> list]

\* The nodes of an AST, one entry each.  Blocks are named by their condition.
RECURSIVE Nodes(_)
Nodes(ast) ==
    IF ast = None THEN <<>>
    ELSE CASE ast.type = "leaf" -> <<<<"leaf", ast.id>>>>
           [] ast.type = "statements" ->
                FlattenSeq([i \in DOMAIN ast.list |-> Nodes(ast.list[i])])
           [] OTHER -> <<<<"block", ast.cond>>>> \o Nodes(ast.then)
                                                \o Nodes(ast.else)

\* from_statements_array(): a list of one statement is that statement.
FromStatementsArray(list) ==
    IF Len(list) = 1 THEN list[1] ELSE Statements(list)

(***************************************************************************)
(* Plausible bugs, each caught by a property below; the specification does *)
(* not use them.                                                           *)
(***************************************************************************)
\* The else body goes to the first elseif.
WithElseOnFirst(elif, else) == [elif EXCEPT !.else = else]

\* The replaced elseif is released, not deleted.
ReleasedNotDeleted(prev) == <<>>

-----------------------------------------------------------------------------
\* add_ast_to_statements(): statements in a list of statements are spliced.
AddAstToStatements(list, ast) ==
    IF ast.type = "statements" THEN list \o ast.list ELSE Append(list, ast)

\* The loop in if_block: the else body goes to the end of the chain.
RECURSIVE WithElse(_, _)
WithElse(elif, else) ==
    IF elif.else = None THEN [elif EXCEPT !.else = else]
    ELSE [elif EXCEPT !.else = WithElse(elif.else, else)]

\* elseif_blocks: a further elseif becomes the else body of the first one.
Attach(prev, elif) ==
    IF prev = None THEN elif ELSE [prev EXCEPT !.else = elif]

\* What elseBody.reset() deletes.
Dropped(prev) == IF prev = None THEN <<>> ELSE Nodes(prev.else)

\* A block being parsed: the list of statements of the branch being read, the
\* branches before it, and the outline of both (text, branches).
Opened(type, c) ==
    [type |-> type, stage |-> "then", cond |-> c, list |-> <<>>, then |-> None,
     elifs |-> None, elifCond |-> c, text |-> <<>>, branches |-> <<>>]

Depth == Len(open)
Top == open[Depth]
Branch == [cond |-> Top.elifCond, text |-> Top.text]

Init ==
    /\ open = <<Opened("root", 0)>>
    /\ root = None
    /\ deleted = <<>>
    /\ conds = 0
    /\ leaves = 0
    /\ source = None

\* A print or include block, or one or two raw blocks in a row (raw_blocks).
ReadLeaves(n) ==
    LET new == [i \in 1 .. n |-> Leaf(leaves + i)]
    IN  /\ root = None
        /\ leaves + n <= MaxLeaves
        /\ leaves' = leaves + n
        /\ open' = [open EXCEPT
                      ![Depth].list =
                          AddAstToStatements(@, FromStatementsArray(new)),
                      ![Depth].text = @ \o new]
        /\ UNCHANGED <<root, deleted, conds, source>>

\* The head of an if or a for block is read.
OpenBlock(type) ==
    /\ root = None
    /\ Depth <= MaxBlocks /\ conds < MaxBranches
    /\ conds' = conds + 1
    /\ open' = Append(open, Opened(type, conds + 1))
    /\ UNCHANGED <<root, deleted, leaves, source>>

\* The block with its current branch finished: the body of the if or the for,
\* or an elseif, which elseif_blocks makes a node of.
Finished(frame) ==
    LET body == FromStatementsArray(frame.list)
    IN  CASE frame.stage = "then" -> [frame EXCEPT !.then = body]
          [] frame.stage = "elif" ->
               [frame EXCEPT !.elifs = Attach(@, If(frame.elifCond, body, None))]

DroppedByFinishing(frame) ==
    IF frame.stage = "elif" THEN Dropped(frame.elifs) ELSE <<>>

\* {% elseif %} after a branch with at least one statement.
ReadElseIf ==
    /\ root = None
    /\ Top.type = "if" /\ Top.stage # "else" /\ Top.list # <<>>
    /\ conds < MaxBranches
    /\ conds' = conds + 1
    /\ deleted' = deleted \o DroppedByFinishing(Top)
    /\ open' = [open EXCEPT ![Depth] =
                  [Finished(Top) EXCEPT
                     !.stage = "elif", !.elifCond = conds + 1, !.list = <<>>,
                     !.text = <<>>, !.branches = Append(@, Branch)]]
    /\ UNCHANGED <<root, leaves, source>>

\* {% else %}
ReadElse ==
    /\ root = None
    /\ Top.type \in {"if", "for"} /\ Top.stage # "else" /\ Top.list # <<>>
    /\ deleted' = deleted \o DroppedByFinishing(Top)
    /\ open' = [open EXCEPT ![Depth] =
                  [Finished(Top) EXCEPT
                     !.stage = "else", !.list = <<>>, !.text = <<>>,
                     !.branches = Append(@, Branch)]]
    /\ UNCHANGED <<root, conds, leaves, source>>

\* if_block and for_statement: the node of a block all of whose branches have
\* been read, its else body None or the last list.
NodeOf(frame, else) ==
    CASE frame.type = "for" -> For(frame.cond, frame.then, else)
      [] frame.elifs = None -> If(frame.cond, frame.then, else)
      [] OTHER -> If(frame.cond, frame.then, WithElse(frame.elifs, else))

\* {% endif %} or {% endfor %}: the node goes to the list around the block.
CloseBlock ==
    /\ root = None
    /\ Depth > 1 /\ Top.list # <<>>
    /\ LET whole == IF Top.stage = "else" THEN Top ELSE Finished(Top)
           else  == IF Top.stage = "else" THEN FromStatementsArray(Top.list)
                                          ELSE None
           outer == open[Depth - 1]
           outline == [type |-> "block",
                       branches |-> IF Top.stage = "else" THEN Top.branches
                                    ELSE Append(Top.branches, Branch),
                       else |-> IF Top.stage = "else" THEN Top.text ELSE <<>>]
       IN  open' = Append(SubSeq(open, 1, Depth - 2),
                     [outer EXCEPT
                        !.list = AddAstToStatements(@, NodeOf(whole, else)),
                        !.text = Append(@, outline)])
    /\ deleted' = deleted \o DroppedByFinishing(Top)
    /\ UNCHANGED <<root, conds, leaves, source>>

\* The end of the file: root.
EndOfFile ==
    /\ root = None
    /\ Depth = 1
    /\ root' = FromStatementsArray(Top.list)
    /\ source' = Top.text
    /\ open' = <<Opened("root", 0)>>
    /\ UNCHANGED <<deleted, conds, leaves>>

Next ==
    \/ \E n \in {1, 2} : ReadLeaves(n)
    \/ \E type \in {"if", "for"} : OpenBlock(type)
    \/ ReadElseIf
    \/ ReadElse
    \/ CloseBlock
    \/ EndOfFile

Spec == Init /\ [][Next]_vars

-----------------------------------------------------------------------------
(***************************************************************************)
(* What is printed.  holds is the set of the conditions that hold (for a   *)
(* loop: that there is something to iterate over, once).                   *)
(***************************************************************************)
RECURSIVE Run(_, _)
Run(ast, holds) ==
    IF ast = None THEN <<>>
    ELSE CASE ast.type = "leaf" -> <<ast.id>>
           [] ast.type = "statements" ->
                FlattenSeq([i \in DOMAIN ast.list |-> Run(ast.list[i], holds)])
           [] OTHER -> Run(IF ast.cond \in holds THEN ast.then ELSE ast.else, holds)

\* The same of the outline: the first branch whose condition holds, or else the
\* else branch.
RECURSIVE Printed(_, _)
Printed(text, holds) ==
    FlattenSeq([n \in DOMAIN text |->
        IF text[n].type = "leaf" THEN <<text[n].id>>
        ELSE LET chosen == SelectSeq(text[n].branches,
                                     LAMBDA b : b.cond \in holds)
             IN  Printed(IF chosen = <<>> THEN text[n].else ELSE chosen[1].text,
                         holds)])

\* A template without the elseif branches between the first and the last of a
\* chain.
RECURSIVE Shortened(_)
Shortened(text) ==
    [n \in DOMAIN text |->
        IF text[n].type = "leaf" THEN text[n]
        ELSE LET all  == text[n].branches
                 kept == IF Len(all) <= 3 THEN all
                         ELSE <<all[1], all[2], all[Len(all)]>>
             IN  [type |-> "block", else |-> Shortened(text[n].else),
                  branches |-> [i \in DOMAIN kept |->
                      [kept[i] EXCEPT !.text = Shortened(@)]]]]

Holds == SUBSET (1 .. MaxBranches)

\* What the actions of elseif_blocks really build: of a chain with more than two
\* elseifs the first and the last are kept in their order, with the else body
\* behind them; all other templates print what was written.  Nesting chains and
\* loops in each other's branches does not change that.
EndsOfChainsKept ==
    root # None =>
        \A holds \in Holds : Run(root, holds) = Printed(Shortened(source), holds)

\* Every node the parser made belongs to exactly one list, branch or chain, or was
\* deleted once when its elseif was replaced: nothing leaks, nothing is deleted
\* twice, and nothing that was deleted is still part of the AST.
Owned ==
    deleted \o Nodes(root) \o
    FlattenSeq([i \in 1 .. Depth |-> Nodes(Statements(open[i].list))
                    \o Nodes(open[i].then) \o Nodes(open[i].elifs)])

NotYetNodes ==
    {open[i].cond : i \in 1 .. Depth} \cup
    {open[i].elifCond : i \in {d \in 1 .. Depth : open[d].stage = "elif"}}

EveryNodeOwnedOnce ==
    /\ IsInjective(Owned)
    /\ Range(Owned) = {<<"leaf", i>> : i \in 1 .. leaves}
                     \cup {<<"block", c>> : c \in (1 .. conds) \ NotYetNodes}
=============================================================================
