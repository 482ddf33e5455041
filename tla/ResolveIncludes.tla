--------------------------- MODULE ResolveIncludes ---------------------------
(***************************************************************************)
(* Inclusion of templates in templates: ResolveIncludesPass, run by a      *)
(* PassManager that owns the template being compiled, with the parser it   *)
(* calls and the exceptions that cross it.                                 *)
(*                                                                         *)
(* The pass is recursive; its activations are the frames of a stack.  The  *)
(* bottom frame is PassManager::run() on the template itself, each frame   *)
(* above it is ResolveIncludesPass::process_node() for one include block,  *)
(* whose unique_ptr holds the included AST.  The AST nodes live in a heap  *)
(* that counts how often each was deleted, so that a node freed twice, or  *)
(* never, shows in the state.                                              *)
(*                                                                         *)
(* Abstraction: the body of an if or for block is not kept apart from the  *)
(* statements around it, and an expression is an access path, the variable *)
(* followed by its attributes.                                             *)
(***************************************************************************)
EXTENDS Integers, Sequences, SequencesExt

CONSTANTS
    File,       \* template files
    Root,       \* the file being compiled
    Programs,   \* the possible contents of the files: [File -> Seq(Statement)]
    None        \* no include block, no exception

\* A path begins with a variable.
IsPath(e) == e # <<>> /\ e \in Seq(ToSet(e))

\* The files are sequences of statements: from_statements_array() gets what the
\* grammar accepts.
ASSUME IncludeAssumption ==
    /\ Root \in File
    /\ \A p \in Programs, f \in File :
          /\ p[f] \in Seq(ToSet(p[f]))
          /\ \A i \in 1 .. Len(p[f]) :
                /\ p[f][i].kind \in {"raw", "print", "include"}
                /\ p[f][i].kind = "print" => IsPath(p[f][i].expr)
                /\ p[f][i].kind = "include" =>
                      LET inc == p[f][i].inc
                      IN  /\ inc # None /\ inc.file \in File
                          /\ inc.scope # <<>> => IsPath(inc.scope)
                          /\ \A v \in DOMAIN inc.mapping : IsPath(inc.mapping[v])
    /\ None \notin {"NoSuchFile", "SyntaxError", "MissingVariableReference"}

(***************************************************************************)
(* A statement is a raw block, a print block of a path, or an include      *)
(* block, with its scope ("using", <<>> if there is none) and its mapping  *)
(* ("with") of the included file's variables to paths.                     *)
(***************************************************************************)
RawBlock == [kind |-> "raw", expr |-> <<>>, inc |-> None]
PrintBlock(path) == [kind |-> "print", expr |-> path, inc |-> None]
IncludeBlock(file, scope, mapping) ==
    [kind |-> "include", expr |-> <<>>,
     inc |-> [file |-> file, scope |-> scope, mapping |-> mapping]]

VARIABLES
    files,      \* what is on disk: a member of Programs
    heap,       \* the AST nodes, by id: [kind, expr, inc, kids]
    deletes,    \* how often each node was deleted
    stack,      \* activations: [inc, ptr, at, stage]
    thrown,     \* the exception being thrown, or None
    outcome     \* [status, result, error]

vars == <<files, heap, deletes, stack, thrown, outcome>>

NULL == 0
Running == outcome.status = "running"

(***************************************************************************)
(* Plausible bugs, each caught by a property below; the specification does *)
(* not use them.  A destructor that forgets the children, a splice that    *)
(* forgets the husk it emptied and a substitution that forgets the         *)
(* attributes.                                                             *)
(***************************************************************************)
TreeShallow(n) == {n}

DiscardedBlockOnly(block, ast) == {block}

SubstHeadOnly(inc, path) ==
    IF inc.scope # <<>> THEN inc.scope \o path ELSE inc.mapping[Head(path)]

\* A frame: the include block it resolves, the AST its unique_ptr (or the
\* run() at the bottom) owns, the next statement of it to process, its stage.
Frame(inc) == [inc |-> inc, ptr |-> NULL, at |-> 1, stage |-> "parse"]
Top == stack[Len(stack)]
Pop(s) == Front(s)
SetTop(f) == [stack EXCEPT ![Len(stack)] = f]

\* The nodes that go away with node n.
Tree(n) == {n} \cup ToSet(heap[n].kids)
Delete(ns) == [n \in DOMAIN deletes |->
                  IF n \in ns THEN deletes[n] + 1 ELSE deletes[n]]

\* A StatementsAST of one statement: ASTPass::statements() returns its child.
FoldsToChild(n) == heap[n].kind = "stmts" /\ Len(heap[n].kids) = 1

\* The nodes deleted when an AST takes the place of an include block.
Discarded(block, ast) ==
    IF heap[ast].kind = "stmts" THEN {block, ast} ELSE {block}

\* The nodes of an AST in order: the children of a StatementsAST, or itself.
Nodes(n) == IF heap[n].kind = "stmts" THEN heap[n].kids ELSE <<n>>

Init ==
    /\ files \in Programs
    /\ heap = <<>>
    /\ deletes = <<>>
    /\ stack = <<Frame(None)>>
    /\ thrown = None
    /\ outcome = [status |-> "running", result |-> NULL, error |-> None]

FileOf(frame) == IF frame.inc = None THEN Root ELSE frame.inc.file

\* Parser::parse() cannot open the file, or finds a syntax error in it.
ParseFails(error) ==
    /\ Running /\ thrown = None
    /\ Top.stage = "parse"
    /\ thrown' = error
    /\ UNCHANGED <<files, heap, deletes, stack, outcome>>

\* Parser::parse() succeeds: its statements become nodes, with a StatementsAST
\* around them unless there is exactly one (from_statements_array()).
ParseSucceeds ==
    LET body  == files[FileOf(Top)]
        leafs == [i \in DOMAIN body |->
                    [kind |-> body[i].kind, expr |-> body[i].expr,
                     inc |-> body[i].inc, kids |-> <<>>]]
        root  == [kind |-> "stmts", expr |-> <<>>, inc |-> None,
                  kids |-> [i \in DOMAIN body |-> Len(heap) + i]]
        new   == IF Len(body) = 1 THEN leafs ELSE Append(leafs, root)
    IN  /\ Running /\ thrown = None
        /\ Top.stage = "parse"
        /\ heap' = heap \o new
        /\ deletes' = deletes \o [i \in DOMAIN new |-> 0]
        /\ stack' = SetTop([Top EXCEPT !.ptr = Len(heap) + Len(new),
                                       !.stage = "walk"])
        /\ UNCHANGED <<files, thrown, outcome>>

Walking == Running /\ thrown = None /\ Top.stage = "walk"
AtNode == Top.at <= Len(Nodes(Top.ptr))
NodeAt == Nodes(Top.ptr)[Top.at]

\* Plausible bugs again: a walk that stays where it is, and one that does not
\* fold the StatementsAST.
SkipNodeStays ==
    /\ Walking /\ AtNode
    /\ heap[NodeAt].kind # "include"
    /\ UNCHANGED vars

FinishWalkUnfolded ==
    /\ Walking /\ ~ AtNode
    /\ stack' = SetTop([Top EXCEPT !.stage = "resolved"])
    /\ UNCHANGED <<files, heap, deletes, thrown, outcome>>

\* ASTPass::raw() and print_block() leave the node alone.
SkipNode ==
    /\ Walking /\ AtNode
    /\ heap[NodeAt].kind # "include"
    /\ stack' = SetTop([Top EXCEPT !.at = @ + 1])
    /\ UNCHANGED <<files, heap, deletes, thrown, outcome>>

\* ASTPass::include_block(): process_node() starts on the block's file.
EnterInclude ==
    /\ Walking /\ AtNode
    /\ heap[NodeAt].kind = "include"
    /\ stack' = Append(stack, Frame(heap[NodeAt].inc))
    /\ UNCHANGED <<files, heap, deletes, thrown, outcome>>

\* The walk is over.  A StatementsAST with one child is folded: the child is
\* released from it, and reset() (or run()) deletes the husk.
FinishWalk ==
    LET husk == Top.ptr
    IN  /\ Walking /\ ~ AtNode
        /\ IF FoldsToChild(husk)
           THEN /\ heap' = [heap EXCEPT ![husk].kids = <<>>]
                /\ deletes' = Delete({husk})
                /\ stack' = SetTop([Top EXCEPT !.ptr = heap[husk].kids[1],
                                               !.stage = "resolved"])
           ELSE /\ stack' = SetTop([Top EXCEPT !.stage = "resolved"])
                /\ UNCHANGED <<heap, deletes>>
        /\ UNCHANGED <<files, thrown, outcome>>

(***************************************************************************)
(* The variables of the included file: prependScope() makes each one an    *)
(* attribute of the scope, replaceVariableReferences() replaces each one   *)
(* by what it is mapped to, and throws if it is not mapped.                *)
(***************************************************************************)
Subst(inc, path) ==
    IF inc.scope # <<>> THEN inc.scope \o path
                        ELSE inc.mapping[Head(path)] \o Tail(path)

Unmapped(inc, path) ==
    inc.scope = <<>> /\ Head(path) \notin DOMAIN inc.mapping

Prints(n) == {m \in ToSet(Nodes(n)) : heap[m].kind = "print"}

Substituting ==
    Running /\ thrown = None /\ Top.stage = "resolved" /\ Top.inc # None

\* A variable has no replacement: the inner PassManager::run() deletes the AST
\* it was given and rethrows, while process_node()'s unique_ptr still holds it.
SubstitutionThrows ==
    /\ Substituting
    /\ \E m \in Prints(Top.ptr) : Unmapped(Top.inc, heap[m].expr)
    /\ deletes' = Delete(Tree(Top.ptr))
    /\ thrown' = "MissingVariableReference"
    /\ UNCHANGED <<files, heap, stack, outcome>>

\* The inner run() returns.  It, too, folds a StatementsAST with one child and
\* deletes the husk, and process_node()'s reset() would delete it again.
Substitute ==
    LET ast  == Top.ptr
        prs  == Prints(ast)
        subd == [n \in DOMAIN heap |->
                    IF n \in prs
                    THEN [heap[n] EXCEPT !.expr = Subst(Top.inc, @)]
                    ELSE heap[n]]
    IN  /\ Substituting
        /\ \A m \in prs : ~ Unmapped(Top.inc, heap[m].expr)
        /\ IF FoldsToChild(ast)
           THEN /\ heap' = [subd EXCEPT ![ast].kids = <<>>]
                /\ deletes' = [deletes EXCEPT ![ast] = @ + 2]
                /\ stack' = SetTop([Top EXCEPT !.ptr = heap[ast].kids[1],
                                               !.stage = "done"])
           ELSE /\ heap' = subd
                /\ stack' = SetTop([Top EXCEPT !.stage = "done"])
                /\ UNCHANGED deletes
        /\ UNCHANGED <<files, thrown, outcome>>

\* process_node() returns its AST to the walk below, which puts it where the
\* include block was (and so deletes the block) and, if it is a StatementsAST,
\* moves its statements up and deletes the husk.
ReturnInclude ==
    LET ast    == Top.ptr
        below  == stack[Len(stack) - 1]
        block  == Nodes(below.ptr)[below.at]
        parent == below.ptr
        moved  == Nodes(ast)
        kids   == heap[parent].kids
        next   == [below EXCEPT !.at = @ + Len(moved)]
    IN  /\ Running /\ thrown = None
        /\ Top.inc # None /\ Top.stage = "done"
        /\ IF heap[parent].kind = "stmts"
           THEN /\ heap' = [heap EXCEPT
                    ![parent].kids = SubSeq(kids, 1, below.at - 1) \o moved
                                     \o SubSeq(kids, below.at + 1, Len(kids)),
                    ![ast].kids = <<>>]
                /\ deletes' = Delete(Discarded(block, ast))
                /\ stack' = [Pop(stack) EXCEPT ![Len(stack) - 1] = next]
           ELSE /\ deletes' = Delete({block})
                /\ stack' = [Pop(stack) EXCEPT
                                ![Len(stack) - 1] = [next EXCEPT !.ptr = ast]]
                /\ UNCHANGED heap
        /\ UNCHANGED <<files, thrown, outcome>>

\* An exception leaves the top activation: the unique_ptr (or the catch clause
\* of run()) deletes the AST it owns, if there is one yet.  parseTemplate()
\* turns what leaves the last one into a PHP exception.
Unwind ==
    /\ Running /\ thrown # None
    /\ deletes' = IF Top.ptr = NULL THEN deletes ELSE Delete(Tree(Top.ptr))
    /\ stack' = Pop(stack)
    /\ IF Len(stack) = 1
       THEN outcome' = [status |-> "failed", result |-> NULL, error |-> thrown]
       ELSE UNCHANGED outcome
    /\ UNCHANGED <<files, heap, thrown>>

\* run() at the bottom returns the resolved template.
ReturnTemplate ==
    /\ Running /\ thrown = None
    /\ Top.inc = None /\ Top.stage = "resolved"
    /\ outcome' = [status |-> "done", result |-> Top.ptr, error |-> None]
    /\ stack' = <<>>
    /\ UNCHANGED <<files, heap, deletes, thrown>>

Next ==
    \/ \E error \in {"NoSuchFile", "SyntaxError"} : ParseFails(error)
    \/ ParseSucceeds
    \/ SkipNode
    \/ EnterInclude
    \/ FinishWalk
    \/ SubstitutionThrows
    \/ Substitute
    \/ ReturnInclude
    \/ Unwind
    \/ ReturnTemplate

\* The compiler is sequential: it only stops when the compilation is over.
Spec == Init /\ [][Next]_vars /\ WF_vars(Next)

-----------------------------------------------------------------------------
Kinds == {"raw", "print", "include", "stmts"}
Stages == {"parse", "walk", "resolved", "done"}
Exceptions == {"NoSuchFile", "SyntaxError", "MissingVariableReference"}

\* Types of the activations, the heap and the outcome: every pointer points to
\* a node of the heap (or, before parse() returned, is NULL).
TypeOK ==
    /\ \A n \in DOMAIN heap : /\ heap[n].kind \in Kinds
                              /\ ToSet(heap[n].kids) \subseteq DOMAIN heap
    /\ DOMAIN deletes = DOMAIN heap
    /\ \A n \in DOMAIN deletes : deletes[n] \in Nat
    /\ \A i \in DOMAIN stack : /\ stack[i].stage \in Stages
                               /\ stack[i].at \in Nat \ {0}
                               /\ stack[i].ptr \in DOMAIN heap \cup {NULL}
    /\ thrown \in Exceptions \cup {None}
    /\ outcome.status \in {"running", "done", "failed"}
    /\ outcome.result \in DOMAIN heap \cup {NULL}

\* The nodes an activation owns.
Owned(i) == IF stack[i].ptr = NULL THEN {} ELSE Tree(stack[i].ptr)

\* Ownership: while no exception is thrown each live node belongs to exactly one
\* activation, so that nothing an activation can reach was deleted (by a reset()
\* of another activation, say) and no node was lost on the way.
Ownership ==
    Running /\ thrown = None =>
        /\ \A i, j \in DOMAIN stack : i # j => Owned(i) \cap Owned(j) = {}
        /\ {n \in DOMAIN deletes : deletes[n] = 0} =
               UNION {Owned(i) : i \in DOMAIN stack}

\* pass_manager.hpp: "Calling this passes the ownership of the AST to
\* PassManager": whoever calls run() no longer deletes what it passed, so no
\* AST is deleted twice.
DeletedOnce == \A n \in DOMAIN deletes : deletes[n] <= 1

\* As long as no variable of an included file is missing from its mapping, no
\* node is deleted twice: not when ASTs are replaced or folded, and not when an
\* included file cannot be parsed at any depth.
DeletedOnceUnlessMissing ==
    thrown # "MissingVariableReference" => DeletedOnce

\* When the compilation is over, everything but the resolved template has been
\* deleted, on the error paths as well.
NothingLeaks ==
    ~ Running =>
        \A n \in DOMAIN deletes :
            deletes[n] = 0 <=> /\ outcome.status = "done"
                               /\ n \in Tree(outcome.result)

\* An activation whose walk is over holds a normal form: no include block, no
\* StatementsAST inside another one, none with a single statement.  It is what
\* makes process_node() safe: the inner run() then never replaces the AST.
NormalForm ==
    \A i \in DOMAIN stack :
        Running /\ thrown = None /\ stack[i].stage \in {"resolved", "done"} =>
            /\ ~ FoldsToChild(stack[i].ptr)
            /\ \A m \in ToSet(Nodes(stack[i].ptr)) :
                   heap[m].kind \in {"raw", "print"}

(***************************************************************************)
(* Reference: the text of a file, its raw and print blocks, with each      *)
(* include block replaced by the text of the file it includes, in which    *)
(* each variable is replaced by what it stands for there.                  *)
(***************************************************************************)
Leaf(stmt) == [kind |-> stmt.kind, expr |-> stmt.expr]

StandsFor(inc, v) ==
    IF inc.scope # <<>> THEN Append(inc.scope, v) ELSE inc.mapping[v]

Within(inc, text) ==
    [i \in DOMAIN text |->
        IF text[i].kind = "print"
        THEN [kind |-> "print",
              expr |-> StandsFor(inc, Head(text[i].expr)) \o Tail(text[i].expr)]
        ELSE text[i]]

\* What a statement becomes, if the files are to become what inlined says.
Piece(stmt, inlined) ==
    IF stmt.kind = "include" THEN Within(stmt.inc, inlined[stmt.inc.file])
                             ELSE <<Leaf(stmt)>>

\* What the first k statements become.
Beginnings(stmts, inlined) ==
    LET text[k \in Nat] ==
            IF k = 0 THEN <<>> ELSE text[k - 1] \o Piece(stmts[k], inlined)
    IN  text

Deeper(program, inlined) ==
    [f \in File |-> Beginnings(program[f], inlined)[Len(program[f])]]

Unresolved == [f \in File |-> <<[kind |-> "include", expr |-> <<>>]>>]

\* What the files become if inlining stops at a depth, where include blocks are left.
Inlining(program) ==
    LET inlined[d \in Nat] ==
            IF d = 0 THEN Unresolved ELSE Deeper(program, inlined[d - 1])
    IN  inlined

Resolved(text) == \A i \in DOMAIN text : text[i].kind # "include"

Text(n) == [i \in DOMAIN Nodes(n) |-> Leaf(heap[Nodes(n)[i]])]

\* The resolved template is the text of the template with every include replaced by the
\* text of the included file, whose variables mean what the chain of scopes and
\* mappings above it says (resolve_includes_pass.test checks one chain).  There is a
\* node for each file on a chain of includes, so the depth is enough.
ResolvedIsInlining ==
    outcome.status = "done" =>
        /\ Text(outcome.result) = Inlining(files)[Len(heap)][Root]
        /\ Resolved(Text(outcome.result))

\* A compilation ends, with a template or an exception, if no file includes
\* itself, directly or through others.
Terminates == <> ~ Running
=============================================================================
