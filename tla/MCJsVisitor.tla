---------------------------- MODULE MCJsVisitor ----------------------------
(***************************************************************************)
(* What the JavaScript does that JavascriptVisitor writes, and what the    *)
(* template means that it was written for.                                 *)
(***************************************************************************)
EXTENDS JsVisitor, FiniteSetsExt, TLC

\* The names of variables are interchangeable.
MCSymmetry == Permutations(Name)

(***************************************************************************)
(* Values.  A scalar, nothing, or an array of values; what a loop over one *)
(* that is no array does is nothing.  The keys of for-in are strings.      *)
(***************************************************************************)
Undefined == [kind |-> "undefined"]
Scalar(n) == [kind |-> "scalar", n |-> n]
Array(items) == [kind |-> "array", items |-> items]
KeyString(i) == [kind |-> "key", n |-> i]
Empty == [kind |-> "empty"]

MCValue == {Undefined, Array(<<>>), Array(<<Scalar(1), Array(<<Scalar(2), Scalar(0)>>)>>)}

Truth(val) == val # Undefined /\ val # Scalar(0)
Items(val) == IF val.kind = "array" THEN val.items ELSE <<>>
ItemAt(val, key) ==
    IF key.n + 1 \in DOMAIN Items(val) THEN Items(val)[key.n + 1] ELSE Undefined

\* What is printed under the undefined check: in JavaScript, expr || ''; for the
\* template, "Checks whether a value is undefined and replaces it with an empty
\* string" (usage of js_precompiler).
PrintedByJs(val, check) == IF check /\ ~ Truth(val) THEN Empty ELSE val
PrintedAs(val, check) == IF check /\ val = Undefined THEN Empty ELSE val

(***************************************************************************)
(* Blocks, in JavaScript and in a template: the line that ends the block   *)
(* of line i or goes on with another, and the last line of all these.      *)
(***************************************************************************)
Opens(line) == line.op \in {"if", "ifempty", "for"}
Number(code, i, j, Is(_)) == Cardinality({n \in i .. j : Is(code[n])})
IsEnd(line) == line.op = "end"

EndOfBlock(code, i) ==
    Min({m \in i + 1 .. Len(code) :
           /\ code[m].op \in {"elseif", "else", "end"}
           /\ Number(code, i + 1, m - 1, Opens) = Number(code, i + 1, m - 1, IsEnd)})

RECURSIVE EndOfAll(_, _)
EndOfAll(code, i) ==
    LET m == EndOfBlock(code, i)
    IN  IF code[m].op = "end" THEN m ELSE EndOfAll(code, m)

(***************************************************************************)
(* The JavaScript.  Its variables belong to the function, not to a block.  *)
(***************************************************************************)
Variables == {"iterable", "is_empty", "key", "value"} \X (1 .. MaxNodes)

Evaluated(expr, env, data) ==
    IF expr.shadow = Null THEN data[expr.name] ELSE env[expr.shadow]

RECURSIVE Run(_, _, _, _, _)
RECURSIVE RunLoop(_, _, _, _, _)

\* Lines i to j, from state st: the variables and the buffer.
Run(js, i, j, st, data) ==
    IF i > j THEN st
    ELSE LET line == js[i]
             end == EndOfBlock(js, i)
             after == EndOfAll(js, i) + 1
             Set(var, val) == Run(js, i + 1, j, [st EXCEPT !.env[<<var, line.loop>>] = val], data)
             If(holds) ==
                IF holds THEN Run(js, after, j, Run(js, i + 1, end - 1, st, data), data)
                ELSE IF js[end].op = "end" THEN Run(js, end + 1, j, st, data)
                ELSE Run(js, end, j, st, data)
         IN  CASE line.op = "print" ->
                    Run(js, i + 1, j, [st EXCEPT !.buffer = Append(@,
                          PrintedByJs(Evaluated(line.expr, st.env, data), line.check))], data)
               [] line.op = "iterable" -> Set("iterable", Evaluated(line.expr, st.env, data))
               [] line.op = "is_empty" -> Set("is_empty", Scalar(IF line.to THEN 1 ELSE 0))
               [] line.op = "value" ->
                    Set("value", ItemAt(st.env[<<"iterable", line.loop>>],
                                        st.env[<<"key", line.loop>>]))
               [] line.op \in {"if", "elseif"} -> If(Truth(Evaluated(line.expr, st.env, data)))
               [] line.op = "ifempty" -> If(Truth(st.env[<<"is_empty", line.loop>>]))
               [] line.op = "else" -> If(TRUE)
               [] line.op = "for" ->
                    Run(js, after, j,
                        RunLoop(js, i, 0, Len(Items(st.env[<<"iterable", line.loop>>])),
                                [st |-> st, data |-> data]).st, data)

\* The iterations of the loop of line i from the key n on.
RunLoop(js, i, n, length, at) ==
    IF n = length THEN at
    ELSE LET begun == [at.st EXCEPT !.env[<<"key", js[i].loop>>] = KeyString(n)]
         IN  RunLoop(js, i, n + 1, length,
                     [at EXCEPT !.st = Run(js, i + 1, EndOfBlock(js, i) - 1, begun, at.data)])

Executed(js, data) ==
    Run(js, 1, Len(js), [env |-> [v \in Variables |-> Undefined], buffer |-> <<>>], data).buffer

(***************************************************************************)
(* The template: a name means what the innermost loop around it gave it.   *)
(***************************************************************************)
RECURSIVE Rendered(_, _, _, _)
RECURSIVE RenderedLoop(_, _, _, _)
Rendered(tpl, i, j, scope) ==
    IF i > j THEN <<>>
    ELSE LET node == tpl[i]
             end == EndOfBlock(tpl, i)
             after == EndOfAll(tpl, i) + 1
         IN  CASE node.op = "print" ->
                    <<PrintedAs(scope[node.name], undefinedCheck)>>
                    \o Rendered(tpl, i + 1, j, scope)
               [] node.op \in {"if", "elseif"} ->
                    IF Truth(scope[node.name])
                    THEN Rendered(tpl, i + 1, end - 1, scope) \o Rendered(tpl, after, j, scope)
                    ELSE IF tpl[end].op = "end" THEN Rendered(tpl, end + 1, j, scope)
                    ELSE Rendered(tpl, end, j, scope)
               [] node.op = "else" ->
                    Rendered(tpl, i + 1, end - 1, scope) \o Rendered(tpl, after, j, scope)
               [] node.op = "for" ->
                    (IF Items(scope[node.name]) # <<>>
                     THEN RenderedLoop(tpl, i, 1, scope)
                     ELSE IF tpl[end].op = "else"
                     THEN Rendered(tpl, end + 1, after - 2, scope)
                     ELSE <<>>)
                    \o Rendered(tpl, after, j, scope)

RenderedLoop(tpl, i, n, scope) ==
    LET node  == tpl[i]
        items == Items(scope[node.name])
        inner == [x \in Name |-> IF x = node.value THEN items[n]
                                 ELSE IF x = node.key THEN KeyString(n - 1) ELSE scope[x]]
    IN  Rendered(tpl, i + 1, EndOfBlock(tpl, i) - 1, inner)
        \o (IF n = Len(items) THEN <<>> ELSE RenderedLoop(tpl, i, n + 1, scope))

\* The JavaScript prints what the template means, for all data: through loops
\* inside loops, loops one after the other, else bodies and reused names, although
\* JavaScript's variables outlive the blocks they are in.
PrintsAsTemplate ==
    phase = "done" =>
        \A data \in [Name -> MCValue] :
            Executed(out, data) = Rendered(source, 1, Len(source), data)

WithoutZeros(printed) ==
    [i \in DOMAIN printed |-> IF printed[i] = Scalar(0) THEN Empty ELSE printed[i]]

\* The same but for zeros, which the undefined check prints as nothing.
PrintsAsTemplateButZeros ==
    IF ~ undefinedCheck THEN PrintsAsTemplate
    ELSE phase = "done" =>
            \A data \in [Name -> MCValue] :
                Executed(out, data) =
                    WithoutZeros(Rendered(source, 1, Len(source), data))
=============================================================================
