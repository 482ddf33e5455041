----------------------------- MODULE JsVisitor -----------------------------
(***************************************************************************)
(* JavascriptVisitor: the second code generator.  It writes a template as  *)
(* a JavaScript function, line by line while it walks the AST; loops are   *)
(* numbered by m_forCounter, and m_shadowValues has the JavaScript         *)
(* variable that a name stands for, saved and restored by for_block().     *)
(*                                                                         *)
(* As in LoopScopes each step visits whatever node comes next, so the      *)
(* behaviours are the visits of all templates.  An expression is a         *)
(* variable; lines are kept for what they do.                              *)
(***************************************************************************)
EXTENDS Integers, Sequences

CONSTANTS
    Name,         \* names of variables
    None,         \* no key variable
    Null,         \* not in m_shadowValues
    MaxDepth,     \* bound: blocks inside one another
    MaxNodes      \* bound: nodes and ends of blocks in front of a node

ASSUME JsAssumption ==
    /\ None \notin Name
    /\ Null \notin {"key", "value"} \X Nat
    /\ MaxDepth \in Nat
    /\ MaxNodes \in Nat

VARIABLES
    undefinedCheck, \* m_undefinedCheck
    shadowValues,   \* m_shadowValues: name -> JavaScript variable, or Null
    forCounter,     \* m_forCounter
    frames,         \* the for_block() activations, outermost first
    nest,           \* all blocks that are open: "if" or "for", and where
    phase,          \* "ready", "visiting", "done" or "thrown"
    out,            \* the lines written
    reference,      \* history: the last variable reference and what was written
    source          \* history: what was visited, in the order of the template

vars == <<undefinedCheck, shadowValues, forCounter, frames, nest, phase, out,
          reference, source>>

Id == {"key", "value"} \X Nat
KeyOf(i) == <<"key", i>>
ValueOf(i) == <<"value", i>>

Depth == Len(frames)
Top == frames[Depth]
Inner == nest[Len(nest)]

(***************************************************************************)
(* Plausible bugs, each caught by a property below; the specification does *)
(* not use them.  A value variable set before the key variable, a name     *)
(* that is not erased if it was not there, a counter that stays.           *)
(***************************************************************************)
OverwriteKeyLast(map, k, kval, v, vval) ==
    [x \in Name |-> IF x = k THEN kval ELSE IF x = v THEN vval ELSE map[x]]

RestoredIfAny(map, k, kval, v, vval) ==
    [x \in Name |-> IF x = v /\ vval # Null THEN vval
                    ELSE IF x = k /\ kval # Null THEN kval ELSE map[x]]

SameNumber == 1

(***************************************************************************)
(* Shadow values.                                                          *)
(***************************************************************************)
Shadow(k) == IF k = None THEN Null ELSE shadowValues[k]

\* The map after the key variable, then the value variable are set.
Overwrite(map, k, kval, v, vval) ==
    [x \in Name |-> IF x = v THEN vval ELSE IF x = k THEN kval ELSE map[x]]

\* The map after both are set back or erased, in the same order.
Restored(map, k, kval, v, vval) ==
    [x \in Name |-> IF x = v THEN vval ELSE IF x = k THEN kval ELSE map[x]]

\* The number of the next loop.
NextNumber == forCounter + 1

\* variable_reference_expression(): Null stands for data['x'].
Expression(x) == [name |-> x, shadow |-> shadowValues[x]]

Init ==
    /\ undefinedCheck \in BOOLEAN
    /\ shadowValues = [x \in Name |-> Null]
    /\ forCounter = 0
    /\ frames = <<>>
    /\ nest = <<>>
    /\ phase = "ready"
    /\ out = <<>>
    /\ reference = <<None, Null>>
    /\ source = <<>>

\* visit() and printHeader().
Visit ==
    /\ phase = "ready"
    /\ phase' = "visiting"
    /\ UNCHANGED <<undefinedCheck, shadowValues, forCounter, frames, nest, out,
                   reference, source>>

\* A node may follow, unless for_block() is at a place where it visits none.
Statements ==
    /\ phase = "visiting"
    /\ nest # <<>> => Inner.at \in {"then", "body", "else"}

Node(node) == source' = Append(source, node)
Room == Len(source) < MaxNodes
Write(lines) == out' = out \o lines
Refer(x) == reference' = <<x, shadowValues[x]>>
Move(at) == nest' = [nest EXCEPT ![Len(nest)].at = at]
Close == nest' = SubSeq(nest, 1, Len(nest) - 1)

PrintBlock(x) ==
    /\ Statements /\ Room
    /\ Node([op |-> "print", name |-> x])
    /\ Refer(x)
    /\ Write(<<[op |-> "print", expr |-> Expression(x), check |-> undefinedCheck]>>)
    /\ UNCHANGED <<undefinedCheck, shadowValues, forCounter, frames, nest, phase>>

\* if_block() up to the body.
BeginIf(x) ==
    /\ Statements /\ Room
    /\ Len(nest) < MaxDepth
    /\ Node([op |-> "if", name |-> x])
    /\ Refer(x)
    /\ Write(<<[op |-> "if", expr |-> Expression(x)]>>)
    /\ nest' = Append(nest, [kind |-> "if", at |-> "then"])
    /\ UNCHANGED <<undefinedCheck, shadowValues, forCounter, frames, phase>>

InThen == Statements /\ nest # <<>> /\ Inner.at = "then"

\* The else body is another if: if_block(..., true), which writes the last brace.
ElseIf(x) ==
    /\ InThen /\ Room
    /\ Node([op |-> "elseif", name |-> x])
    /\ Refer(x)
    /\ Write(<<[op |-> "elseif", expr |-> Expression(x)]>>)
    /\ UNCHANGED <<undefinedCheck, shadowValues, forCounter, frames, nest, phase>>

Else ==
    /\ InThen
    /\ Node([op |-> "else"])
    /\ Write(<<[op |-> "else"]>>)
    /\ Move("else")
    /\ UNCHANGED <<undefinedCheck, shadowValues, forCounter, frames, phase, reference>>

EndIf ==
    /\ Statements
    /\ nest # <<>> /\ Inner.kind = "if"
    /\ Node([op |-> "end"])
    /\ Write(<<[op |-> "end"]>>)
    /\ Close
    /\ UNCHANGED <<undefinedCheck, shadowValues, forCounter, frames, phase, reference>>

\* for_block() up to the first line of the loop.
BeginFor(k, v, x, hasElse) ==
    LET i == NextNumber
    IN  /\ Statements /\ Room
        /\ Len(nest) < MaxDepth
        /\ forCounter' = i
        /\ Node([op |-> "for", key |-> k, value |-> v, name |-> x])
        /\ Refer(x)
        /\ Write(<<[op |-> "iterable", loop |-> i, expr |-> Expression(x)]>>
                 \o (IF hasElse THEN <<[op |-> "is_empty", loop |-> i, to |-> TRUE]>>
                     ELSE <<>>)
                 \o <<[op |-> "for", loop |-> i], [op |-> "value", loop |-> i]>>)
        /\ nest' = Append(nest, [kind |-> "for", at |-> "head", hasElse |-> hasElse,
                                 loop |-> i, key |-> k, value |-> v])
        /\ UNCHANGED <<undefinedCheck, shadowValues, frames, phase>>

\* The old values are cached and the shadow values set.
EnterBody ==
    LET k == Inner.key
        v == Inner.value
        i == Inner.loop
    IN  /\ phase = "visiting"
        /\ nest # <<>> /\ Inner.at = "head"
        /\ frames' = Append(frames,
              [loop |-> i, key |-> k, value |-> v, oldKey |-> Shadow(k),
               oldValue |-> shadowValues[v], stage |-> "body",
               before |-> shadowValues])
        /\ shadowValues' = Overwrite(shadowValues, k, KeyOf(i), v, ValueOf(i))
        /\ Move("body")
        /\ UNCHANGED <<undefinedCheck, forCounter, phase, out, reference, source>>

\* The body is done: the old values are restored, the loop closed, and the else
\* body opened if there is one.
EndBody ==
    LET i == Inner.loop
    IN  /\ phase = "visiting"
        /\ nest # <<>> /\ Inner.at = "body"
        /\ shadowValues' = Restored(shadowValues, Top.key, Top.oldKey,
                                    Top.value, Top.oldValue)
        /\ frames' = [frames EXCEPT ![Depth].stage = "else"]
        /\ IF Inner.hasElse
           THEN /\ Node([op |-> "else"])
                /\ Write(<<[op |-> "is_empty", loop |-> i, to |-> FALSE],
                           [op |-> "end"], [op |-> "ifempty", loop |-> i]>>)
                /\ Move("else")
           ELSE /\ Write(<<[op |-> "end"]>>)
                /\ Move("tail")
                /\ UNCHANGED source
        /\ UNCHANGED <<undefinedCheck, forCounter, phase, reference>>

\* for_block() returns.
EndFor ==
    /\ phase = "visiting"
    /\ nest # <<>> /\ Inner.kind = "for" /\ Inner.at \in {"else", "tail"}
    /\ Node([op |-> "end"])
    /\ Write(IF Inner.hasElse THEN <<[op |-> "end"]>> ELSE <<>>)
    /\ Close
    /\ frames' = SubSeq(frames, 1, Depth - 1)
    /\ UNCHANGED <<undefinedCheck, shadowValues, forCounter, phase, reference>>

\* include_block(): "Unsupported".  Nothing catches the exception.
Include ==
    /\ Statements
    /\ phase' = "thrown"
    /\ frames' = <<>>
    /\ nest' = <<>>
    /\ UNCHANGED <<undefinedCheck, shadowValues, forCounter, out, reference, source>>

\* printFooter().
Finish ==
    /\ Statements
    /\ nest = <<>>
    /\ phase' = "done"
    /\ UNCHANGED <<undefinedCheck, shadowValues, forCounter, frames, nest, out,
                   reference, source>>

Next ==
    \/ Visit \/ Else \/ EndIf \/ EnterBody \/ EndBody \/ EndFor \/ Include \/ Finish
    \/ \E x \in Name : PrintBlock(x) \/ BeginIf(x) \/ ElseIf(x)
    \/ \E k \in Name \cup {None}, v \in Name, x \in Name, e \in BOOLEAN :
          BeginFor(k, v, x, e)

Spec == Init /\ [][Next]_vars

-----------------------------------------------------------------------------
\* Types of the map and of the activations of for_block().
Frame == [loop : Nat, key : Name \cup {None}, value : Name,
          oldKey : Id \cup {Null}, oldValue : Id \cup {Null},
          stage : {"body", "else"}, before : [Name -> Id \cup {Null}]]

TypeOK ==
    /\ shadowValues \in [Name -> Id \cup {Null}]
    /\ forCounter \in Nat
    /\ frames \in Seq(Frame)
    /\ phase \in {"ready", "visiting", "done", "thrown"}
    /\ reference \in (Name \cup {None}) \X (Id \cup {Null})

\* The map while the body (or else body) of the i-th activation is written.
Around(i) == IF i = Depth THEN shadowValues ELSE frames[i + 1].before

\* Every activation can put back the map it found, whatever names the loops
\* inside it reuse, and whether or not a name was there before.
RestoresShadows ==
    /\ \A i \in 1 .. Depth :
         IF frames[i].stage = "body"
         THEN Restored(Around(i), frames[i].key, frames[i].oldKey,
                       frames[i].value, frames[i].oldValue) = frames[i].before
         ELSE Around(i) = frames[i].before
    /\ phase = "done" => shadowValues = [x \in Name |-> Null]

\* The meaning of a name that no loop shadows (see Scoping).
Assigned == <<"assigned", 0>>

AbstractValue(id) == IF id = Null THEN Assigned ELSE id
AbstractScope(map) == [x \in Name |-> AbstractValue(map[x])]
AbstractScopes ==
    IF phase = "thrown"
    THEN <<[x \in Name |-> Assigned]>>
    ELSE [i \in 1 .. Depth + 1 |->
             AbstractScope(IF i = Depth + 1 THEN shadowValues
                                            ELSE frames[i].before)]
AbstractMeaning ==
    IF phase = "thrown" THEN <<None, Assigned>>
    ELSE <<reference[1], AbstractValue(reference[2])>>

S == INSTANCE Scoping WITH
        Loop <- 1 .. MaxNodes,
        scopes <- AbstractScopes,
        meaning <- AbstractMeaning

\* The shadow values implement lexical scoping: every name is written as the
\* variable of the innermost loop that declares it, as in the LLVM backend.
ImplementsScoping == S!Spec
=============================================================================
