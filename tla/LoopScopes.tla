----------------------------- MODULE LoopScopes -----------------------------
(***************************************************************************)
(* How the LLVM backend compiles loops: LLVMVisitor::for_block() keeps the *)
(* loop variables in the flat map m_overriden_variables, saving what it    *)
(* overwrites, and PHPBindings keeps the iteration state of each loop in   *)
(* m_forLoopMetadata, by the value the loop iterates over.  The visitor    *)
(* and the bindings live as long as their engine and compile one template  *)
(* after the other; a compilation that throws leaves them as they are.     *)
(*                                                                         *)
(* The statements of a template are not kept: each step compiles whatever  *)
(* statement comes next, so the behaviours are those of all templates.     *)
(***************************************************************************)
EXTENDS Integers, Sequences

CONSTANTS
    Name,       \* names of variables
    None,       \* no key variable; an iterable that is not a plain variable
    Null,       \* a null llvm::Value*
    MaxDepth,   \* bound: nested loops
    MaxLoops    \* bound: loops compiled by one engine

ASSUME ScopeAssumption ==
    /\ None \notin Name
    /\ Null \notin {"key", "value", "lookup"} \X Nat
    /\ MaxDepth \in Nat
    /\ MaxLoops \in Nat

VARIABLES
    overridden, \* m_overriden_variables: name -> value, Null if absent
    metadata,   \* m_forLoopMetadata: pairs of a value and the loop it stands for
    frames,     \* the for_block() activations, outermost first
    compiling,  \* is LLVMVisitor::visit() running?
    loops,      \* number of loops compiled so far
    reference,  \* history: the last variable reference and its value
    advance,    \* history: the last loop whose next-iteration code was emitted,
                \* and the loop whose iteration state that code uses
    shadowed,   \* history: the loops with a loop inside over the same value
    failed      \* history: has a compilation thrown?

vars == <<overridden, metadata, frames, compiling, loops, reference, advance,
          shadowed, failed>>

Value == {"key", "value", "lookup"} \X Nat
KeyOf(i) == <<"key", i>>
ValueOf(i) == <<"value", i>>
Lookup(i) == <<"lookup", i>>    \* the result of a call that looks a value up

Depth == Len(frames)
Top == frames[Depth]

(***************************************************************************)
(* Plausible bugs, each caught by a property below; the specification does *)
(* not use them.  A key variable set after the value variable, an          *)
(* iteration state that is never dropped and a key variable that is never  *)
(* restored.                                                               *)
(***************************************************************************)
OverwriteKeyLast(map, k, kval, v, vval) ==
    [x \in Name |-> IF x = k THEN kval ELSE IF x = v THEN vval ELSE map[x]]

WithoutErasing(value) == metadata

EndBodyForgetsKey ==
    /\ compiling
    /\ Depth > 0 /\ Top.stage = "body"
    /\ overridden' = [overridden EXCEPT ![Top.value] = Top.oldValue]
    /\ advance' = <<Top.loop, Top.loop>>
    /\ frames' = [frames EXCEPT ![Depth].stage = "else"]
    /\ UNCHANGED <<metadata, compiling, loops, reference, shadowed, failed>>

Bound(k) == IF k = None THEN Null ELSE overridden[k]

\* The map after the key variable, then the value variable are set.
Overwrite(map, k, kval, v, vval) ==
    [x \in Name |-> IF x = v THEN vval ELSE IF x = k THEN kval ELSE map[x]]

\* The loop whose iteration state m_forLoopMetadata has for a value.
StateOf(value) ==
    IF \E i \in 1 .. loops : <<value, i>> \in metadata
    THEN CHOOSE i \in 1 .. loops : <<value, i>> \in metadata
    ELSE Null

Without(value) == {m \in metadata : m[1] # value}

Init ==
    /\ overridden = [x \in Name |-> Null]
    /\ metadata = {}
    /\ frames = <<>>
    /\ compiling = FALSE
    /\ loops = 0
    /\ reference = <<None, Null>>
    /\ advance = <<0, 0>>
    /\ shadowed = {}
    /\ failed = FALSE

\* visit() starts on a template; nothing is reset.
BeginTemplate ==
    /\ ~ compiling
    /\ compiling' = TRUE
    /\ UNCHANGED <<overridden, metadata, frames, loops, reference, advance,
                   shadowed, failed>>

\* variable_reference_expression(): the overriding value if there is one, a
\* lookup among the assignments (Null here) if not.
Reference(x) ==
    /\ compiling
    /\ reference' = <<x, overridden[x]>>
    /\ UNCHANGED <<overridden, metadata, frames, compiling, loops, advance,
                   shadowed, failed>>

\* for_block() up to the visit of the body.  The iterable x is a plain variable,
\* or something else, whose value is a new one.
EnterLoop(k, v, x) ==
    LET i        == loops + 1
        iterable == IF x # None /\ Bound(x) # Null THEN Bound(x) ELSE Lookup(i)
    IN  /\ compiling
        /\ Depth < MaxDepth /\ loops < MaxLoops
        /\ loops' = i
        /\ metadata' = Without(iterable) \cup {<<iterable, i>>}
        /\ overridden' = Overwrite(overridden, k, KeyOf(i), v, ValueOf(i))
        /\ frames' = Append(frames,
              [loop |-> i, iterable |-> iterable, key |-> k, value |-> v,
               oldKey |-> Bound(k), oldValue |-> overridden[v],
               stage |-> "body", before |-> overridden])
        /\ shadowed' = shadowed \cup
              {frames[j].loop : j \in {d \in 1 .. Depth :
                  frames[d].stage = "body" /\ frames[d].iterable = iterable}}
        /\ UNCHANGED <<compiling, reference, advance, failed>>

\* for_block() after the body: the old variables are restored, the code that
\* moves to the next iteration is emitted and the else body starts.
EndBody ==
    /\ compiling
    /\ Depth > 0 /\ Top.stage = "body"
    /\ overridden' = Overwrite(overridden, Top.key, Top.oldKey,
                               Top.value, Top.oldValue)
    /\ advance' = <<Top.loop, StateOf(Top.iterable)>>
    /\ frames' = [frames EXCEPT ![Depth].stage = "else"]
    /\ UNCHANGED <<metadata, compiling, loops, reference, shadowed, failed>>

\* for_block() after the else body: the iteration state is dropped.
LeaveLoop ==
    /\ compiling
    /\ Depth > 0 /\ Top.stage = "else"
    /\ metadata' = Without(Top.iterable)
    /\ frames' = SubSeq(frames, 1, Depth - 1)
    /\ UNCHANGED <<overridden, compiling, loops, reference, advance,
                   shadowed, failed>>

FinishTemplate ==
    /\ compiling
    /\ Depth = 0
    /\ compiling' = FALSE
    /\ UNCHANGED <<overridden, metadata, frames, loops, reference, advance,
                   shadowed, failed>>

\* A statement or an expression cannot be compiled (for instance a condition
\* that is a variant): the exception leaves every for_block() and visit().
Throw ==
    /\ compiling
    /\ compiling' = FALSE
    /\ frames' = <<>>
    /\ failed' = TRUE
    /\ UNCHANGED <<overridden, metadata, loops, reference, advance, shadowed>>

Next ==
    \/ BeginTemplate
    \/ \E x \in Name : Reference(x)
    \/ \E k \in Name \cup {None}, v \in Name, x \in Name \cup {None} :
          EnterLoop(k, v, x)
    \/ EndBody
    \/ LeaveLoop
    \/ FinishTemplate
    \/ Throw

Spec == Init /\ [][Next]_vars

-----------------------------------------------------------------------------
\* Types of the maps and of the activations of for_block().
Frame == [loop : Nat, iterable : Value, key : Name \cup {None}, value : Name,
          oldKey : Value \cup {Null}, oldValue : Value \cup {Null},
          stage : {"body", "else"}, before : [Name -> Value \cup {Null}]]

TypeOK ==
    /\ overridden \in [Name -> Value \cup {Null}]
    /\ metadata \subseteq Value \X (1 .. loops)
    /\ frames \in Seq(Frame)
    /\ compiling \in BOOLEAN
    /\ loops \in Nat
    /\ reference \in (Name \cup {None}) \X (Value \cup {Null})
    /\ failed \in BOOLEAN

\* The map while the body (or else body) of the i-th activation was compiled.
Around(i) == IF i = Depth THEN overridden ELSE frames[i + 1].before

\* Every activation can put back the map it found: undoing its two assignments
\* in the map as it will be when it gets there gives what it started from,
\* whatever names the loops inside it reuse.
RestoresWhatItFound ==
    \A i \in 1 .. Depth :
        IF frames[i].stage = "body"
        THEN Overwrite(Around(i), frames[i].key, frames[i].oldKey,
                       frames[i].value, frames[i].oldValue) = frames[i].before
        ELSE Around(i) = frames[i].before

\* for_block(): "temporarily overwrite the variables ... restore the old
\* variables": outside every loop no variable is overwritten.
NothingOverriddenOutside ==
    Depth = 0 => overridden = [x \in Name |-> Null]

\* ... which holds as long as no compilation has failed.
NothingOverriddenUntilFailure == ~ failed => NothingOverriddenOutside

\* The next-iteration code of a loop moves the loop's own position, never that
\* of another loop and never that of none, if no loop inside it iterates over
\* the very value it iterates over.
AdvancesItsOwnLoop ==
    advance[1] \notin shadowed => advance[2] = advance[1]

\* The meaning of a name that no loop overrides (see Scoping).
Assigned == <<"assigned", 0>>

\* The scopes the map and the activations stand for, and the meaning of the last
\* reference.  After a failure they stand for nothing any more.
AbstractValue(value) == IF value = Null THEN Assigned ELSE value
AbstractScope(map) == [x \in Name |-> AbstractValue(map[x])]
AbstractScopes ==
    IF failed
    THEN <<[x \in Name |-> Assigned]>>
    ELSE [i \in 1 .. Depth + 1 |->
             AbstractScope(IF i = Depth + 1 THEN overridden
                                            ELSE frames[i].before)]
AbstractMeaning ==
    IF failed THEN <<None, Assigned>>
    ELSE <<reference[1], AbstractValue(reference[2])>>

S == INSTANCE Scoping WITH
        Loop <- 1 .. MaxLoops,
        scopes <- AbstractScopes,
        meaning <- AbstractMeaning

\* The flat map with its saved values implements lexical scoping: until the first
\* compilation that fails, every reference is compiled to the variable of the
\* innermost loop that declares the name.
ImplementsScoping == S!Spec
=============================================================================
