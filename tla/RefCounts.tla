----------------------------- MODULE RefCounts -----------------------------
(***************************************************************************)
(* Reference counts of temporaries: PHPBindings counts at compile time, in *)
(* m_variablesRefCount, how many uses a value still has, and emits a call  *)
(* of destruct_zval() at the last one; the emitted code then counts, at    *)
(* run time, the references of each zval.                                  *)
(*                                                                         *)
(* The compilation of a template and one run of the emitted code advance   *)
(* together.  Code that is compiled but that this run does not reach (a    *)
(* branch not taken, a loop that has no element, everything after a call   *)
(* that failed) changes the counts and no zval.  One iteration stands for  *)
(* each iteration of a loop: DestroyedWhereCreated says why it may.        *)
(*                                                                         *)
(* An expression is compiled in postorder: each action takes the operands  *)
(* visited last and leaves its value.  The grammar gives attributes to     *)
(* identifiers only, and iterates over nothing else; an include may put    *)
(* any expression there, but no call: a mapped call is copied with null    *)
(* arguments, and the next pass that looks at the copy crashes.            *)
(***************************************************************************)
EXTENDS Integers, Sequences, FiniteSets, SequencesExt

CONSTANTS
    MaxValues,      \* bound: variant values in a template
    MaxOperands,    \* bound: operands of an expression not used yet
    MaxDepth        \* bound: nested blocks

ASSUME RefCountAssumption ==
    MaxValues \in Nat /\ MaxOperands \in Nat /\ MaxDepth \in Nat

VARIABLES
    values,     \* the variants, by id
    operands,   \* the values visited and not used yet: ids, NATIVE or BOOL
    blocks,     \* the open for and if blocks, outermost first
    live,       \* does this run enter the block being compiled?
    returned,   \* has this run left the template because a call failed?
    finished,   \* is the template compiled?
    torn        \* did this run free the table of an array it left in place?

vars == <<values, operands, blocks, live, returned, finished, torn>>

NATIVE == 0         \* a number or a string, no zval
BOOL == -1          \* an i1
Script == 0         \* the root of what the script owns
None == 0           \* no value
UNCOUNTED == -1     \* m_variablesRefCount of what is never destroyed

Running == live /\ ~ returned
Top == blocks[Len(blocks)]
Pop(s) == Front(s)
Compiling == ~ finished

\* Where code goes: into which block, and which of its arms.
Place(bs) == <<Len(bs), IF bs = <<>> THEN "template" ELSE bs[Len(bs)].arm>>
Here == Place(blocks)
Around == Place(Pop(blocks))
Inside == <<Len(blocks) + 1, "body">>
Nowhere == <<-1, "nowhere">>

(***************************************************************************)
(* A variant: its compile time count; the zval whose memory holds it (the  *)
(* script's or its own); the references to its own zval; whether it may be *)
(* an array or an object; whether a call is part of its expression; where  *)
(* it is created and where destroyed; how often it was an argument of a    *)
(* function.                                                               *)
(***************************************************************************)
Variant(count, root, refs, table, call, home) ==
    [count |-> count, root |-> root, refs |-> refs, table |-> table,
     call |-> call, home |-> home, gone |-> Nowhere, passed |-> 0]

NewId == Len(values) + 1
Temporary(runs, table, call, home) ==
    Variant(1, NewId, IF runs THEN 1 ELSE 0, table, call, home)
Borrowed(table) == Variant(UNCOUNTED, Script, 0, table, FALSE, Nowhere)

Counted(vs, v) == v >= 1 /\ vs[v].count # UNCOUNTED

Destroyed(value, place, runs) ==
    [value EXCEPT !.count = 0, !.gone = place,
                  !.refs = IF runs THEN @ - 1 ELSE @]

\* A plausible bug, not used by the specification: a value is destroyed at
\* each of its uses.
OutOfScopeAtOnce(vs, v, place, runs) ==
    IF Counted(vs, v)
    THEN [vs EXCEPT ![v] = [Destroyed(@, place, runs) EXCEPT !.count = 1]]
    ELSE vs

\* variableGoesOutOfScope(): the last use emits destruct_zval().
OutOfScope(vs, v, place, runs) ==
    IF ~ Counted(vs, v) THEN vs
    ELSE IF vs[v].count = 1 THEN [vs EXCEPT ![v] = Destroyed(@, place, runs)]
    ELSE [vs EXCEPT ![v].count = @ - 1]

\* Of one operand, or of two from left to right.
AllOutOfScope(vs, used, runs) ==
    LET first == OutOfScope(vs, used[1], Here, runs)
    IN  IF Len(used) = 1 THEN first ELSE OutOfScope(first, used[2], Here, runs)

Init ==
    /\ values = <<>>
    /\ operands = <<>>
    /\ blocks = <<>>
    /\ live = TRUE
    /\ returned = FALSE
    /\ finished = FALSE
    /\ torn = FALSE

(***************************************************************************)
(* Expressions.  Whether a call fails, an attribute is found or a branch   *)
(* is taken is only asked where this run gets to.                          *)
(***************************************************************************)
CanPush == Compiling /\ Len(operands) < MaxOperands
CanCreate == Compiling /\ Len(values) < MaxValues

Literal(type) ==
    /\ CanPush
    /\ operands' = Append(operands, type)
    /\ UNCHANGED <<values, blocks, live, returned, finished, torn>>

\* createVariableLookup(): a value the script owns.
Lookup ==
    /\ CanPush /\ CanCreate
    /\ values' = Append(values, Borrowed(TRUE))
    /\ operands' = Append(operands, NewId)
    /\ UNCHANGED <<blocks, live, returned, finished, torn>>

\* What get_attribute() returns: an element of the variable's table, or the null
\* zval if the variable has no table or the table no such element.  The script
\* owns the elements, those of the temporary a + b as well: Zend makes a union of
\* arrays that shares its elements with a and b, and counts the references.
Attribute(found) == Borrowed(found)

\* What may stand where the grammar has a variable, or an attribute of one.
StandsForVariable(v) == v >= 1 /\ ~ values[v].call

\* Plausible bugs again: a reference to a variable of a loop that is not counted,
\* and attributes that keep what they are attributes of.
LoopVariableUncounted(v) ==
    /\ CanPush
    /\ \E i \in DOMAIN blocks :
          blocks[i].arm = "body" /\ v \in {blocks[i].key, blocks[i].value}
    /\ v # None
    /\ operands' = Append(operands, v)
    /\ UNCHANGED <<values, blocks, live, returned, finished, torn>>

\* getNewReferenceForVariable() of a variable of a loop around.
LoopVariable(v) ==
    /\ CanPush
    /\ \E i \in DOMAIN blocks :
          blocks[i].arm = "body" /\ v \in {blocks[i].key, blocks[i].value}
    /\ v # None
    /\ values' = [values EXCEPT ![v].count = IF @ = UNCOUNTED THEN @ ELSE @ + 1]
    /\ operands' = Append(operands, v)
    /\ UNCHANGED <<blocks, live, returned, finished, torn>>

Before(n) == SubSeq(operands, 1, Len(operands) - n)
Used(n) == SubSeq(operands, Len(operands) - n + 1, Len(operands))
Native(used) == \A i \in DOMAIN used : used[i] < 1

\* binary_operation_expression() or unary_operation_expression() of operands
\* that are no variants; an operation on i1s has an i1 as its result.
NativeOperation(n) ==
    /\ Compiling /\ Len(operands) >= n
    /\ Native(Used(n))
    /\ operands' = Append(Before(n), IF ToSet(Used(n)) = {BOOL} THEN BOOL
                                             ELSE NATIVE)
    /\ UNCHANGED <<values, blocks, live, returned, finished, torn>>

\* createVariantBinaryOperation() and createVariantUnaryOperation(): the result
\* is a new zval (the function makes it even if it fails), an array if it is the
\* sum of two arrays; a failure returns from the template before the operands are
\* destroyed.
Result(n) ==
    LET used == ToSet(Used(n))
        table == n = 2 /\ \A v \in used : v >= 1 /\ values[v].table
        call == \E v \in used : v >= 1 /\ values[v].call
    IN  Temporary(Running, table, call, Here)

VariantOperation(n, fails) ==
    /\ CanCreate /\ Len(operands) >= n
    /\ ~ Native(Used(n))
    /\ fails => Running
    /\ values' = AllOutOfScope(Append(values, Result(n)), Used(n), Running /\ ~ fails)
    /\ operands' = Append(Before(n), NewId)
    /\ returned' = (returned \/ fails)
    /\ UNCHANGED <<blocks, live, finished, torn>>

\* comparison_expression(), with createVariantComparison().
Comparison(fails) ==
    /\ Compiling /\ Len(operands) >= 2
    /\ fails => Running /\ ~ Native(Used(2))
    /\ values' = AllOutOfScope(values, Used(2), Running /\ ~ fails)
    /\ operands' = Append(Before(2), BOOL)
    /\ returned' = (returned \/ fails)
    /\ UNCHANGED <<blocks, live, finished, torn>>

\* How often a value is among the n operands used.
Arguments(n, v) ==
    Cardinality({i \in DOMAIN operands : i > Len(operands) - n /\ operands[i] = v})

\* createMethodCall(): an argument that is a variant is not destroyed.  A call
\* that fails leaves its return_value behind and returns from the template.
MethodCall(n, fails) ==
    /\ CanCreate /\ Len(operands) >= n
    /\ fails => Running
    /\ values' = Append([v \in DOMAIN values |->
                            [values[v] EXCEPT !.passed = @ + Arguments(n, v)]],
                        Temporary(Running, TRUE, TRUE, Here))
    /\ operands' = Append(Before(n), NewId)
    /\ returned' = (returned \/ fails)
    /\ UNCHANGED <<blocks, live, finished, torn>>

GetAttributeKeeping(found) ==
    /\ CanCreate /\ Len(operands) >= 1
    /\ StandsForVariable(operands[Len(operands)])
    /\ found => Running /\ values[operands[Len(operands)]].table
    /\ values' = Append(values, Attribute(found))
    /\ operands' = Append(Before(1), NewId)
    /\ UNCHANGED <<blocks, live, returned, finished, torn>>

\* createGetAttribute(): the attribute, after which the variable goes out of
\* scope.
GetAttribute(found) ==
    LET v == operands[Len(operands)]
    IN  /\ CanCreate /\ Len(operands) >= 1
        /\ StandsForVariable(v)
        /\ found => Running /\ values[v].table
        /\ values' = OutOfScope(Append(values, Attribute(found)), v, Here, Running)
        /\ operands' = Append(Before(1), NewId)
        /\ UNCHANGED <<blocks, live, returned, finished, torn>>

(***************************************************************************)
(* Statements, each of which takes one complete expression.                *)
(***************************************************************************)
Complete == Compiling /\ Len(operands) = 1
AtStatement == Compiling /\ operands = <<>>

\* print_block().  print_variant() converts a bitwise copy of what is no string
\* to one: convert_to_string() frees the table of an array, and the array still
\* points to it.
PrintBlock(array) ==
    LET v == operands[1]
    IN  /\ Complete
        /\ array => Running /\ v >= 1 /\ values[v].table
        /\ values' = OutOfScope(values, v, Here, Running)
        /\ operands' = <<>>
        /\ torn' = (torn \/ array)
        /\ UNCHANGED <<blocks, live, returned, finished>>

Block(arm, key, value, iterable, taken) ==
    [arm |-> arm, key |-> key, value |-> value, iterable |-> iterable,
     taken |-> taken, around |-> live]

\* if_block(): only an i1 is a condition.
BeginIf(taken) ==
    /\ Complete /\ operands[1] = BOOL
    /\ taken => Running
    /\ Len(blocks) < MaxDepth
    /\ blocks' = Append(blocks, Block("then", None, None, None, taken))
    /\ operands' = <<>>
    /\ live' = (live /\ taken)
    /\ UNCHANGED <<values, returned, finished, torn>>

BeginElse ==
    /\ AtStatement
    /\ blocks # <<>> /\ Top.arm = "then"
    /\ blocks' = [blocks EXCEPT ![Len(blocks)].arm = "else"]
    /\ live' = (Top.around /\ ~ Top.taken)
    /\ UNCHANGED <<values, operands, returned, finished, torn>>

EndIf ==
    /\ AtStatement
    /\ blocks # <<>> /\ Top.arm = "else"
    /\ blocks' = Pop(blocks)
    /\ live' = Top.around
    /\ UNCHANGED <<values, operands, returned, finished, torn>>

\* for_block() up to the body: forloop_getvalues() makes a zval for the key and
\* points the value to an element of the iterable, which is the script's (see
\* Attribute).
BeginFor(hasKey, taken) ==
    LET it    == operands[1]
        key   == IF hasKey THEN NewId ELSE None
        value == IF hasKey THEN NewId + 1 ELSE NewId
        k     == Temporary(Running /\ taken, FALSE, FALSE, Inside)
    IN  /\ Complete /\ StandsForVariable(it)
        /\ taken => Running /\ values[it].table
        /\ Len(blocks) < MaxDepth
        /\ value <= MaxValues
        /\ values' = values \o IF hasKey THEN <<k, Borrowed(TRUE)>> ELSE <<Borrowed(TRUE)>>
        /\ blocks' = Append(blocks, Block("body", key, value, it, taken))
        /\ operands' = <<>>
        /\ live' = (live /\ taken)
        /\ UNCHANGED <<returned, finished, torn>>

\* for_block() after the body: the variables go out of scope.
EndBody ==
    /\ AtStatement
    /\ blocks # <<>> /\ Top.arm = "body"
    /\ values' = AllOutOfScope(values, <<Top.key, Top.value>>, Running)
    /\ blocks' = [blocks EXCEPT ![Len(blocks)].arm = "elsefor"]
    /\ live' = (Top.around /\ ~ Top.taken)
    /\ UNCHANGED <<operands, returned, finished, torn>>

\* for_block() after the else body, where both paths meet: the iterable goes
\* out of scope.
EndFor ==
    /\ AtStatement
    /\ blocks # <<>> /\ Top.arm = "elsefor"
    /\ blocks' = Pop(blocks)
    /\ live' = Top.around
    /\ values' = OutOfScope(values, Top.iterable, Around,
                            Top.around /\ ~ returned)
    /\ UNCHANGED <<operands, returned, finished, torn>>

\* functionTeardown().
FinishTemplate ==
    /\ AtStatement /\ blocks = <<>>
    /\ finished' = TRUE
    /\ UNCHANGED <<values, operands, blocks, live, returned, torn>>

\* The next template: functionTeardown() has cleared the counts.
BeginTemplate ==
    /\ finished
    /\ values' = <<>>
    /\ live' = TRUE
    /\ returned' = FALSE
    /\ finished' = FALSE
    /\ torn' = FALSE
    /\ UNCHANGED <<operands, blocks>>

Next ==
    \/ \E type \in {NATIVE, BOOL} : Literal(type)
    \/ Lookup
    \/ \E v \in 1 .. MaxValues : LoopVariable(v)
    \/ \E n \in {1, 2} : NativeOperation(n)
    \/ \E n \in {1, 2}, fails \in BOOLEAN : VariantOperation(n, fails)
    \/ \E fails \in BOOLEAN : Comparison(fails)
    \/ \E n \in 1 .. MaxOperands, fails \in BOOLEAN : MethodCall(n, fails)
    \/ \E found \in BOOLEAN : GetAttribute(found)
    \/ \E array \in BOOLEAN : PrintBlock(array)
    \/ \E taken \in BOOLEAN : BeginIf(taken)
    \/ BeginElse
    \/ EndIf
    \/ \E hasKey, taken \in BOOLEAN : BeginFor(hasKey, taken)
    \/ EndBody
    \/ EndFor
    \/ FinishTemplate
    \/ BeginTemplate

Spec == Init /\ [][Next]_vars

-----------------------------------------------------------------------------
Places == (-1 .. MaxDepth) \X
          {"template", "then", "else", "body", "elsefor", "nowhere"}

\* Types of the variants, the operands and the blocks: a count is never less
\* than UNCOUNTED, and every operand, key and iterable is a variant that exists.
TypeOK ==
    /\ \A v \in DOMAIN values :
          /\ values[v].count \in Nat \cup {UNCOUNTED}
          /\ values[v].root \in {v, Script}
          /\ values[v].refs \in Int
          /\ {values[v].home, values[v].gone} \subseteq Places
          /\ values[v].passed \in Nat
          /\ {values[v].table, values[v].call} \subseteq BOOLEAN
    /\ \A i \in DOMAIN operands : operands[i] \in DOMAIN values \cup {NATIVE, BOOL}
    /\ \A i \in DOMAIN blocks :
          /\ {blocks[i].key, blocks[i].value, blocks[i].iterable}
                 \subseteq DOMAIN values \cup {None}
          /\ {blocks[i].taken, blocks[i].around} \subseteq BOOLEAN
    /\ {live, returned, finished, torn} \subseteq BOOLEAN

\* The places a value is still needed at: as an operand, as the key of a loop
\* whose body is open, as what an open loop iterates over.
OperandsOf(v) == {i \in DOMAIN operands : operands[i] = v}
KeysOf(v) == {i \in DOMAIN blocks : blocks[i].arm = "body" /\ blocks[i].key = v}
IterablesOf(v) == {i \in DOMAIN blocks : blocks[i].iterable = v}
Needed == {v \in DOMAIN values :
              OperandsOf(v) \cup KeysOf(v) \cup IterablesOf(v) # {}}

\* Every reference is accounted for: m_variablesRefCount has one for each place
\* a value is still needed at, and one for each time it was passed to a
\* function, which createMethodCall() never takes back.
CountsReferences ==
    \A v \in DOMAIN values :
        values[v].count # UNCOUNTED =>
            values[v].count = Cardinality(OperandsOf(v))
                              + Cardinality(KeysOf(v))
                              + Cardinality(IterablesOf(v)) + values[v].passed

\* No run of the emitted code destroys a zval more often than it made it,
\* whichever branches it takes and wherever a call fails.  (The table of an
\* array that was printed is another matter: PrintedKeepTables.)
NoDoubleFree == \A v \in DOMAIN values : values[v].refs >= 0

\* While this run needs a temporary it has not been destroyed, though the uses
\* that were counted may be in branches it does not take.
TemporariesLive ==
    Running => \A v \in Needed : values[v].root = v => values[v].refs > 0

\* get_value_from_hashtable() and get_attribute(): "The return value of this
\* function should never be destroyed": an array keeps its table when a template
\* prints it.
PrintedKeepTables == ~ torn

\* The call that destroys a zval is in the very block, and the very arm of it,
\* that makes the zval.  So a run makes and destroys it equally often, however
\* often it goes through that block.
DestroyedWhereCreated ==
    \A v \in DOMAIN values : values[v].gone \in {Nowhere, values[v].home}

\* A run that no failing call cuts short destroys every temporary that was not
\* passed to a function.
NothingLeaks ==
    finished /\ ~ returned =>
        \A v \in DOMAIN values : values[v].refs > 0 => values[v].passed > 0
=============================================================================
