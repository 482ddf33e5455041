------------------------------- MODULE Engine -------------------------------
(***************************************************************************)
(* An Engine object, the templates a script gets from it, and the native   *)
(* code they run.  parseTemplate() compiles a file into a function of the  *)
(* engine's LLVM module, keeps it under the name the script gave, and      *)
(* returns a Template that holds a reference to the engine: the code dies  *)
(* with the engine.  A template may call functions of the script while it  *)
(* renders, and these may do with the engine whatever the script may.      *)
(***************************************************************************)
EXTENDS Integers, Sequences, FiniteSets

CONSTANTS
    Name,          \* names of templates
    Content,       \* what a file may contain
    Flaw,          \* content -> where its compilation fails, or "none"
    Template,      \* identities of Template objects
    FunctionName,  \* names for addFunction()
    Value,         \* values the script passes to addFunction()
    Callable,      \* those of them that can be called
    None,          \* none of the above
    MaxFunctions,  \* bound: functions created in the module
    MaxEdits,      \* bound: changes of files
    MaxDepth       \* bound: renderings inside one another

ASSUME EngineAssumption ==
    /\ Flaw \in [Content -> {"none", "syntax", "include", "visit", "verify"}]
    /\ IsFiniteSet(Template) /\ IsFiniteSet(FunctionName)
    /\ Callable \subseteq Value
    /\ None \notin Template \cup Value \cup Nat
    /\ MaxFunctions \in Nat /\ MaxEdits \in Nat /\ MaxDepth \in Nat

VARIABLES
    files,        \* name -> content of the file
    edits,        \* number of changes of files
    life,         \* the engine: "none", "live", "destroyed"; "crashed"
    refcount,     \* references to the engine
    engineHeld,   \* has the script a reference to the engine?
    functions,    \* the functions created in the module
    deletions,    \* function -> how often it was deleted
    m_function,   \* the function that the visitor owns, or None
    m_functions,  \* name -> cached function, or None
    templates,    \* the Template objects that exist -> function, ...
    held,         \* those that the script has a reference to
    frames,       \* the renderings that are under way
    registered,   \* function name -> value, or None
    valueRefs,    \* value -> references to it
    valuesHeld,   \* values that the script has a reference to
    result        \* how the last call of a method of the engine ended

module  == <<functions, deletions, m_function, m_functions>>
objects == <<life, refcount, engineHeld, templates, held, frames>>
table   == <<registered, valueRefs, valuesHeld>>
vars    == <<files, edits, module, objects, table, result>>

Id == 1 .. MaxFunctions
If1(b) == IF b THEN 1 ELSE 0

\* The script runs between renderings, and in a function that a template calls.
ScriptRuns ==
    /\ life # "crashed"
    /\ frames # <<>> => frames[Len(frames)].at = "callback"

Callers == ScriptRuns /\ life = "live" /\ engineHeld

Init ==
    /\ files \in [Name -> Content]
    /\ edits = 0
    /\ life = "none"
    /\ refcount = 0
    /\ engineHeld = FALSE
    /\ functions = <<>>
    /\ deletions = [i \in Id |-> 0]
    /\ m_function = None
    /\ m_functions = [n \in Name |-> None]
    /\ templates = [t \in {} |-> None]
    /\ held = {}
    /\ frames = <<>>
    /\ registered = [f \in FunctionName |-> None]
    /\ valueRefs = [v \in Value |-> 1]
    /\ valuesHeld = Value
    /\ result = "none"

\* Engine_object_create() and __construct().
NewEngine ==
    /\ ScriptRuns
    /\ life = "none"
    /\ life' = "live"
    /\ refcount' = 1
    /\ engineHeld' = TRUE
    /\ UNCHANGED <<files, edits, module, templates, held, frames, table, result>>

-----------------------------------------------------------------------------
(***************************************************************************)
(* Plausible bugs, each caught by a property below; the specification does *)
(* not use them.  The templates do not refer to the engine, or each twice; *)
(* the visitor keeps the function that it returns; a function is cached    *)
(* before it is verified, or under the name that all functions have; a     *)
(* callback is counted before it is added.                                 *)
(***************************************************************************)
WithEngineUncounted == refcount
WithEngineTwice == refcount + 2
VisitorKeeps(i) == i
CachedUnverified(n, i) == [m_functions EXCEPT ![n] = i]
KeyOfFunction(n) == CHOOSE k \in Name : TRUE
RefusedCounted(v) == [valueRefs EXCEPT ![v] = @ + 1]

(***************************************************************************)
(* parseTemplate(), with the visitor, the module and the cache of          *)
(* LLVMBackend.                                                            *)
(***************************************************************************)
\* zend_update_property(): the references once one more Template has the engine.
WithEngine == refcount + 1

\* m_function.take(): what the visitor owns once it has returned function i.
VisitorAfter(i) == None

\* The cache after function i of template n has failed the verification.
CachedInvalid(n, i) == m_functions

\* What a template called n is kept under.
Key(n) == n

Compiled(n) ==
    [name |-> n, content |-> files[n], edited |-> FALSE]
FlawOf(i) == Flaw[functions[i].content]

\* Function::Create() adds a function to the module; the function that the visitor
\* still owns, after a visit that threw, is deleted and stays in the module's list.
CreateFunction(n) ==
    /\ Len(functions) < MaxFunctions
    /\ functions' = Append(functions, Compiled(n))
    /\ deletions' = [i \in Id |-> deletions[i] + If1(i = m_function)]

Deleted == {i \in DOMAIN functions : deletions[i] > 0}
DeletedNow == Deleted \cup ({m_function} \ {None})
Invalid == {i \in DOMAIN functions : FlawOf(i) = "verify"}

NewTemplate(t, n, i, edited) ==
    /\ t \notin DOMAIN templates
    /\ templates' = [u \in DOMAIN templates \cup {t} |->
                       IF u = t THEN [func |-> i, content |-> files[n], edited |-> edited]
                       ELSE templates[u]]
    /\ held' = held \cup {t}
    /\ refcount' = WithEngine
    /\ result' = "template"
    /\ UNCHANGED <<files, edits, life, engineHeld, frames, table>>

Throws ==
    /\ result' = "exception"
    /\ UNCHANGED <<files, edits, objects, table>>

\* Parser::parse() or optimizeAST() throws.
ParseFails(n) ==
    /\ Callers
    /\ Flaw[files[n]] \in {"syntax", "include"}
    /\ Throws
    /\ UNCHANGED module

Parsed(n) == Callers /\ Flaw[files[n]] \notin {"syntax", "include"}

\* The name is in the cache: the AST is dropped.
CacheHit(n, t) ==
    LET i == m_functions[Key(n)]
    IN  /\ Parsed(n)
        /\ i # None
        /\ NewTemplate(t, n, i, functions[i].edited)
        /\ UNCHANGED module

Missed(n) == Parsed(n) /\ m_functions[Key(n)] = None

\* LLVMVisitor::visit() throws, and owns what it has built so far.
VisitThrows(n) ==
    /\ Missed(n)
    /\ Flaw[files[n]] = "visit"
    /\ CreateFunction(n)
    /\ m_function' = Len(functions) + 1
    /\ UNCHANGED m_functions
    /\ Throws

\* The verifier is given the whole module.  What it makes of a function that was
\* deleted is undefined: see Crash.
VerifyMayPass(n) ==
    /\ Missed(n)
    /\ Flaw[files[n]] = "none"
    /\ Invalid = {}

VerifyMayFail(n) ==
    /\ Missed(n)
    /\ \/ Flaw[files[n]] = "verify"
       \/ Flaw[files[n]] = "none" /\ Invalid \cup DeletedNow # {}

\* verifyFunction() or verifyModule() fails; the function stays in the module.
VerifyFails(n) ==
    /\ VerifyMayFail(n)
    /\ CreateFunction(n)
    /\ m_function' = VisitorAfter(Len(functions) + 1)
    /\ m_functions' = CachedInvalid(n, Len(functions) + 1)
    /\ Throws

Compile(n, t) ==
    /\ VerifyMayPass(n)
    /\ CreateFunction(n)
    /\ m_function' = VisitorAfter(Len(functions) + 1)
    /\ m_functions' = [m_functions EXCEPT ![Key(n)] = Len(functions) + 1]
    /\ NewTemplate(t, n, Len(functions) + 1, FALSE)

\* The verifier reads a function that was deleted.
Crash(n) ==
    /\ Missed(n)
    /\ Flaw[files[n]] \in {"none", "verify"}
    /\ DeletedNow # {}
    /\ life' = "crashed"
    /\ UNCHANGED <<files, edits, module, refcount, engineHeld, templates, held,
                   frames, table, result>>

-----------------------------------------------------------------------------
(***************************************************************************)
(* addFunction().                                                          *)
(***************************************************************************)
\* The references to v after a call that was refused.
Refused(v) == valueRefs

AddFunction(f, v) ==
    /\ Callers
    /\ v \in valuesHeld
    /\ IF v \in Callable /\ registered[f] = None
       THEN /\ registered' = [registered EXCEPT ![f] = v]
            /\ valueRefs' = [valueRefs EXCEPT ![v] = @ + 1]
            /\ result' = "added"
       ELSE /\ valueRefs' = Refused(v)
            /\ result' = "exception"
            /\ UNCHANGED registered
    /\ UNCHANGED <<files, edits, module, objects, valuesHeld>>

-----------------------------------------------------------------------------
(***************************************************************************)
(* Lifetimes.  ~Engine_object() destroys the table of functions; then the  *)
(* members of the backend are destroyed, last first: m_engine deletes the  *)
(* module with its functions, m_visitor the function it owns.              *)
(***************************************************************************)
RegisteredAs(v) == {f \in FunctionName : registered[f] = v}

DestroyEngine ==
    /\ life' = "destroyed"
    /\ deletions' = [i \in Id |-> deletions[i] + If1(i \in DOMAIN functions)
                                               + If1(i = m_function)]
    /\ valueRefs' = [v \in Value |-> valueRefs[v] - Cardinality(RegisteredAs(v))]
    /\ registered' = [f \in FunctionName |-> None]

\* A reference to the engine goes away.
ReleaseEngine ==
    /\ refcount' = refcount - 1
    /\ IF refcount = 1 THEN DestroyEngine
       ELSE UNCHANGED <<life, deletions, valueRefs, registered>>

DropEngine ==
    /\ Callers
    /\ engineHeld' = FALSE
    /\ ReleaseEngine
    /\ UNCHANGED <<files, edits, functions, m_function, m_functions, templates, held,
                   frames, valuesHeld, result>>

\* A Template that is not referred to any more is freed, and with it its property.
FreeUnused(t, isHeld, fr) ==
    IF isHeld \/ \E i \in DOMAIN fr : fr[i].template = t
    THEN UNCHANGED <<templates, refcount, life, deletions, valueRefs, registered>>
    ELSE /\ templates' = [u \in DOMAIN templates \ {t} |-> templates[u]]
         /\ ReleaseEngine

DropTemplate(t) ==
    /\ ScriptRuns
    /\ t \in held
    /\ held' = held \ {t}
    /\ FreeUnused(t, FALSE, frames)
    /\ UNCHANGED <<files, edits, engineHeld, functions, m_function, m_functions,
                   frames, valuesHeld, result>>

\* Template::render() and Template::display(): the host keeps $this for the call.
BeginRender(t) ==
    /\ ScriptRuns
    /\ t \in held
    /\ Len(frames) < MaxDepth
    /\ frames' = Append(frames, [template |-> t, at |-> "code"])
    /\ UNCHANGED <<files, edits, module, life, refcount, engineHeld, templates, held,
                   table, result>>

InCode == life # "crashed" /\ frames # <<>> /\ frames[Len(frames)].at = "code"

\* do_method_call(): the native code calls a function of the script, and goes on.
CallFunction(f) ==
    /\ InCode
    /\ registered[f] # None
    /\ frames' = [frames EXCEPT ![Len(frames)].at = "callback"]
    /\ UNCHANGED <<files, edits, module, life, refcount, engineHeld, templates, held,
                   table, result>>

ReturnFromFunction ==
    /\ ScriptRuns
    /\ frames # <<>>
    /\ frames' = [frames EXCEPT ![Len(frames)].at = "code"]
    /\ UNCHANGED <<files, edits, module, life, refcount, engineHeld, templates, held,
                   table, result>>

EndRender ==
    LET t == frames[Len(frames)].template
    IN  /\ InCode
        /\ frames' = SubSeq(frames, 1, Len(frames) - 1)
        /\ FreeUnused(t, t \in held, frames')
        /\ UNCHANGED <<files, edits, engineHeld, functions, m_function, m_functions,
                       held, valuesHeld, result>>

DropValue(v) ==
    /\ ScriptRuns
    /\ v \in valuesHeld
    /\ valuesHeld' = valuesHeld \ {v}
    /\ valueRefs' = [valueRefs EXCEPT ![v] = @ - 1]
    /\ UNCHANGED <<files, edits, module, objects, registered, result>>

\* Somebody writes a file.
ChangeFile(n, c) ==
    /\ edits < MaxEdits
    /\ edits' = edits + 1
    /\ files' = [files EXCEPT ![n] = c]
    /\ functions' = [i \in DOMAIN functions |->
                       [functions[i] EXCEPT !.edited = @ \/ functions[i].name = n]]
    /\ UNCHANGED <<deletions, m_function, m_functions, objects, table, result>>

Next ==
    \/ NewEngine \/ DropEngine \/ ReturnFromFunction \/ EndRender
    \/ \E n \in Name : ParseFails(n) \/ VisitThrows(n) \/ VerifyFails(n) \/ Crash(n)
    \/ \E n \in Name, t \in Template : CacheHit(n, t) \/ Compile(n, t)
    \/ \E n \in Name, c \in Content : ChangeFile(n, c)
    \/ \E t \in Template : DropTemplate(t) \/ BeginRender(t)
    \/ \E f \in FunctionName, v \in Value : AddFunction(f, v)
    \/ \E f \in FunctionName : CallFunction(f)
    \/ \E v \in Value : DropValue(v)

Spec == Init /\ [][Next]_vars

-----------------------------------------------------------------------------
\* Types of the objects and of the module.
TypeOK ==
    /\ files \in [Name -> Content]
    /\ life \in {"none", "live", "destroyed", "crashed"}
    /\ refcount \in Nat
    /\ engineHeld \in BOOLEAN
    /\ functions \in Seq([name : Name, content : Content, edited : BOOLEAN])
    /\ deletions \in [Id -> Nat]
    /\ m_function \in DOMAIN functions \cup {None}
    /\ m_functions \in [Name -> DOMAIN functions \cup {None}]
    /\ DOMAIN templates \subseteq Template
    /\ \A t \in DOMAIN templates :
         templates[t] \in [func : DOMAIN functions, content : Content, edited : BOOLEAN]
    /\ held \subseteq DOMAIN templates
    /\ frames \in Seq([template : Template, at : {"code", "callback"}])
    /\ registered \in [FunctionName -> Value \cup {None}]
    /\ valueRefs \in [Value -> Nat]
    /\ valuesHeld \subseteq Value

\* Every Template that the script has, or that is being rendered, still exists, and
\* the native code of each is still there: no order of dropping engines and
\* templates, in a function that a template calls or outside, frees the module
\* under it, and the visitor never deletes a function that it has returned.
CodeAlive ==
    life # "crashed" =>
        /\ held \subseteq DOMAIN templates
        /\ \A i \in DOMAIN frames : frames[i].template \in DOMAIN templates
        /\ \A t \in DOMAIN templates :
              life = "live" /\ deletions[templates[t].func] = 0

\* The engine is destroyed as soon as nobody can use it: no template and no
\* failed call of parseTemplate() leaves a reference behind
\* (tests/php_binding/engine_refcount.test).
NoEngineLeaks ==
    life = "live" => engineHeld \/ held # {} \/ frames # <<>>

\* What createFunction() keeps for a name is a verified function made from a file
\* of that name: neither a visit that threw nor a failed verification leaves a
\* function in m_functions for the next call.
CacheIsVerified ==
    \A n \in Name : m_functions[n] # None =>
        FlawOf(m_functions[n]) = "none" /\ functions[m_functions[n]].name = n

\* A template that parseTemplate() returns renders the file as it is then, unless
\* it has been changed since it was first compiled.
RendersTheFileUnlessEdited ==
    \A t \in DOMAIN templates :
        \/ functions[templates[t].func].content = templates[t].content
        \/ templates[t].edited

\* Until a visit throws, each function of the module is deleted at most once.  (A
\* function that a visit has left behind is deleted by the next visit, or by
\* ~LLVMVisitor(), and with the module: llvm_visitor.cpp:23, llvm_backend.hpp:30.)
DeletedOnceUntilThrow ==
    (\A i \in DOMAIN functions : FlawOf(i) # "visit") =>
        \A i \in DOMAIN functions : deletions[i] <= 1

\* addFunction() counts a reference for each entry of registeredFunctions and for
\* nothing else, so a callback lives as long as a template may call it, and goes
\* with the engine.
CallbacksCounted ==
    \A v \in Value :
        valueRefs[v] = If1(v \in valuesHeld) + Cardinality(RegisteredAs(v))
=============================================================================
