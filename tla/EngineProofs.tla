--------------------------- MODULE EngineProofs ---------------------------
(***************************************************************************)
(* Lifetimes of engines, templates, native code and callbacks, for every   *)
(* number of each.  The invariant has three parts that do not depend on    *)
(* one another's proofs: who refers to the engine (Lifetime), what is in   *)
(* the module (Code), and who refers to a callback (CallbacksCounted).     *)
(***************************************************************************)
EXTENDS Engine, FiniteSetTheorems, SequenceTheorems, TLAPS

FrameType == [template : Template, at : {"code", "callback"}]
FunctionType == [name : Name, content : Content, edited : BOOLEAN]

\* The templates that the script or a rendering refers to.
Framed(fr) == {fr[i].template : i \in DOMAIN fr}

\* The engine is referred to by the script and by each template, each template by
\* the script or a rendering; the engine lives while it is referred to.
Lifetime ==
    /\ life \in {"none", "live", "destroyed", "crashed"}
    /\ engineHeld \in BOOLEAN
    /\ frames \in Seq(FrameType)
    /\ DOMAIN templates \subseteq Template
    /\ DOMAIN templates = held \cup Framed(frames)
    /\ refcount = If1(engineHeld) + Cardinality(DOMAIN templates)
    /\ life # "crashed" => (refcount > 0 <=> life = "live")

\* What the visitor owns is a function whose visit threw, and only such a function
\* is deleted before the engine is; functions that are cached, or that a template
\* has, are verified.
Code ==
    /\ files \in [Name -> Content]
    /\ functions \in Seq(FunctionType)
    /\ Len(functions) <= MaxFunctions
    /\ deletions \in [Id -> Nat]
    /\ m_function \in DOMAIN functions \cup {None}
    /\ m_function # None => FlawOf(m_function) = "visit"
    /\ m_functions \in [Name -> DOMAIN functions \cup {None}]
    /\ CacheIsVerified
    /\ \A t \in DOMAIN templates :
         /\ templates[t] \in [func : DOMAIN functions, content : Content, edited : BOOLEAN]
         /\ FlawOf(templates[t].func) = "none"
    /\ life \in {"none", "live"} =>
         \A i \in Id : deletions[i] > 0 => i \in DOMAIN functions /\ FlawOf(i) = "visit"

Callbacks ==
    /\ registered \in [FunctionName -> Value \cup {None}]
    /\ valuesHeld \subseteq Value
    /\ valueRefs \in [Value -> Int]
    /\ CallbacksCounted

\* The number of references is a natural number, and removing or adding a template
\* changes it by one.
LEMMA Counting ==
    ASSUME EngineAssumption, NEW S \in SUBSET Template
    PROVE  /\ IsFiniteSet(S)
           /\ Cardinality(S) \in Nat
           /\ Cardinality(S) = 0 <=> S = {}
           /\ \A t \in S : Cardinality(S \ {t}) = Cardinality(S) - 1
           /\ \A t : t \notin S => Cardinality(S \cup {t}) = Cardinality(S) + 1
<1>1. IsFiniteSet(S)
  BY FS_Subset DEF EngineAssumption
<1>2. Cardinality(S) \in Nat
  BY <1>1, FS_CardinalityType
<1>3. Cardinality(S) = 0 <=> S = {}
  BY <1>1, FS_EmptySet
<1>4. \A t \in S : Cardinality(S \ {t}) = Cardinality(S) - 1
  BY <1>1, FS_RemoveElement
<1>5. \A t : t \notin S => Cardinality(S \cup {t}) = Cardinality(S) + 1
  BY <1>1, FS_AddElement
<1>. QED  BY <1>1, <1>2, <1>3, <1>4, <1>5

-----------------------------------------------------------------------------
(***************************************************************************)
(* Lifetime.                                                               *)
(***************************************************************************)
\* A reference to the engine is released: the part that FreeUnused and DropEngine
\* share.
LEMMA Released ==
    ASSUME Lifetime, EngineAssumption, life # "crashed", refcount > 0, ReleaseEngine
    PROVE  /\ refcount' = refcount - 1
           /\ life' \in {"live", "destroyed"}
           /\ refcount' > 0 <=> life' = "live"
<1>1. life = "live" /\ refcount \in Nat
  <2>1. Cardinality(DOMAIN templates) \in Nat
    BY Counting DEF Lifetime
  <2>. QED  BY <2>1 DEF Lifetime, If1
<1>2. CASE refcount = 1
  BY <1>1, <1>2 DEF ReleaseEngine, DestroyEngine
<1>3. CASE refcount # 1
  BY <1>1, <1>3 DEF ReleaseEngine
<1>. QED  BY <1>2, <1>3

\* The engine is live while there is a template.
LEMMA LiveWithTemplates ==
    ASSUME Lifetime, EngineAssumption, life # "crashed", DOMAIN templates # {}
    PROVE  life = "live" /\ refcount > 0 /\ refcount \in Nat
<1>1. Cardinality(DOMAIN templates) \in Nat /\ Cardinality(DOMAIN templates) # 0
  BY Counting DEF Lifetime
<1>. QED  BY <1>1 DEF Lifetime, If1

\* A template that is not referred to any more is freed.
LEMMA Freed ==
    ASSUME Lifetime, EngineAssumption, life # "crashed",
           NEW t \in DOMAIN templates, NEW h, NEW fr,
           h \cup Framed(fr) = IF t \in h \cup Framed(fr) THEN DOMAIN templates
                               ELSE DOMAIN templates \ {t},
           FreeUnused(t, t \in h, fr),
           engineHeld' = engineHeld
    PROVE  /\ DOMAIN templates' = h \cup Framed(fr)
           /\ refcount' = If1(engineHeld') + Cardinality(DOMAIN templates')
           /\ life' # "crashed" /\ life' \in {"none", "live", "destroyed", "crashed"}
           /\ refcount' > 0 <=> life' = "live"
<1>1. t \in Framed(fr) <=> \E i \in DOMAIN fr : fr[i].template = t
  BY DEF Framed
<1>2. life = "live" /\ refcount > 0 /\ refcount \in Nat
  BY LiveWithTemplates
<1>3. CASE t \in h \cup Framed(fr)
  BY <1>1, <1>2, <1>3 DEF FreeUnused, Lifetime
<1>4. CASE t \notin h \cup Framed(fr)
  <2>1. /\ templates' = [u \in DOMAIN templates \ {t} |-> templates[u]]
        /\ ReleaseEngine
    BY <1>1, <1>4 DEF FreeUnused
  <2>2. DOMAIN templates' = DOMAIN templates \ {t}
    BY <2>1
  <2>3. Cardinality(DOMAIN templates') = Cardinality(DOMAIN templates) - 1
    <3>1. DOMAIN templates \in SUBSET Template
      BY DEF Lifetime
    <3>2. Cardinality(DOMAIN templates \ {t}) = Cardinality(DOMAIN templates) - 1
      BY <3>1, Counting
    <3>. QED  BY <2>2, <3>2
  <2>4. /\ refcount' = refcount - 1
        /\ life' \in {"live", "destroyed"}
        /\ refcount' > 0 <=> life' = "live"
    BY <1>2, <2>1, Released
  <2>5. Cardinality(DOMAIN templates) \in Nat
    BY Counting DEF Lifetime
  <2>. QED  BY <1>4, <2>2, <2>3, <2>4, <2>5 DEF Lifetime, If1
<1>. QED  BY <1>3, <1>4

\* A new engine is referred to by the script only.
LEMMA NewEngineLifetime ==
    ASSUME Lifetime, EngineAssumption, NewEngine
    PROVE  Lifetime'
<1>1. Cardinality(DOMAIN templates) \in Nat
  BY Counting DEF Lifetime
<1>2. refcount = 0 /\ refcount = If1(engineHeld) + Cardinality(DOMAIN templates)
  BY <1>1 DEF Lifetime, NewEngine, If1
<1>3. Cardinality(DOMAIN templates) = 0 /\ engineHeld = FALSE
  BY <1>1, <1>2 DEF Lifetime, If1
<1>. QED  BY <1>1, <1>3 DEF Lifetime, NewEngine, If1

\* A new template refers to the engine, and the script to it.
LEMMA NewTemplateLifetime ==
    ASSUME Lifetime, EngineAssumption, Callers,
           NEW t \in Template, NEW n, NEW i, NEW e, NewTemplate(t, n, i, e)
    PROVE  Lifetime'
<1>1. DOMAIN templates' = DOMAIN templates \cup {t} /\ t \notin DOMAIN templates
  BY DEF NewTemplate
<1>2. Cardinality(DOMAIN templates') = Cardinality(DOMAIN templates) + 1
  BY <1>1, Counting, ZenonT(60) DEF Lifetime
<1>3. Cardinality(DOMAIN templates) \in Nat
  BY Counting DEF Lifetime
<1>4. refcount' = refcount + 1 /\ life' = life /\ life = "live"
  BY DEF NewTemplate, WithEngine, Callers
<1>5. held' = held \cup {t} /\ frames' = frames /\ engineHeld' = engineHeld
  BY DEF NewTemplate
<1>. QED  BY <1>1, <1>2, <1>3, <1>4, <1>5 DEF Lifetime, If1

\* The script drops the engine, which lives on if a template refers to it.
LEMMA DropEngineLifetime ==
    ASSUME Lifetime, EngineAssumption, DropEngine
    PROVE  Lifetime'
<1>1. Cardinality(DOMAIN templates) \in Nat
  BY Counting DEF Lifetime
<1>2. life = "live" /\ engineHeld = TRUE /\ refcount > 0
  BY <1>1 DEF DropEngine, Callers, Lifetime, If1
<1>3. ReleaseEngine /\ engineHeld' = FALSE /\ UNCHANGED <<templates, held, frames>>
  BY DEF DropEngine
<1>4. /\ refcount' = refcount - 1
      /\ life' \in {"live", "destroyed"}
      /\ refcount' > 0 <=> life' = "live"
  BY <1>2, <1>3, Released
<1>5. If1(engineHeld) = 1 /\ If1(engineHeld') = 0
  BY <1>2, <1>3 DEF If1
<1>6. refcount' = If1(engineHeld') + Cardinality(DOMAIN templates')
  BY <1>1, <1>3, <1>4, <1>5 DEF Lifetime
<1>. QED  BY <1>3, <1>4, <1>6 DEF Lifetime

\* The script drops a template, which lives on if it is being rendered.
LEMMA DropTemplateLifetime ==
    ASSUME Lifetime, EngineAssumption, NEW t \in Template, DropTemplate(t)
    PROVE  Lifetime'
<1>1. /\ t \in held /\ held' = held \ {t} /\ life # "crashed"
      /\ FreeUnused(t, FALSE, frames)
      /\ engineHeld' = engineHeld /\ frames' = frames
  BY DEF DropTemplate, ScriptRuns
<1>2. t \in DOMAIN templates
  BY <1>1 DEF Lifetime
<1>3. held' \cup Framed(frames) = IF t \in held' \cup Framed(frames) THEN DOMAIN templates
                                  ELSE DOMAIN templates \ {t}
  BY <1>1 DEF Lifetime
<1>4. FreeUnused(t, t \in held', frames)
  BY <1>1 DEF FreeUnused
<1>5. /\ DOMAIN templates' = held' \cup Framed(frames)
      /\ refcount' = If1(engineHeld') + Cardinality(DOMAIN templates')
      /\ life' # "crashed" /\ life' \in {"none", "live", "destroyed", "crashed"}
      /\ refcount' > 0 <=> life' = "live"
  BY <1>1, <1>2, <1>3, <1>4, Freed
<1>6. DOMAIN templates' \subseteq DOMAIN templates
  BY <1>1, <1>5 DEF Lifetime
<1>. QED  BY <1>1, <1>5, <1>6 DEF Lifetime

\* A rendering refers to its template.
LEMMA BeginRenderLifetime ==
    ASSUME Lifetime, EngineAssumption, NEW t \in Template, BeginRender(t)
    PROVE  Lifetime'
<1>. DEFINE new == [template |-> t, at |-> "code"]
<1>1. /\ t \in held /\ frames' = Append(frames, new)
      /\ UNCHANGED <<life, refcount, engineHeld, templates, held>>
  BY DEF BeginRender
<1>2. new \in FrameType
  BY DEF FrameType
<1>3. frames' \in Seq(FrameType)
  BY <1>1, <1>2 DEF Lifetime
<1>4. DOMAIN frames' = DOMAIN frames \cup {Len(frames) + 1}
  BY <1>1 DEF Lifetime
<1>5. frames'[Len(frames) + 1].template = t /\ \A i \in DOMAIN frames : frames'[i] = frames[i]
  BY <1>1 DEF Lifetime
<1>6. Framed(frames') = Framed(frames) \cup {t}
  BY <1>4, <1>5 DEF Framed
<1>. QED  BY <1>1, <1>3, <1>6 DEF Lifetime

\* The rendering on top goes from code to a callback, or back.
LEMMA TurnLifetime ==
    ASSUME Lifetime, NEW a \in {"code", "callback"}, frames # <<>>,
           frames' = [frames EXCEPT ![Len(frames)].at = a],
           UNCHANGED <<life, refcount, engineHeld, templates, held>>
    PROVE  Lifetime'
<1>1. frames \in Seq(FrameType) /\ Len(frames) \in DOMAIN frames
  BY DEF Lifetime
<1>2. DOMAIN frames' = DOMAIN frames /\ Len(frames') = Len(frames)
  BY <1>1
<1>3. ASSUME NEW i \in DOMAIN frames
      PROVE  frames'[i].template = frames[i].template /\ frames'[i] \in FrameType
  <2>1. frames[i] \in FrameType
    BY <1>1
  <2>2. CASE i = Len(frames)
    <3>1. frames'[i] = [frames[i] EXCEPT !.at = a]
      BY <1>1, <2>2
    <3>. QED  BY <2>1, <3>1 DEF FrameType
  <2>3. CASE i # Len(frames)
    BY <1>1, <2>1, <2>3
  <2>. QED  BY <2>2, <2>3
<1>4. frames' \in Seq(FrameType)
  BY <1>1, <1>2, <1>3
<1>5. Framed(frames') = Framed(frames)
  BY <1>2, <1>3 DEF Framed
<1>. QED  BY <1>4, <1>5 DEF Lifetime

\* The end of a rendering may free the template, and with it the engine.
LEMMA EndRenderLifetime ==
    ASSUME Lifetime, EngineAssumption, EndRender
    PROVE  Lifetime'
<1>. DEFINE t == frames[Len(frames)].template
<1>1. /\ frames # <<>> /\ life # "crashed"
      /\ frames' = SubSeq(frames, 1, Len(frames) - 1)
      /\ FreeUnused(t, t \in held, frames')
      /\ engineHeld' = engineHeld /\ held' = held
  BY DEF EndRender, InCode
<1>2. /\ frames \in Seq(FrameType)
      /\ Len(frames) \in DOMAIN frames /\ Len(frames) \in Nat \ {0}
  BY <1>1 DEF Lifetime
<1>3. /\ frames' \in Seq(FrameType)
      /\ DOMAIN frames' = DOMAIN frames \ {Len(frames)}
      /\ \A i \in DOMAIN frames' : frames'[i] = frames[i]
  BY <1>1, <1>2
<1>4. Framed(frames) = Framed(frames') \cup {t}
  BY <1>2, <1>3 DEF Framed
<1>. HIDE DEF t
<1>5. t \in DOMAIN templates
  BY <1>4 DEF Lifetime
<1>6. held \cup Framed(frames') = IF t \in held \cup Framed(frames') THEN DOMAIN templates
                                  ELSE DOMAIN templates \ {t}
  BY <1>4 DEF Lifetime
<1>7. /\ DOMAIN templates' = held \cup Framed(frames')
      /\ refcount' = If1(engineHeld') + Cardinality(DOMAIN templates')
      /\ life' # "crashed" /\ life' \in {"none", "live", "destroyed", "crashed"}
      /\ refcount' > 0 <=> life' = "live"
  BY <1>1, <1>5, <1>6, Freed
<1>8. DOMAIN templates' \subseteq DOMAIN templates
  BY <1>4, <1>7 DEF Lifetime
<1>. QED  BY <1>1, <1>3, <1>7, <1>8 DEF Lifetime

-----------------------------------------------------------------------------
(***************************************************************************)
(* Code.                                                                   *)
(***************************************************************************)
\* A step that creates no function and no template, and deletes functions only
\* with the engine.
LEMMA CodeKept ==
    ASSUME Code,
           UNCHANGED <<files, functions, m_function, m_functions>>,
           \A t \in DOMAIN templates' : t \in DOMAIN templates /\ templates'[t] = templates[t],
           deletions' \in [Id -> Nat],
           life' \in {"none", "live"} => life \in {"none", "live"} /\ deletions' = deletions
    PROVE  Code'
<1>1. \A i : Flaw[functions'[i].content] = Flaw[functions[i].content]
  OBVIOUS
<1>2. CacheIsVerified'
  BY <1>1 DEF Code, FlawOf, CacheIsVerified
<1>3. \A t \in DOMAIN templates' :
         /\ templates'[t] \in [func : DOMAIN functions', content : Content, edited : BOOLEAN]
         /\ Flaw[functions'[templates'[t].func].content] = "none"
  BY <1>1 DEF Code, FlawOf
<1>4. \A i \in Id : life' \in {"none", "live"} /\ deletions'[i] > 0 =>
         i \in DOMAIN functions' /\ Flaw[functions'[i].content] = "visit"
  BY <1>1 DEF Code, FlawOf
<1>5. m_function' # None => Flaw[functions'[m_function'].content] = "visit"
  BY <1>1 DEF Code, FlawOf
<1>. QED  BY <1>2, <1>3, <1>4, <1>5 DEF Code, FlawOf

\* A new function leaves what is known of the others as it is.
LEMMA CreateFunctionKeeps ==
    ASSUME Code, EngineAssumption, NEW n \in Name, CreateFunction(n)
    PROVE  /\ functions' \in Seq(FunctionType)
           /\ Len(functions') = Len(functions) + 1
           /\ Len(functions') <= MaxFunctions
           /\ DOMAIN functions' = DOMAIN functions \cup {Len(functions) + 1}
           /\ Len(functions) + 1 \notin DOMAIN functions
           /\ \A i \in DOMAIN functions : functions'[i] = functions[i]
           /\ functions'[Len(functions) + 1] = Compiled(n)
           /\ deletions' \in [Id -> Nat]
           /\ \A i \in Id : deletions'[i] > 0 => deletions[i] > 0 \/ i = m_function
<1>1. Compiled(n) \in FunctionType
  BY DEF Code, FlawOf, Compiled, FunctionType
<1>2. functions \in Seq(FunctionType) /\ functions' = Append(functions, Compiled(n))
  BY DEF Code, FlawOf, CreateFunction
<1>3. Len(functions) < MaxFunctions /\ Len(functions) \in Nat /\ MaxFunctions \in Nat
  BY DEF CreateFunction, Code, FlawOf, EngineAssumption
<1>4. /\ functions' \in Seq(FunctionType)
      /\ Len(functions') = Len(functions) + 1
      /\ DOMAIN functions' = DOMAIN functions \cup {Len(functions) + 1}
      /\ Len(functions) + 1 \notin DOMAIN functions
      /\ \A i \in DOMAIN functions : functions'[i] = functions[i]
      /\ functions'[Len(functions) + 1] = Compiled(n)
  BY <1>1, <1>2
<1>5. /\ deletions' = [i \in Id |-> deletions[i] + If1(i = m_function)]
      /\ deletions \in [Id -> Nat]
  BY DEF CreateFunction, Code, FlawOf
<1>6. \A i \in Id : /\ deletions'[i] \in Nat
                    /\ deletions'[i] > 0 => deletions[i] > 0 \/ i = m_function
  BY <1>5 DEF If1
<1>7. deletions' \in [Id -> Nat]
  BY <1>5, <1>6
<1>. QED  BY <1>3, <1>4, <1>6, <1>7

\* A function is compiled: the visitor keeps it only if the visit threw, and it is
\* cached and given to a template only if it is sound.
LEMMA CompiledCode ==
    ASSUME Code, EngineAssumption, NEW n \in Name, CreateFunction(n), files' = files,
           life = "live", life' = life,
           m_function' \in {None, Len(functions) + 1},
           m_function' # None => Flaw[files[n]] = "visit",
           \/ m_functions' = m_functions
           \/ /\ m_functions' = [m_functions EXCEPT ![n] = Len(functions) + 1]
              /\ Flaw[files[n]] = "none",
           \A t \in DOMAIN templates' :
              \/ t \in DOMAIN templates /\ templates'[t] = templates[t]
              \/ /\ templates'[t] \in [func : {Len(functions) + 1}, content : Content,
                                       edited : BOOLEAN]
                 /\ Flaw[files[n]] = "none"
    PROVE  Code'
<1>. DEFINE new == Len(functions) + 1
<1>1. /\ functions' \in Seq(FunctionType)
      /\ Len(functions') <= MaxFunctions
      /\ DOMAIN functions' = DOMAIN functions \cup {new}
      /\ new \notin DOMAIN functions
      /\ \A i \in DOMAIN functions : functions'[i] = functions[i]
      /\ functions'[new] = Compiled(n)
      /\ deletions' \in [Id -> Nat]
      /\ \A i \in Id : deletions'[i] > 0 => deletions[i] > 0 \/ i = m_function
  BY CreateFunctionKeeps
<1>2. \A i \in DOMAIN functions : Flaw[functions'[i].content] = Flaw[functions[i].content]
  BY <1>1
<1>3. Flaw[functions'[new].content] = Flaw[files[n]] /\ functions'[new].name = n
  BY <1>1 DEF Compiled
<1>. HIDE DEF new
<1>4. new # None
  BY DEF new, Code, FlawOf, EngineAssumption
<1>5. m_function' \in DOMAIN functions' \cup {None} /\ (m_function' # None => Flaw[functions'[m_function'].content] = "visit")
  BY <1>1, <1>3 DEF new
<1>6. m_functions' \in [Name -> DOMAIN functions' \cup {None}] /\ CacheIsVerified'
  <2>1. CASE m_functions' = m_functions
    BY <1>1, <1>2, <2>1 DEF Code, FlawOf, CacheIsVerified
  <2>2. CASE m_functions' = [m_functions EXCEPT ![n] = new] /\ Flaw[files[n]] = "none"
    BY <1>1, <1>2, <1>3, <2>2 DEF Code, FlawOf, CacheIsVerified
  <2>. QED  BY <2>1, <2>2 DEF new
<1>7. ASSUME NEW t \in DOMAIN templates'
      PROVE  /\ templates'[t] \in [func : DOMAIN functions', content : Content, edited : BOOLEAN]
             /\ Flaw[functions'[templates'[t].func].content] = "none"
  <2>1. CASE t \in DOMAIN templates /\ templates'[t] = templates[t]
    BY <1>1, <1>2, <2>1 DEF Code, FlawOf
  <2>2. CASE /\ templates'[t] \in [func : {new}, content : Content, edited : BOOLEAN]
             /\ Flaw[files[n]] = "none"
    BY <1>1, <1>3, <2>2
  <2>. QED  BY <2>1, <2>2 DEF new
<1>8. ASSUME NEW i \in Id, deletions'[i] > 0
      PROVE  i \in DOMAIN functions' /\ Flaw[functions'[i].content] = "visit"
  <2>1. i \in DOMAIN functions /\ Flaw[functions[i].content] = "visit"
    <3>1. CASE deletions[i] > 0
      BY <3>1 DEF Code, FlawOf
    <3>2. CASE i = m_function
      <4>1. i # None
        BY DEF Id, EngineAssumption
      <4>. QED  BY <3>2, <4>1 DEF Code, FlawOf
    <3>. QED  BY <1>1, <1>8, <3>1, <3>2
  <2>. QED  BY <1>1, <1>2, <2>1
<1>. QED  BY <1>1, <1>5, <1>6, <1>7, <1>8 DEF Code, FlawOf

\* A change of a file changes no function.
LEMMA ChangeFileCode ==
    ASSUME Code, EngineAssumption, NEW n \in Name, NEW c \in Content, ChangeFile(n, c)
    PROVE  Code'
<1>1. /\ files' = [files EXCEPT ![n] = c]
      /\ functions' = [i \in DOMAIN functions |->
                         [functions[i] EXCEPT !.edited = @ \/ functions[i].name = n]]
      /\ UNCHANGED <<deletions, m_function, m_functions, life, templates>>
  BY DEF ChangeFile, objects
<1>2. functions \in Seq(FunctionType) /\ DOMAIN functions' = DOMAIN functions
  BY <1>1 DEF Code, FlawOf
<1>3. ASSUME NEW i \in DOMAIN functions
      PROVE  /\ functions'[i] \in FunctionType
             /\ functions'[i].content = functions[i].content
             /\ functions'[i].name = functions[i].name
  <2>1. functions[i] \in FunctionType
    BY <1>2
  <2>2. functions'[i] = [functions[i] EXCEPT !.edited = functions[i].edited \/ functions[i].name = n]
    BY <1>1
  <2>3. (functions[i].edited \/ functions[i].name = n) \in BOOLEAN
    OBVIOUS
  <2>. QED  BY <2>1, <2>2, <2>3 DEF FunctionType
<1>4. functions' \in Seq(FunctionType) /\ Len(functions') = Len(functions)
  <2>1. DOMAIN functions' = 1 .. Len(functions) /\ Len(functions) \in Nat
    BY <1>2
  <2>2. functions' \in [1 .. Len(functions) -> FunctionType]
    BY <1>1, <1>2, <1>3, <2>1
  <2>. QED  BY <2>1, <2>2, SeqDef
<1>5. \A i \in DOMAIN functions : Flaw[functions'[i].content] = Flaw[functions[i].content]
  BY <1>3
<1>6. files' \in [Name -> Content]
  BY <1>1 DEF Code, FlawOf
<1>7. CacheIsVerified'
  BY <1>1, <1>2, <1>3, <1>5 DEF Code, FlawOf, CacheIsVerified
<1>8. m_function' # None => Flaw[functions'[m_function'].content] = "visit"
  BY <1>1, <1>5 DEF Code, FlawOf
<1>9. \A t \in DOMAIN templates' :
        /\ templates'[t] \in [func : DOMAIN functions', content : Content, edited : BOOLEAN]
        /\ Flaw[functions'[templates'[t].func].content] = "none"
  BY <1>1, <1>2, <1>5 DEF Code, FlawOf
<1>10. life' \in {"none", "live"} =>
         \A i \in Id : deletions'[i] > 0 => i \in DOMAIN functions' /\ Flaw[functions'[i].content] = "visit"
  BY <1>1, <1>2, <1>5 DEF Code, FlawOf
<1>. QED  BY <1>1, <1>2, <1>4, <1>6, <1>7, <1>8, <1>9, <1>10 DEF Code, FlawOf

\* A template from the cache has a verified function.
LEMMA CacheHitCode ==
    ASSUME Code, EngineAssumption, NEW n \in Name, NEW t \in Template, CacheHit(n, t)
    PROVE  Code'
<1>. DEFINE i == m_functions[n]
<1>1. /\ i # None /\ NewTemplate(t, n, i, functions[i].edited)
      /\ UNCHANGED <<functions, deletions, m_function, m_functions, files, life>>
  BY DEF CacheHit, Key, module, NewTemplate
<1>2. i \in DOMAIN functions /\ Flaw[functions[i].content] = "none"
  BY <1>1 DEF Code, FlawOf, CacheIsVerified
<1>3. functions[i] \in FunctionType
  BY <1>2 DEF Code, FlawOf
<1>4. \A j : Flaw[functions'[j].content] = Flaw[functions[j].content]
  BY <1>1
<1>. HIDE DEF i
<1>5. ASSUME NEW u \in DOMAIN templates'
      PROVE  /\ templates'[u] \in [func : DOMAIN functions', content : Content, edited : BOOLEAN]
             /\ Flaw[functions'[templates'[u].func].content] = "none"
  <2>1. CASE u = t
    <3>1. templates'[u] = [func |-> i, content |-> files[n], edited |-> functions[i].edited]
      BY <1>1, <2>1 DEF NewTemplate
    <3>. QED  BY <1>1, <1>2, <1>3, <1>4, <3>1 DEF Code, FlawOf, FunctionType
  <2>2. CASE u # t
    BY <1>1, <1>4, <2>2 DEF NewTemplate, Code, FlawOf
  <2>. QED  BY <2>1, <2>2
<1>6. CacheIsVerified'
  BY <1>1, <1>4 DEF Code, FlawOf, CacheIsVerified
<1>7. m_function' # None => Flaw[functions'[m_function'].content] = "visit"
  BY <1>1, <1>4 DEF Code, FlawOf
<1>8. life' \in {"none", "live"} =>
         \A j \in Id : deletions'[j] > 0 => j \in DOMAIN functions' /\ Flaw[functions'[j].content] = "visit"
  BY <1>1, <1>4 DEF Code, FlawOf
<1>. QED  BY <1>1, <1>5, <1>6, <1>7, <1>8 DEF Code, FlawOf

-----------------------------------------------------------------------------
(***************************************************************************)
(* Callbacks.                                                              *)
(***************************************************************************)
\* The entries of a value are counted by a natural number, which one more entry
\* increases by one.
LEMMA CountingEntries ==
    ASSUME EngineAssumption, NEW S \in SUBSET FunctionName
    PROVE  /\ Cardinality(S) \in Nat
           /\ Cardinality({}) = 0
           /\ \A f : f \notin S => Cardinality(S \cup {f}) = Cardinality(S) + 1
<1>1. IsFiniteSet(S)
  BY FS_Subset DEF EngineAssumption
<1>. QED  BY <1>1, FS_CardinalityType, FS_EmptySet, FS_AddElement

\* A step that leaves the table alone.
LEMMA CallbacksKept ==
    ASSUME Callbacks, UNCHANGED table
    PROVE  Callbacks'
<1>1. \A v : RegisteredAs(v)' = RegisteredAs(v)
  BY DEF RegisteredAs, table
<1>. QED  BY <1>1 DEF Callbacks, CallbacksCounted, table

\* An engine that is destroyed releases what is registered with it.
LEMMA ReleaseEngineCallbacks ==
    ASSUME Callbacks, EngineAssumption, ReleaseEngine, valuesHeld' = valuesHeld
    PROVE  Callbacks'
<1>1. CASE refcount # 1
  <2>1. UNCHANGED table
    BY <1>1 DEF ReleaseEngine, table
  <2>. QED  BY <2>1, CallbacksKept
<1>2. CASE refcount = 1
  <2>1. /\ valueRefs' = [v \in Value |-> valueRefs[v] - Cardinality(RegisteredAs(v))]
        /\ registered' = [f \in FunctionName |-> None]
    BY <1>2 DEF ReleaseEngine, DestroyEngine
  <2>2. ASSUME NEW v \in Value
        PROVE  /\ valueRefs'[v] \in Int
               /\ valueRefs'[v] = If1(v \in valuesHeld') + Cardinality(RegisteredAs(v)')
    <3>1. RegisteredAs(v) \in SUBSET FunctionName
      BY DEF RegisteredAs
    <3>2. Cardinality(RegisteredAs(v)) \in Nat /\ Cardinality({}) = 0
      BY <3>1, CountingEntries
    <3>3. RegisteredAs(v)' = {}
      BY <2>1 DEF RegisteredAs, EngineAssumption
    <3>4. valueRefs[v] = If1(v \in valuesHeld) + Cardinality(RegisteredAs(v))
      BY DEF Callbacks, CallbacksCounted
    <3>5. valueRefs'[v] = If1(v \in valuesHeld)
      BY <2>1, <3>2, <3>4 DEF If1
    <3>. QED  BY <3>2, <3>3, <3>5 DEF If1
  <2>3. valueRefs' \in [Value -> Int] /\ registered' \in [FunctionName -> Value \cup {None}]
    BY <2>1, <2>2
  <2>. QED  BY <2>2, <2>3 DEF Callbacks, CallbacksCounted
<1>. QED  BY <1>1, <1>2

\* So does a template whose end is the end of the engine.
LEMMA FreeUnusedCallbacks ==
    ASSUME Callbacks, EngineAssumption, NEW t, NEW h, NEW fr, FreeUnused(t, h, fr),
           valuesHeld' = valuesHeld
    PROVE  Callbacks'
<1>1. ReleaseEngine \/ UNCHANGED table
  BY DEF FreeUnused, table
<1>. QED  BY <1>1, ReleaseEngineCallbacks, CallbacksKept

\* A new entry counts one reference, a refused one none.
LEMMA AddFunctionCallbacks ==
    ASSUME Callbacks, EngineAssumption, NEW f \in FunctionName, NEW v \in Value,
           AddFunction(f, v)
    PROVE  Callbacks'
<1>1. CASE v \in Callable /\ registered[f] = None
  <2>1. /\ registered' = [registered EXCEPT ![f] = v]
        /\ valueRefs' = [valueRefs EXCEPT ![v] = @ + 1]
        /\ valuesHeld' = valuesHeld
    BY <1>1 DEF AddFunction
  <2>2. v # None
    BY DEF EngineAssumption
  <2>3. ASSUME NEW w \in Value
        PROVE  /\ valueRefs'[w] \in Int
               /\ valueRefs'[w] = If1(w \in valuesHeld') + Cardinality(RegisteredAs(w)')
    <3>1. RegisteredAs(w) \in SUBSET FunctionName
      BY DEF RegisteredAs
    <3>2. Cardinality(RegisteredAs(w)) \in Nat
      BY <3>1, CountingEntries
    <3>3. /\ valueRefs[w] = If1(w \in valuesHeld) + Cardinality(RegisteredAs(w))
          /\ valueRefs[w] \in Int
      BY DEF Callbacks, CallbacksCounted
    <3>4. CASE w = v
      <4>1. RegisteredAs(w)' = RegisteredAs(w) \cup {f} /\ f \notin RegisteredAs(w)
        BY <1>1, <2>1, <2>2, <3>4 DEF RegisteredAs, Callbacks
      <4>2. Cardinality(RegisteredAs(w)') = Cardinality(RegisteredAs(w)) + 1
        BY <3>1, <4>1, CountingEntries
      <4>3. valueRefs'[w] = valueRefs[w] + 1
        BY <2>1, <3>4 DEF Callbacks
      <4>. QED  BY <2>1, <3>2, <3>3, <4>2, <4>3 DEF If1
    <3>5. CASE w # v
      <4>1. RegisteredAs(w)' = RegisteredAs(w)
        BY <1>1, <2>1, <3>5, EngineAssumption DEF RegisteredAs, Callbacks, EngineAssumption
      <4>2. valueRefs'[w] = valueRefs[w]
        BY <2>1, <3>5 DEF Callbacks
      <4>. QED  BY <2>1, <3>3, <4>1, <4>2
    <3>. QED  BY <3>4, <3>5
  <2>4. /\ valueRefs' \in [Value -> Int]
        /\ registered' \in [FunctionName -> Value \cup {None}]
    BY <2>1, <2>3 DEF Callbacks
  <2>. QED  BY <2>1, <2>3, <2>4 DEF Callbacks, CallbacksCounted
<1>2. CASE ~ (v \in Callable /\ registered[f] = None)
  <2>1. UNCHANGED table
    BY <1>2 DEF AddFunction, Refused, table
  <2>. QED  BY <2>1, CallbacksKept
<1>. QED  BY <1>1, <1>2

\* The script drops a value that may be registered.
LEMMA DropValueCallbacks ==
    ASSUME Callbacks, EngineAssumption, NEW v \in Value, DropValue(v)
    PROVE  Callbacks'
<1>1. /\ v \in valuesHeld /\ valuesHeld' = valuesHeld \ {v}
      /\ valueRefs' = [valueRefs EXCEPT ![v] = @ - 1]
      /\ registered' = registered
  BY DEF DropValue
<1>2. ASSUME NEW w \in Value
      PROVE  /\ valueRefs'[w] \in Int
             /\ valueRefs'[w] = If1(w \in valuesHeld') + Cardinality(RegisteredAs(w)')
  <2>1. RegisteredAs(w) \in SUBSET FunctionName /\ RegisteredAs(w)' = RegisteredAs(w)
    BY <1>1 DEF RegisteredAs
  <2>2. Cardinality(RegisteredAs(w)) \in Nat
    BY <2>1, CountingEntries
  <2>3. /\ valueRefs[w] = If1(w \in valuesHeld) + Cardinality(RegisteredAs(w))
        /\ valueRefs[w] \in Int
    BY DEF Callbacks, CallbacksCounted
  <2>4. CASE w = v
    BY <1>1, <2>1, <2>2, <2>3, <2>4 DEF If1, Callbacks
  <2>5. CASE w # v
    BY <1>1, <2>1, <2>3, <2>5 DEF If1, Callbacks
  <2>. QED  BY <2>4, <2>5
<1>3. valueRefs' \in [Value -> Int] /\ valuesHeld' \subseteq Value
  BY <1>1, <1>2 DEF Callbacks
<1>. QED  BY <1>1, <1>2, <1>3 DEF Callbacks, CallbacksCounted

-----------------------------------------------------------------------------
(***************************************************************************)
(* The invariant, and what follows from it.                                *)
(***************************************************************************)
IInv == Lifetime /\ Code /\ Callbacks

\* The invariant holds before there is an engine.
LEMMA InitIInv ==
    ASSUME EngineAssumption, Init
    PROVE  IInv
<1>1. Cardinality({}) = 0
  BY FS_EmptySet
<1>2. DOMAIN templates = {} /\ Framed(frames) = {} /\ If1(engineHeld) = 0
  BY DEF Init, Framed, If1
<1>3. Lifetime
  <2>1. refcount = If1(engineHeld) + Cardinality(DOMAIN templates)
    BY <1>1, <1>2 DEF Init
  <2>2. frames \in Seq(FrameType)
    BY DEF Init
  <2>3. ~ (refcount > 0) /\ life = "none" /\ engineHeld = FALSE /\ held = {}
    BY DEF Init
  <2>. QED  BY <1>2, <2>1, <2>2, <2>3 DEF Lifetime
<1>4. Code
  BY <1>2 DEF Init, Code, CacheIsVerified, EngineAssumption, Id
<1>5. Callbacks
  <2>1. ASSUME NEW v \in Value PROVE RegisteredAs(v) = {}
    BY DEF RegisteredAs, Init, EngineAssumption
  <2>2. ASSUME NEW v \in Value
        PROVE  valueRefs[v] = If1(v \in valuesHeld) + Cardinality(RegisteredAs(v))
    <3>1. valueRefs[v] = 1 /\ If1(v \in valuesHeld) = 1
      BY DEF Init, If1
    <3>2. Cardinality(RegisteredAs(v)) = 0
      BY <1>1, <2>1
    <3>. QED  BY <3>1, <3>2
  <2>. QED  BY <2>2 DEF Init, Callbacks, CallbacksCounted
<1>. QED  BY <1>3, <1>4, <1>5 DEF IInv

\* A step that changes neither lifetimes, nor the module, nor the table.
LEMMA NothingChanges ==
    ASSUME IInv, UNCHANGED <<files, module, objects, table>>
    PROVE  IInv'
<1>1. Lifetime'
  BY DEF IInv, Lifetime, objects
<1>2. Code'
  BY CodeKept DEF IInv, Code, module, objects
<1>3. Callbacks'
  BY CallbacksKept DEF IInv
<1>. QED  BY <1>1, <1>2, <1>3 DEF IInv

\* Deletions of a step that may destroy the engine.
LEMMA ReleaseEngineDeletes ==
    ASSUME Code, EngineAssumption, ReleaseEngine
    PROVE  /\ deletions' \in [Id -> Nat]
           /\ life' \in {"none", "live"} =>
                life \in {"none", "live"} /\ deletions' = deletions
<1>1. CASE refcount = 1
  <2>1. deletions' = [i \in Id |-> deletions[i] + If1(i \in DOMAIN functions)
                                               + If1(i = m_function)]
    BY <1>1 DEF ReleaseEngine, DestroyEngine
  <2>2. \A i \in Id : deletions'[i] \in Nat
    BY <2>1 DEF Code, If1
  <2>. QED  BY <1>1, <2>1, <2>2 DEF ReleaseEngine, DestroyEngine
<1>2. CASE refcount # 1
  BY <1>2 DEF ReleaseEngine, Code
<1>. QED  BY <1>1, <1>2

\* The same for the end of a template.
LEMMA FreeUnusedCode ==
    ASSUME Code, EngineAssumption, NEW t, NEW h, NEW fr, FreeUnused(t, h, fr),
           UNCHANGED <<files, functions, m_function, m_functions>>
    PROVE  Code'
<1>1. \A u \in DOMAIN templates' : u \in DOMAIN templates /\ templates'[u] = templates[u]
  BY DEF FreeUnused
<1>2. /\ deletions' \in [Id -> Nat]
      /\ life' \in {"none", "live"} =>
           life \in {"none", "live"} /\ deletions' = deletions
  <2>1. CASE ReleaseEngine
    BY <2>1, ReleaseEngineDeletes
  <2>2. CASE UNCHANGED <<life, deletions>>
    BY <2>2 DEF Code
  <2>. QED  BY <2>1, <2>2 DEF FreeUnused
<1>. QED  BY <1>1, <1>2, CodeKept

\* Every step preserves the invariant.
LEMMA NextIInv ==
    ASSUME EngineAssumption, IInv, [Next]_vars
    PROVE  IInv'
<1>. USE DEF IInv
<1>1. CASE NewEngine
  <2>1. Lifetime'
    BY <1>1, NewEngineLifetime
  <2>2. Code'
    BY <1>1, CodeKept DEF NewEngine, module, Code
  <2>3. Callbacks'
    BY <1>1, CallbacksKept DEF NewEngine
  <2>. QED  BY <2>1, <2>2, <2>3
<1>2. CASE DropEngine
  <2>1. Lifetime'
    BY <1>2, DropEngineLifetime
  <2>2. Code'
    <3>1. ReleaseEngine /\ UNCHANGED <<files, functions, m_function, m_functions, templates>>
      BY <1>2 DEF DropEngine
    <3>. QED  BY <3>1, ReleaseEngineDeletes, CodeKept
  <2>3. Callbacks'
    BY <1>2, ReleaseEngineCallbacks DEF DropEngine
  <2>. QED  BY <2>1, <2>2, <2>3
<1>3. CASE ReturnFromFunction
  <2>1. Lifetime'
    BY <1>3, TurnLifetime DEF ReturnFromFunction
  <2>2. Code'
    BY <1>3, CodeKept DEF ReturnFromFunction, module, Code
  <2>3. Callbacks'
    BY <1>3, CallbacksKept DEF ReturnFromFunction
  <2>. QED  BY <2>1, <2>2, <2>3
<1>4. CASE EndRender
  <2>1. Lifetime'
    BY <1>4, EndRenderLifetime
  <2>2. Code'
    BY <1>4, FreeUnusedCode DEF EndRender
  <2>3. Callbacks'
    BY <1>4, FreeUnusedCallbacks DEF EndRender
  <2>. QED  BY <2>1, <2>2, <2>3
<1>5. ASSUME NEW n \in Name, ParseFails(n)
      PROVE  IInv'
  BY <1>5, NothingChanges DEF ParseFails, Throws
<1>6. ASSUME NEW n \in Name, VisitThrows(n)
      PROVE  IInv'
  <2>1. UNCHANGED <<files, life, refcount, engineHeld, templates, held, frames, table, m_functions>>
    BY <1>6 DEF VisitThrows, Throws, objects
  <2>2. /\ CreateFunction(n) /\ life = "live" /\ Flaw[files[n]] = "visit"
        /\ m_function' = Len(functions) + 1
    BY <1>6 DEF VisitThrows, Missed, Parsed, Callers
  <2>3. Code'
    BY <2>1, <2>2, CompiledCode
  <2>4. Lifetime'
    BY <2>1 DEF Lifetime
  <2>5. Callbacks'
    BY <2>1, CallbacksKept
  <2>. QED  BY <2>3, <2>4, <2>5
<1>7. ASSUME NEW n \in Name, VerifyFails(n)
      PROVE  IInv'
  <2>1. UNCHANGED <<files, life, refcount, engineHeld, templates, held, frames, table, m_functions>>
    BY <1>7 DEF VerifyFails, CachedInvalid, Throws, objects
  <2>2. CreateFunction(n) /\ life = "live" /\ m_function' = None
    BY <1>7 DEF VerifyFails, VisitorAfter, VerifyMayFail, Missed, Parsed, Callers
  <2>3. Code'
    BY <2>1, <2>2, CompiledCode
  <2>4. Lifetime'
    BY <2>1 DEF Lifetime
  <2>5. Callbacks'
    BY <2>1, CallbacksKept
  <2>. QED  BY <2>3, <2>4, <2>5
<1>8. ASSUME NEW n \in Name, Crash(n)
      PROVE  IInv'
  <2>1. /\ life' = "crashed"
        /\ UNCHANGED <<files, module, refcount, engineHeld, templates, held, frames, table>>
    BY <1>8 DEF Crash
  <2>2. Lifetime'
    BY <2>1 DEF Lifetime
  <2>3. Code'
    BY <2>1, CodeKept DEF module, Code
  <2>. QED  BY <2>1, <2>2, <2>3, CallbacksKept
<1>9. ASSUME NEW n \in Name, NEW t \in Template, CacheHit(n, t)
      PROVE  IInv'
  <2>1. Callers /\ NewTemplate(t, n, m_functions[Key(n)], functions[m_functions[Key(n)]].edited)
    BY <1>9 DEF CacheHit, Parsed
  <2>2. Lifetime'
    BY <2>1, NewTemplateLifetime
  <2>3. Callbacks'
    BY <2>1, CallbacksKept DEF NewTemplate
  <2>. QED  BY <1>9, <2>2, <2>3, CacheHitCode
<1>10. ASSUME NEW n \in Name, NEW t \in Template, Compile(n, t)
       PROVE  IInv'
  <2>1. /\ Callers /\ CreateFunction(n) /\ Flaw[files[n]] = "none" /\ m_function' = None
        /\ m_functions' = [m_functions EXCEPT ![n] = Len(functions) + 1]
        /\ NewTemplate(t, n, Len(functions) + 1, FALSE)
    BY <1>10 DEF Compile, VerifyMayPass, Missed, Parsed, VisitorAfter, Key
  <2>2. Lifetime'
    BY <2>1, NewTemplateLifetime
  <2>3. Callbacks'
    BY <2>1, CallbacksKept DEF NewTemplate
  <2>4. files' = files /\ life = "live" /\ life' = life
    BY <2>1 DEF NewTemplate, Callers
  <2>5. ASSUME NEW u \in DOMAIN templates'
        PROVE  \/ u \in DOMAIN templates /\ templates'[u] = templates[u]
               \/ templates'[u] \in [func : {Len(functions) + 1}, content : Content,
                                     edited : BOOLEAN]
    BY <2>1 DEF NewTemplate, Code
  <2>6. Code'
    BY <2>1, <2>4, <2>5, CompiledCode
  <2>. QED  BY <2>2, <2>3, <2>6
<1>11. ASSUME NEW n \in Name, NEW c \in Content, ChangeFile(n, c)
       PROVE  IInv'
  <2>1. UNCHANGED objects /\ UNCHANGED table
    BY <1>11 DEF ChangeFile
  <2>2. Lifetime'
    BY <2>1 DEF Lifetime, objects
  <2>. QED  BY <1>11, <2>1, <2>2, ChangeFileCode, CallbacksKept
<1>12. ASSUME NEW t \in Template, DropTemplate(t)
       PROVE  IInv'
  <2>1. Lifetime'
    BY <1>12, DropTemplateLifetime
  <2>2. Code'
    BY <1>12, FreeUnusedCode DEF DropTemplate
  <2>3. Callbacks'
    BY <1>12, FreeUnusedCallbacks DEF DropTemplate
  <2>. QED  BY <2>1, <2>2, <2>3
<1>13. ASSUME NEW t \in Template, BeginRender(t)
       PROVE  IInv'
  <2>1. Lifetime'
    BY <1>13, BeginRenderLifetime
  <2>2. Code'
    BY <1>13, CodeKept DEF BeginRender, module, Code
  <2>3. Callbacks'
    BY <1>13, CallbacksKept DEF BeginRender
  <2>. QED  BY <2>1, <2>2, <2>3
<1>14. ASSUME NEW f \in FunctionName, NEW v \in Value, AddFunction(f, v)
       PROVE  IInv'
  <2>1. UNCHANGED <<files, module, objects>>
    BY <1>14 DEF AddFunction
  <2>2. Lifetime'
    BY <2>1 DEF Lifetime, objects
  <2>3. Code'
    BY <2>1, CodeKept DEF module, objects, Code
  <2>. QED  BY <1>14, <2>2, <2>3, AddFunctionCallbacks
<1>15. ASSUME NEW f \in FunctionName, CallFunction(f)
       PROVE  IInv'
  <2>1. Lifetime'
    BY <1>15, TurnLifetime DEF CallFunction, InCode
  <2>2. Code'
    BY <1>15, CodeKept DEF CallFunction, module, Code
  <2>3. Callbacks'
    BY <1>15, CallbacksKept DEF CallFunction
  <2>. QED  BY <2>1, <2>2, <2>3
<1>16. ASSUME NEW v \in Value, DropValue(v)
       PROVE  IInv'
  <2>1. UNCHANGED <<files, module, objects>>
    BY <1>16 DEF DropValue
  <2>2. Lifetime'
    BY <2>1 DEF Lifetime, objects
  <2>3. Code'
    BY <2>1, CodeKept DEF module, objects, Code
  <2>. QED  BY <1>16, <2>2, <2>3, DropValueCallbacks
<1>17. CASE UNCHANGED vars
  BY <1>17, NothingChanges DEF vars
<1>. QED
  BY <1>1, <1>2, <1>3, <1>4, <1>5, <1>6, <1>7, <1>8, <1>9, <1>10, <1>11, <1>12, <1>13,
     <1>14, <1>15, <1>16, <1>17 DEF Next

\* The invariant holds in every behaviour of an engine.
LEMMA Invariance == Spec => []IInv
<1>1. Init => IInv
  BY EngineAssumption, InitIInv
<1>2. IInv /\ [Next]_vars => IInv'
  BY EngineAssumption, NextIInv
<1>. QED  BY <1>1, <1>2, PTL DEF Spec

\* Native code is never freed under a template or a rendering, in whatever order
\* engines, templates and callbacks are used and dropped.
THEOREM CodeOutlivesTemplates == Spec => []CodeAlive
<1>1. IInv => CodeAlive
  <2>. SUFFICES ASSUME IInv, life # "crashed"
                PROVE  /\ held \subseteq DOMAIN templates
                       /\ \A i \in DOMAIN frames : frames[i].template \in DOMAIN templates
                       /\ \A t \in DOMAIN templates :
                             life = "live" /\ deletions[templates[t].func] = 0
    BY DEF CodeAlive
  <2>1. /\ held \subseteq DOMAIN templates
        /\ \A i \in DOMAIN frames : frames[i].template \in DOMAIN templates
    BY DEF IInv, Lifetime, Framed
  <2>2. ASSUME NEW t \in DOMAIN templates
        PROVE  life = "live" /\ deletions[templates[t].func] = 0
    <3>1. life = "live"
      BY EngineAssumption, LiveWithTemplates DEF IInv
    <3>2. /\ templates[t].func \in DOMAIN functions
          /\ Flaw[functions[templates[t].func].content] = "none"
      BY DEF IInv, Code, FlawOf
    <3>3. templates[t].func \in Id
      BY <3>2, EngineAssumption DEF IInv, Code, Id, EngineAssumption
    <3>4. deletions[templates[t].func] \in Nat
      BY <3>3 DEF IInv, Code
    <3>. QED  BY <3>1, <3>2, <3>3, <3>4 DEF IInv, Code, FlawOf
  <2>. QED  BY <2>1, <2>2
<1>. QED  BY <1>1, Invariance, PTL

\* The engine goes with its last user.
THEOREM EngineGoesWithItsLastUser == Spec => []NoEngineLeaks
<1>1. IInv => NoEngineLeaks
  <2>. SUFFICES ASSUME IInv, life = "live", ~ engineHeld, held = {}, frames = <<>>
                PROVE  FALSE
    BY DEF NoEngineLeaks
  <2>1. DOMAIN templates = {}
    BY DEF IInv, Lifetime, Framed
  <2>2. Cardinality(DOMAIN templates) = 0
    BY <2>1, FS_EmptySet
  <2>. QED  BY <2>2 DEF IInv, Lifetime, If1
<1>. QED  BY <1>1, Invariance, PTL

\* Only verified functions are cached, each under the name it was compiled for.
THEOREM OnlyVerifiedAreCached == Spec => []CacheIsVerified
<1>1. IInv => CacheIsVerified
  BY DEF IInv, Code
<1>. QED  BY <1>1, Invariance, PTL

\* Each callback has exactly the references of the script and of the table.
THEOREM CallbacksAreCounted == Spec => []CallbacksCounted
<1>1. IInv => CallbacksCounted
  BY DEF IInv, Callbacks
<1>. QED  BY <1>1, Invariance, PTL

-----------------------------------------------------------------------------
(***************************************************************************)
(* What a template renders.  This rests on the invariant above.            *)
(***************************************************************************)
\* Steps that neither compile nor change a file, and make no template.
Quiet ==
    /\ UNCHANGED <<files, functions>>
    /\ \A t \in DOMAIN templates' : t \in DOMAIN templates /\ templates'[t] = templates[t]

\* Every step is quiet, or compiles, or finds a function in the cache, or
\* changes a file.
LEMMA Steps ==
    ASSUME [Next]_vars
    PROVE  \/ Quiet
           \/ \E n \in Name : CreateFunction(n) /\ UNCHANGED <<files, life, templates>>
                                                /\ life = "live"
           \/ \E n \in Name, t \in Template : CacheHit(n, t) \/ Compile(n, t)
           \/ \E n \in Name, c \in Content : ChangeFile(n, c)
<1>1. ASSUME NEW t, NEW h, NEW fr, FreeUnused(t, h, fr), UNCHANGED <<files, functions>>
      PROVE  Quiet
  BY <1>1 DEF FreeUnused, Quiet
<1>2. CASE NewEngine
  BY <1>2 DEF NewEngine, module, Quiet
<1>3. CASE DropEngine
  BY <1>3 DEF DropEngine, Quiet
<1>4. CASE ReturnFromFunction
  BY <1>4 DEF ReturnFromFunction, module, Quiet
<1>5. CASE EndRender
  BY <1>1, <1>5 DEF EndRender
<1>6. CASE \E n \in Name : ParseFails(n)
  BY <1>6 DEF ParseFails, Throws, module, objects, Quiet
<1>7. CASE \E n \in Name : VisitThrows(n)
  BY <1>7 DEF VisitThrows, Missed, Parsed, Callers, Throws, objects
<1>8. CASE \E n \in Name : VerifyFails(n)
  BY <1>8 DEF VerifyFails, VerifyMayFail, Missed, Parsed, Callers, Throws, objects
<1>9. CASE \E n \in Name : Crash(n)
  BY <1>9 DEF Crash, module, Quiet
<1>10. CASE \E t \in Template : DropTemplate(t)
  BY <1>1, <1>10 DEF DropTemplate
<1>11. CASE \E t \in Template : BeginRender(t)
  BY <1>11 DEF BeginRender, module, Quiet
<1>12. CASE \E f \in FunctionName, v \in Value : AddFunction(f, v)
  BY <1>12 DEF AddFunction, module, objects, Quiet
<1>13. CASE \E f \in FunctionName : CallFunction(f)
  BY <1>13 DEF CallFunction, module, Quiet
<1>14. CASE \E v \in Value : DropValue(v)
  BY <1>14 DEF DropValue, module, objects, Quiet
<1>15. CASE UNCHANGED vars
  BY <1>15 DEF vars, module, objects, Quiet
<1>. QED
  BY <1>2, <1>3, <1>4, <1>5, <1>6, <1>7, <1>8, <1>9, <1>10, <1>11, <1>12, <1>13, <1>14,
     <1>15 DEF Next

\* A function has the content of its file, unless the file was changed since.
Current ==
    \A i \in DOMAIN functions :
        functions[i].content = files[functions[i].name] \/ functions[i].edited

\* CreateFunction() adds a function with the content of its file.
LEMMA CreateFunctionCurrent ==
    ASSUME Code, Current, NEW n \in Name, CreateFunction(n), files' = files
    PROVE  /\ Current'
           /\ Len(functions) \in Nat
           /\ functions'[Len(functions) + 1].content = files[n]
           /\ \A i \in DOMAIN functions : functions'[i] = functions[i]
<1>1. functions \in Seq(FunctionType) /\ functions' = Append(functions, Compiled(n))
  BY DEF Code, CreateFunction
<1>2. /\ Len(functions) \in Nat
      /\ DOMAIN functions' = 1 .. Len(functions) + 1
      /\ DOMAIN functions = 1 .. Len(functions)
      /\ functions'[Len(functions) + 1] = Compiled(n)
      /\ \A i \in DOMAIN functions : functions'[i] = functions[i]
  BY <1>1
<1>3. /\ functions'[Len(functions) + 1].content = files[n]
      /\ functions'[Len(functions) + 1].name = n
  BY <1>2 DEF Compiled
<1>4. ASSUME NEW i \in DOMAIN functions'
      PROVE  functions'[i].content = files'[functions'[i].name] \/ functions'[i].edited
  <2>1. CASE i = Len(functions) + 1
    BY <1>3, <2>1
  <2>2. CASE i # Len(functions) + 1
    BY <1>2, <2>2 DEF Current
  <2>. QED  BY <2>1, <2>2
<1>. QED  BY <1>2, <1>3, <1>4 DEF Current

\* Every step keeps functions current, and templates true to them.
LEMMA NextCurrent ==
    ASSUME EngineAssumption, IInv, Current, RendersTheFileUnlessEdited, [Next]_vars
    PROVE  Current' /\ RendersTheFileUnlessEdited'
<1>. USE DEF IInv
<1>1. CASE Quiet
  <2>1. files' = files /\ functions' = functions
    BY <1>1 DEF Quiet
  <2>2. Current'
    BY <2>1 DEF Current
  <2>. QED  BY <1>1, <2>1, <2>2 DEF Quiet, RendersTheFileUnlessEdited
<1>2. ASSUME NEW t \in DOMAIN templates
      PROVE  templates[t].func \in DOMAIN functions
  BY <1>2 DEF Code
<1>3. ASSUME NEW n \in Name, CreateFunction(n), UNCHANGED <<files, life, templates>>
      PROVE  Current' /\ RendersTheFileUnlessEdited'
  <2>1. /\ Current'
        /\ \A i \in DOMAIN functions : functions'[i] = functions[i]
    BY <1>3, CreateFunctionCurrent
  <2>. QED  BY <1>2, <1>3, <2>1 DEF RendersTheFileUnlessEdited
<1>4. ASSUME NEW n \in Name, NEW t \in Template, Compile(n, t)
      PROVE  Current' /\ RendersTheFileUnlessEdited'
  <2>1. /\ CreateFunction(n) /\ files' = files
        /\ NewTemplate(t, n, Len(functions) + 1, FALSE)
    BY <1>4 DEF Compile, NewTemplate
  <2>2. /\ Current'
        /\ functions'[Len(functions) + 1].content = files[n]
        /\ \A i \in DOMAIN functions : functions'[i] = functions[i]
    BY <2>1, CreateFunctionCurrent
  <2>3. ASSUME NEW u \in DOMAIN templates'
        PROVE  \/ functions'[templates'[u].func].content = templates'[u].content
               \/ templates'[u].edited
    <3>1. CASE u = t
      <4>1. templates'[u] = [func |-> Len(functions) + 1, content |-> files[n],
                             edited |-> FALSE]
        BY <2>1, <3>1 DEF NewTemplate
      <4>. QED  BY <2>2, <4>1
    <3>2. CASE u # t
      <4>1. u \in DOMAIN templates /\ templates'[u] = templates[u]
        BY <2>1, <3>2 DEF NewTemplate
      <4>. QED  BY <1>2, <2>2, <4>1 DEF RendersTheFileUnlessEdited
    <3>. QED  BY <3>1, <3>2
  <2>. QED  BY <2>2, <2>3 DEF RendersTheFileUnlessEdited
<1>5. ASSUME NEW n \in Name, NEW t \in Template, CacheHit(n, t)
      PROVE  Current' /\ RendersTheFileUnlessEdited'
  <2>. DEFINE i == m_functions[n]
  <2>1. /\ i # None /\ NewTemplate(t, n, i, functions[i].edited)
        /\ functions' = functions /\ files' = files
    BY <1>5 DEF CacheHit, Key, module, NewTemplate
  <2>2. i \in DOMAIN functions /\ functions[i].name = n
    BY <2>1 DEF Code, CacheIsVerified
  <2>. HIDE DEF i
  <2>3. functions[i].content = files[n] \/ functions[i].edited
    BY <2>2 DEF Current
  <2>4. ASSUME NEW u \in DOMAIN templates'
        PROVE  \/ functions'[templates'[u].func].content = templates'[u].content
               \/ templates'[u].edited
    <3>1. CASE u = t
      <4>1. templates'[u] = [func |-> i, content |-> files[n],
                             edited |-> functions[i].edited]
        BY <2>1, <3>1 DEF NewTemplate
      <4>. QED  BY <2>1, <2>3, <4>1
    <3>2. CASE u # t
      <4>1. u \in DOMAIN templates /\ templates'[u] = templates[u]
        BY <2>1, <3>2 DEF NewTemplate
      <4>. QED  BY <2>1, <4>1 DEF RendersTheFileUnlessEdited
    <3>. QED  BY <3>1, <3>2
  <2>5. Current'
    BY <2>1 DEF Current
  <2>. QED  BY <2>4, <2>5 DEF RendersTheFileUnlessEdited
<1>6. ASSUME NEW n \in Name, NEW c \in Content, ChangeFile(n, c)
      PROVE  Current' /\ RendersTheFileUnlessEdited'
  <2>1. /\ functions' = [i \in DOMAIN functions |->
                           [functions[i] EXCEPT !.edited = @ \/ functions[i].name = n]]
        /\ files' = [files EXCEPT ![n] = c]
        /\ templates' = templates
    BY <1>6 DEF ChangeFile, objects
  <2>2. ASSUME NEW i \in DOMAIN functions
        PROVE  /\ functions'[i].content = functions[i].content
               /\ functions'[i].name = functions[i].name
               /\ functions'[i].edited = (functions[i].edited \/ functions[i].name = n)
    <3>1. functions[i] \in FunctionType
      BY DEF Code
    <3>. QED  BY <2>1, <3>1 DEF FunctionType
  <2>3. ASSUME NEW i \in DOMAIN functions
        PROVE  functions'[i].content = files'[functions'[i].name] \/ functions'[i].edited
    <3>1. CASE functions[i].name = n
      BY <2>2, <3>1
    <3>2. CASE functions[i].name # n
      <4>1. files'[functions[i].name] = files[functions[i].name]
        BY <2>1, <3>2 DEF Code
      <4>. QED  BY <2>2, <4>1 DEF Current
    <3>. QED  BY <3>1, <3>2
  <2>4. Current'
    BY <2>1, <2>3 DEF Current
  <2>. QED  BY <1>2, <2>1, <2>2, <2>4 DEF RendersTheFileUnlessEdited
<1>. QED  BY <1>1, <1>3, <1>4, <1>5, <1>6, Steps

\* A template renders the file as it was when the template was made, unless the
\* file has been changed since it was compiled: the cache is stale for no other reason.
THEOREM TemplatesRenderTheirFiles == Spec => []RendersTheFileUnlessEdited
<1>1. Init => Current /\ RendersTheFileUnlessEdited
  BY DEF Init, Current, RendersTheFileUnlessEdited
<1>2. IInv /\ Current /\ RendersTheFileUnlessEdited /\ [Next]_vars
        => Current' /\ RendersTheFileUnlessEdited'
  BY EngineAssumption, NextCurrent
<1>. QED  BY <1>1, <1>2, Invariance, PTL DEF Spec

-----------------------------------------------------------------------------
(***************************************************************************)
(* How often a function is deleted.                                        *)
(***************************************************************************)
\* What a step does to the functions and to the number of their deletions: nothing,
\* or it changes a file, compiles, or releases a live engine.
LEMMA DeletingSteps ==
    ASSUME EngineAssumption, IInv, [Next]_vars
    PROVE  \/ UNCHANGED <<functions, deletions>>
           \/ \E n \in Name, c \in Content : ChangeFile(n, c)
           \/ life = "live" /\ \E n \in Name : CreateFunction(n)
           \/ life = "live" /\ ReleaseEngine /\ UNCHANGED functions
<1>1. ASSUME NEW t, NEW h, NEW fr, FreeUnused(t, h, fr), life = "live",
             UNCHANGED functions
      PROVE  \/ UNCHANGED <<functions, deletions>>
             \/ life = "live" /\ ReleaseEngine /\ UNCHANGED functions
  BY <1>1 DEF FreeUnused
<1>2. CASE NewEngine
  BY <1>2 DEF NewEngine, module
<1>3. CASE DropEngine
  BY <1>3 DEF DropEngine, Callers
<1>4. CASE ReturnFromFunction
  BY <1>4 DEF ReturnFromFunction, module
<1>5. CASE EndRender
  <2>1. /\ life # "crashed" /\ frames # <<>> /\ frames \in Seq(FrameType)
        /\ Framed(frames) \subseteq DOMAIN templates
    BY <1>5 DEF EndRender, InCode, IInv, Lifetime
  <2>2. Len(frames) \in DOMAIN frames
    BY <2>1
  <2>3. frames[Len(frames)].template \in Framed(frames)
    BY <2>2 DEF Framed
  <2>4. life = "live"
    BY <2>1, <2>3, LiveWithTemplates DEF IInv
  <2>. QED  BY <1>1, <1>5, <2>4 DEF EndRender
<1>6. CASE \E n \in Name : ParseFails(n)
  BY <1>6 DEF ParseFails, module
<1>7. CASE \E n \in Name : VisitThrows(n)
  BY <1>7 DEF VisitThrows, Missed, Parsed, Callers
<1>8. CASE \E n \in Name : VerifyFails(n)
  BY <1>8 DEF VerifyFails, VerifyMayFail, Missed, Parsed, Callers
<1>9. CASE \E n \in Name : Crash(n)
  BY <1>9 DEF Crash, module
<1>10. CASE \E n \in Name, t \in Template : CacheHit(n, t)
  BY <1>10 DEF CacheHit, module
<1>11. CASE \E n \in Name, t \in Template : Compile(n, t)
  BY <1>11 DEF Compile, VerifyMayPass, Missed, Parsed, Callers
<1>12. ASSUME NEW t \in Template, DropTemplate(t)
       PROVE  \/ UNCHANGED <<functions, deletions>>
              \/ life = "live" /\ ReleaseEngine /\ UNCHANGED functions
  <2>1. life # "crashed" /\ t \in DOMAIN templates
    BY <1>12 DEF DropTemplate, ScriptRuns, IInv, Lifetime
  <2>2. life = "live"
    BY <2>1, LiveWithTemplates DEF IInv
  <2>. QED  BY <1>1, <1>12, <2>2 DEF DropTemplate
<1>13. CASE \E t \in Template : BeginRender(t)
  BY <1>13 DEF BeginRender, module
<1>14. CASE \E f \in FunctionName, v \in Value : AddFunction(f, v)
  BY <1>14 DEF AddFunction, module
<1>15. CASE \E f \in FunctionName : CallFunction(f)
  BY <1>15 DEF CallFunction, module
<1>16. CASE \E v \in Value : DropValue(v)
  BY <1>16 DEF DropValue, module
<1>17. CASE UNCHANGED vars
  BY <1>17 DEF vars, module
<1>. QED
  BY <1>2, <1>3, <1>4, <1>5, <1>6, <1>7, <1>8, <1>9, <1>10, <1>11, <1>12, <1>13, <1>14,
     <1>15, <1>16, <1>17 DEF Next

NoVisitThrew == \A i \in DOMAIN functions : FlawOf(i) # "visit"

\* As long as no visit threw, the visitor owns nothing, and nothing is deleted while
\* the engine is live.
LEMMA NothingDeleted ==
    ASSUME EngineAssumption, IInv, NoVisitThrew, life = "live"
    PROVE  m_function = None /\ \A i \in Id : deletions[i] = 0
BY DEF IInv, Code, NoVisitThrew

\* Every step keeps the number of deletions.
LEMMA NextDeletedOnce ==
    ASSUME EngineAssumption, IInv, DeletedOnceUntilThrow, [Next]_vars
    PROVE  DeletedOnceUntilThrow'
<1>. SUFFICES ASSUME NoVisitThrew'
              PROVE  \A i \in DOMAIN functions' : deletions'[i] <= 1
  BY DEF DeletedOnceUntilThrow, NoVisitThrew
<1>0. /\ functions \in Seq(FunctionType) /\ deletions \in [Id -> Nat]
      /\ DOMAIN functions \subseteq Id /\ Len(functions) \in Nat
      /\ DOMAIN functions = 1 .. Len(functions)
      /\ MaxFunctions \in Nat /\ None \notin Id
  BY DEF IInv, Code, EngineAssumption, Id
<1>1. CASE UNCHANGED <<functions, deletions>>
  BY <1>1 DEF DeletedOnceUntilThrow, NoVisitThrew, FlawOf
<1>2. ASSUME NEW n \in Name, NEW c \in Content, ChangeFile(n, c)
      PROVE  \A i \in DOMAIN functions' : deletions'[i] <= 1
  <2>1. /\ functions' = [i \in DOMAIN functions |->
                           [functions[i] EXCEPT !.edited = @ \/ functions[i].name = n]]
        /\ deletions' = deletions
    BY <1>2 DEF ChangeFile
  <2>2. ASSUME NEW i \in DOMAIN functions
        PROVE  functions'[i].content = functions[i].content
    <3>1. functions[i] \in FunctionType
      BY <1>0
    <3>. QED  BY <2>1, <3>1 DEF FunctionType
  <2>3. DOMAIN functions' = DOMAIN functions
    BY <2>1
  <2>4. NoVisitThrew
    BY <2>2, <2>3 DEF NoVisitThrew, FlawOf
  <2>. QED  BY <2>1, <2>3, <2>4 DEF DeletedOnceUntilThrow, NoVisitThrew
<1>3. ASSUME NEW n \in Name, CreateFunction(n), life = "live"
      PROVE  \A i \in DOMAIN functions' : deletions'[i] <= 1
  <2>1. /\ functions' = Append(functions, Compiled(n)) /\ Len(functions) < MaxFunctions
        /\ deletions' = [i \in Id |-> deletions[i] + If1(i = m_function)]
    BY <1>3 DEF CreateFunction
  <2>2. /\ DOMAIN functions' = 1 .. Len(functions) + 1
        /\ \A i \in DOMAIN functions : functions'[i] = functions[i]
    BY <1>0, <2>1
  <2>3. NoVisitThrew
    BY <1>0, <2>2 DEF NoVisitThrew, FlawOf
  <2>4. \A i \in Id : deletions'[i] = 0
    BY <1>0, <1>3, <2>1, <2>3, NothingDeleted DEF If1
  <2>5. DOMAIN functions' \subseteq Id
    BY <1>0, <2>1, <2>2 DEF Id
  <2>. QED  BY <2>4, <2>5
<1>4. ASSUME life = "live", ReleaseEngine, UNCHANGED functions
      PROVE  \A i \in DOMAIN functions' : deletions'[i] <= 1
  <2>1. NoVisitThrew
    BY <1>4 DEF NoVisitThrew, FlawOf
  <2>2. m_function = None /\ \A i \in Id : deletions[i] = 0
    BY <1>4, <2>1, NothingDeleted
  <2>3. \/ deletions' = deletions
        \/ deletions' = [i \in Id |-> deletions[i] + If1(i \in DOMAIN functions)
                                                    + If1(i = m_function)]
    BY <1>4 DEF ReleaseEngine, DestroyEngine
  <2>. QED  BY <1>0, <1>4, <2>2, <2>3 DEF If1
<1>. QED  BY <1>1, <1>2, <1>3, <1>4, DeletingSteps

\* Until a visit throws, ~LLVMVisitor(), the next visit and the module between them
\* delete each function at most once, however an engine is used and dropped.
THEOREM FunctionsDeletedOnce == Spec => []DeletedOnceUntilThrow
<1>1. Init => DeletedOnceUntilThrow
  BY DEF Init, DeletedOnceUntilThrow
<1>2. IInv /\ DeletedOnceUntilThrow /\ [Next]_vars => DeletedOnceUntilThrow'
  BY EngineAssumption, NextDeletedOnce
<1>. QED  BY <1>1, <1>2, Invariance, PTL DEF Spec
=============================================================================
