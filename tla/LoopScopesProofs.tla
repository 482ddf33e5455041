-------------------------- MODULE LoopScopesProofs --------------------------
(***************************************************************************)
(* Proofs about LoopScopes, for every set of names, every nesting depth    *)
(* and any number of loops and templates.                                  *)
(*                                                                         *)
(* The inductive invariant says, besides the types, that every activation  *)
(* of for_block() can restore the map it found (RestoresWhatItFound), and  *)
(* that the map around the outermost loop is empty until a compilation     *)
(* fails.  That loops advance themselves rests on StateInv, about the      *)
(* iteration states, further below.                                        *)
(***************************************************************************)
EXTENDS LoopScopes, TLAPS

Empty == [x \in Name |-> Null]

\* Activations exist only while a template is compiled.
ActiveWhileCompiling == ~ compiling => Depth = 0

\* The map around the outermost loop.
BaseIsEmpty == ~ failed => Around(0) = Empty

ScopeInv ==
    /\ TypeOK
    /\ RestoresWhatItFound
    /\ ActiveWhileCompiling
    /\ BaseIsEmpty

-----------------------------------------------------------------------------
\* Overwriting keeps the type of the map.
LEMMA OverwriteType ==
    ASSUME NEW Entry, NEW map \in [Name -> Entry],
           NEW k, NEW v, NEW kval \in Entry, NEW vval \in Entry
    PROVE  Overwrite(map, k, kval, v, vval) \in [Name -> Entry]
BY DEF Overwrite

LEMMA InitScopeInv == ASSUME ScopeAssumption, Init PROVE ScopeInv
<1>1. TypeOK
  <2>1. overridden \in [Name -> Value \cup {Null}]
    BY DEF Init
  <2>2. metadata \subseteq Value \X (1 .. loops)
    BY DEF Init
  <2>3. frames \in Seq(Frame)
    BY DEF Init
  <2>4. reference \in (Name \cup {None}) \X (Value \cup {Null})
    BY DEF Init
  <2>. QED  BY <2>1, <2>2, <2>3, <2>4 DEF Init, TypeOK
<1>2. RestoresWhatItFound
  BY DEF Init, RestoresWhatItFound, Depth
<1>3. ActiveWhileCompiling
  BY DEF Init, ActiveWhileCompiling, Depth
<1>4. BaseIsEmpty
  BY DEF Init, BaseIsEmpty, Around, Depth, Empty
<1>. QED  BY <1>1, <1>2, <1>3, <1>4 DEF ScopeInv

\* Steps that leave the map and the activations alone.
LEMMA QuietScopeInv ==
    ASSUME ScopeInv, UNCHANGED <<overridden, frames, failed>>, TypeOK',
           ~ compiling' => Depth = 0
    PROVE  ScopeInv'
BY DEF ScopeInv, RestoresWhatItFound, ActiveWhileCompiling, BaseIsEmpty,
       Around, Depth

LEMMA EnterLoopType ==
    ASSUME ScopeAssumption, ScopeInv,
           NEW k \in Name \cup {None}, NEW v \in Name,
           NEW x \in Name \cup {None}, EnterLoop(k, v, x)
    PROVE  /\ TypeOK'
           /\ frames' = Append(frames, frames'[Depth + 1])
           /\ frames'[Depth + 1] \in Frame
           /\ frames'[Depth + 1].key = k /\ frames'[Depth + 1].value = v
           /\ frames'[Depth + 1].oldKey = Bound(k)
           /\ frames'[Depth + 1].oldValue = overridden[v]
           /\ frames'[Depth + 1].stage = "body"
           /\ frames'[Depth + 1].before = overridden
<1>. DEFINE i == loops + 1
            iterable == IF x # None /\ Bound(x) # Null THEN Bound(x)
                                                        ELSE Lookup(i)
            f == [loop |-> i, iterable |-> iterable, key |-> k, value |-> v,
                  oldKey |-> Bound(k), oldValue |-> overridden[v],
                  stage |-> "body", before |-> overridden]
<1>1. TypeOK
  BY DEF ScopeInv
<1>2. i \in Nat
  BY <1>1 DEF TypeOK
<1>3. KeyOf(i) \in Value /\ ValueOf(i) \in Value /\ Lookup(i) \in Value
  BY <1>2 DEF KeyOf, ValueOf, Lookup, Value
<1>4. Bound(k) \in Value \cup {Null} /\ Bound(x) \in Value \cup {Null}
  BY <1>1 DEF Bound, TypeOK
<1>5. iterable \in Value
  BY <1>3, <1>4
<1>6. f \in Frame
  BY <1>1, <1>2, <1>4, <1>5 DEF TypeOK, Frame
<1>7. frames' = Append(frames, f)
  BY DEF EnterLoop
<1>8. frames'[Depth + 1] = f
  BY <1>1, <1>7 DEF TypeOK, Depth
<1>9. overridden' \in [Name -> Value \cup {Null}]
  BY <1>1, <1>3, OverwriteType DEF EnterLoop, TypeOK
<1>10. metadata' \subseteq Value \X (1 .. loops')
  <2>1. Without(iterable) \subseteq Value \X (1 .. loops)
    BY <1>1 DEF TypeOK, Without
  <2>2. <<iterable, i>> \in Value \X (1 .. i)
    <3>1. i \in 1 .. i
      BY <1>1 DEF TypeOK
    <3>. HIDE DEF iterable, i
    <3>. QED  BY <1>5, <3>1
  <2>3. 1 .. loops \subseteq 1 .. i
    BY <1>1 DEF TypeOK
  <2>4. metadata' = Without(iterable) \cup {<<iterable, i>>} /\ loops' = i
    BY DEF EnterLoop
  <2>. QED  BY <2>1, <2>2, <2>3, <2>4
<1>11. frames' \in Seq(Frame)
  BY <1>1, <1>6, <1>7 DEF TypeOK
<1>12. TypeOK'
  BY <1>1, <1>2, <1>9, <1>10, <1>11 DEF EnterLoop, TypeOK
<1>13. /\ f.key = k /\ f.value = v
       /\ f.oldKey = Bound(k) /\ f.oldValue = overridden[v]
       /\ f.stage = "body" /\ f.before = overridden
  OBVIOUS
<1>. HIDE DEF f
<1>. QED  BY <1>6, <1>7, <1>8, <1>12, <1>13

LEMMA EnterLoopScopeInv ==
    ASSUME ScopeAssumption, ScopeInv,
           NEW k \in Name \cup {None}, NEW v \in Name,
           NEW x \in Name \cup {None}, EnterLoop(k, v, x)
    PROVE  ScopeInv'
<1>. DEFINE f == frames'[Depth + 1]
<1>1. TypeOK /\ TypeOK' /\ Depth \in Nat
  BY EnterLoopType DEF ScopeInv, TypeOK, Depth
<1>2. /\ frames' = Append(frames, f)
      /\ f.key = k /\ f.value = v
      /\ f.oldKey = Bound(k) /\ f.oldValue = overridden[v]
      /\ f.stage = "body" /\ f.before = overridden
      /\ f \in Frame /\ frames \in Seq(Frame)
  BY <1>1, EnterLoopType DEF TypeOK
<1>. HIDE DEF f
<1>3. Depth' = Depth + 1 /\ \A j \in 1 .. Depth : frames'[j] = frames[j]
  BY <1>2 DEF Depth
<1>4. \A j \in 0 .. Depth : Around(j)' = Around(j)
  BY <1>1, <1>2, <1>3, SMTT(60) DEF Around, f
<1>5. RestoresWhatItFound'
  <2>. SUFFICES ASSUME NEW j \in 1 .. Depth + 1
                PROVE  IF frames'[j].stage = "body"
                       THEN Overwrite(Around(j)', frames'[j].key,
                                      frames'[j].oldKey, frames'[j].value,
                                      frames'[j].oldValue) = frames'[j].before
                       ELSE Around(j)' = frames'[j].before
    BY <1>3 DEF RestoresWhatItFound
  <2>1. CASE j \in 1 .. Depth
    BY <1>1, <1>3, <1>4, <2>1 DEF ScopeInv, RestoresWhatItFound
  <2>2. CASE j = Depth + 1
    <3>1. Around(j)' = Overwrite(overridden, k, KeyOf(loops + 1),
                                 v, ValueOf(loops + 1))
      BY <1>3, <2>2 DEF Around, EnterLoop
    <3>2. overridden \in [Name -> Value \cup {Null}]
      BY <1>1 DEF TypeOK
    <3>3. Bound(k) = IF k = None THEN Null ELSE overridden[k]
      BY DEF Bound
    <3>4. Overwrite(Around(j)', k, Bound(k), v, overridden[v]) = overridden
      BY <3>1, <3>2, <3>3 DEF Overwrite, ScopeAssumption
    <3>. QED  BY <1>2, <2>2, <3>4 DEF f
  <2>. QED  BY <1>1, <2>1, <2>2
<1>6. ActiveWhileCompiling'
  BY DEF EnterLoop, ActiveWhileCompiling
<1>7. BaseIsEmpty'
  BY <1>1, <1>4 DEF ScopeInv, BaseIsEmpty, EnterLoop
<1>. QED  BY <1>1, <1>5, <1>6, <1>7 DEF ScopeInv

LEMMA EndBodyScopeInv ==
    ASSUME ScopeAssumption, ScopeInv, EndBody
    PROVE  ScopeInv'
<1>1. /\ TypeOK /\ Depth \in Nat /\ Depth > 0
      /\ frames \in Seq(Frame) /\ Top \in Frame /\ Top.stage = "body"
  BY DEF ScopeInv, TypeOK, Depth, Top, EndBody
<1>2. /\ frames' \in Seq(Frame) /\ Depth' = Depth
      /\ frames'[Depth].stage = "else"
      /\ frames'[Depth].before = Top.before
      /\ \A j \in 1 .. Depth - 1 : frames'[j] = frames[j]
  <2>1. frames' = [frames EXCEPT ![Depth] = [Top EXCEPT !.stage = "else"]]
    BY DEF EndBody, Top
  <2>2. [Top EXCEPT !.stage = "else"] \in Frame
    BY <1>1 DEF Frame
  <2>3. /\ [Top EXCEPT !.stage = "else"].stage = "else"
        /\ [Top EXCEPT !.stage = "else"].before = Top.before
    BY <1>1 DEF Frame
  <2>. QED  BY <1>1, <2>1, <2>2, <2>3 DEF Depth
<1>3. overridden' = Top.before
  BY <1>1, SMTT(60) DEF EndBody, ScopeInv, RestoresWhatItFound, Around, Top
<1>4. overridden' \in [Name -> Value \cup {Null}]
  BY <1>1, <1>3 DEF Frame
<1>5. TypeOK'
  BY <1>1, <1>2, <1>4 DEF TypeOK, EndBody
<1>6. \A j \in 0 .. Depth - 1 : Around(j)' = Around(j)
  BY <1>1, <1>2, SMTT(60) DEF Around, Top
<1>7. RestoresWhatItFound'
  <2>1. \A j \in 1 .. Depth - 1 :
           frames'[j] = frames[j] /\ Around(j)' = Around(j)
    BY <1>1, <1>2, <1>6
  <2>2. Around(Depth)' = overridden'
    BY <1>2 DEF Around
  <2>. QED  BY <1>1, <1>2, <1>3, <2>1, <2>2 DEF ScopeInv, RestoresWhatItFound
<1>8. ActiveWhileCompiling'
  BY DEF EndBody, ActiveWhileCompiling
<1>9. BaseIsEmpty'
  BY <1>1, <1>6 DEF ScopeInv, BaseIsEmpty, EndBody
<1>. QED  BY <1>5, <1>7, <1>8, <1>9 DEF ScopeInv

LEMMA LeaveLoopScopeInv ==
    ASSUME ScopeAssumption, ScopeInv, LeaveLoop
    PROVE  ScopeInv'
<1>1. /\ TypeOK /\ Depth \in Nat /\ Depth > 0
      /\ frames \in Seq(Frame) /\ Top.stage = "else"
  BY DEF ScopeInv, TypeOK, Depth, LeaveLoop
<1>2. /\ frames' \in Seq(Frame) /\ Depth' = Depth - 1
      /\ \A j \in 1 .. Depth - 1 : frames'[j] = frames[j]
  <2>1. frames' = SubSeq(frames, 1, Depth - 1)
    BY DEF LeaveLoop
  <2>2. frames' = [j \in 1 .. Depth - 1 |-> frames[j]]
    BY <1>1, <2>1 DEF Depth
  <2>. QED  BY <1>1, <2>2 DEF Depth
<1>3. overridden' = overridden /\ overridden = Top.before
  BY <1>1 DEF LeaveLoop, ScopeInv, RestoresWhatItFound, Around, Top
<1>4. metadata' \subseteq metadata
  BY DEF LeaveLoop, Without
<1>5. TypeOK'
  BY <1>1, <1>2, <1>3, <1>4 DEF TypeOK, LeaveLoop
<1>6. \A j \in 0 .. Depth - 1 : Around(j)' = Around(j)
  BY <1>1, <1>2, <1>3 DEF Around, Top
<1>7. RestoresWhatItFound'
  <2>1. \A j \in 1 .. Depth - 1 :
           frames'[j] = frames[j] /\ Around(j)' = Around(j)
    BY <1>1, <1>2, <1>6
  <2>. QED  BY <1>1, <1>2, <2>1 DEF ScopeInv, RestoresWhatItFound
<1>8. ActiveWhileCompiling'
  BY DEF LeaveLoop, ActiveWhileCompiling
<1>9. BaseIsEmpty'
  BY <1>1, <1>6 DEF ScopeInv, BaseIsEmpty, LeaveLoop
<1>. QED  BY <1>5, <1>7, <1>8, <1>9 DEF ScopeInv

LEMMA ThrowScopeInv ==
    ASSUME ScopeInv, Throw
    PROVE  ScopeInv'
<1>1. Depth' = 0
  BY DEF Throw, Depth
<1>2. TypeOK'
  <2>1. frames' \in Seq(Frame)
    BY DEF Throw
  <2>. QED  BY <2>1 DEF ScopeInv, TypeOK, Throw
<1>3. RestoresWhatItFound' /\ ActiveWhileCompiling' /\ BaseIsEmpty'
  BY <1>1 DEF Throw, RestoresWhatItFound, ActiveWhileCompiling, BaseIsEmpty
<1>. QED  BY <1>2, <1>3 DEF ScopeInv

LEMMA StepScopeInv ==
    ASSUME ScopeAssumption, ScopeInv, [Next]_vars
    PROVE  ScopeInv'
<1>1. CASE BeginTemplate
  <2>1. TypeOK'
    BY <1>1 DEF BeginTemplate, ScopeInv, TypeOK
  <2>. QED  BY <1>1, <2>1, QuietScopeInv DEF BeginTemplate
<1>2. ASSUME NEW x \in Name, Reference(x) PROVE ScopeInv'
  <2>1. reference' \in (Name \cup {None}) \X (Value \cup {Null})
    BY <1>2 DEF Reference, ScopeInv, TypeOK
  <2>2. TypeOK'
    BY <1>2, <2>1 DEF Reference, ScopeInv, TypeOK
  <2>. QED  BY <1>2, <2>2, QuietScopeInv DEF Reference
<1>3. ASSUME NEW k \in Name \cup {None}, NEW v \in Name,
             NEW x \in Name \cup {None}, EnterLoop(k, v, x)
      PROVE  ScopeInv'
  BY <1>3, EnterLoopScopeInv
<1>4. CASE EndBody
  BY <1>4, EndBodyScopeInv
<1>5. CASE LeaveLoop
  BY <1>5, LeaveLoopScopeInv
<1>6. CASE FinishTemplate
  <2>1. TypeOK'
    BY <1>6 DEF FinishTemplate, ScopeInv, TypeOK
  <2>. QED  BY <1>6, <2>1, QuietScopeInv DEF FinishTemplate
<1>7. CASE Throw
  BY <1>7, ThrowScopeInv
<1>8. CASE UNCHANGED vars
  <2>1. TypeOK'
    BY <1>8 DEF vars, ScopeInv, TypeOK
  <2>2. ~ compiling' => Depth = 0
    BY <1>8 DEF vars, ScopeInv, ActiveWhileCompiling
  <2>. QED  BY <1>8, <2>1, <2>2, QuietScopeInv DEF vars
<1>. QED  BY <1>1, <1>2, <1>3, <1>4, <1>5, <1>6, <1>7, <1>8 DEF Next

-----------------------------------------------------------------------------
\* The inductive invariant holds in every state of an engine, compilations that
\* fail and those after them included.
THEOREM ScopeInvariant == Spec => []ScopeInv
<1>1. Init => ScopeInv
  BY ScopeAssumption, InitScopeInv
<1>2. ScopeInv /\ [Next]_vars => ScopeInv'
  BY ScopeAssumption, StepScopeInv
<1>. QED  BY <1>1, <1>2, PTL DEF Spec

\* The visitor's maps and activations keep their types.
THEOREM TypeCorrect == Spec => []TypeOK
BY ScopeInvariant, PTL DEF ScopeInv

\* for_block() can always restore the map it found, at any nesting depth and
\* whatever names the nested loops declare.
THEOREM LoopsRestoreWhatTheyFound == Spec => []RestoresWhatItFound
BY ScopeInvariant, PTL DEF ScopeInv

\* Until a compilation fails, no loop variable outlives its loop.
THEOREM NoVariableOutlivesItsLoop == Spec => []NothingOverriddenUntilFailure
<1>1. ScopeInv => NothingOverriddenUntilFailure
  BY DEF ScopeInv, BaseIsEmpty, Around, Empty, NothingOverriddenUntilFailure,
         NothingOverriddenOutside
<1>. QED  BY <1>1, ScopeInvariant, PTL

-----------------------------------------------------------------------------
(***************************************************************************)
(* The iteration states.                                                   *)
(***************************************************************************)
\* m_forLoopMetadata has one entry per value.
OneStatePerValue == \A m, n \in metadata : m[1] = n[1] => m = n

LoopsExist == \A j \in 1 .. Depth : frames[j].loop \in 1 .. loops

\* The entry of a loop whose body is open is its own, ...
OwnState ==
    \A j \in 1 .. Depth :
        frames[j].stage = "body" /\ frames[j].loop \notin shadowed =>
            <<frames[j].iterable, frames[j].loop>> \in metadata

\* ... and no loop inside it will drop it.
NotDroppedInside ==
    \A i, j \in 1 .. Depth :
        i < j /\ frames[i].stage = "body" /\ frames[i].iterable = frames[j].iterable =>
            frames[i].loop \in shadowed

StateInv ==
    /\ OneStatePerValue
    /\ LoopsExist
    /\ OwnState
    /\ NotDroppedInside
    /\ AdvancesItsOwnLoop

\* Steps that leave the activations and the iteration states alone.
LEMMA QuietStateInv ==
    ASSUME StateInv, UNCHANGED <<metadata, frames, loops, advance, shadowed>>
    PROVE  StateInv'
BY DEF StateInv, OneStatePerValue, LoopsExist, OwnState, NotDroppedInside,
       AdvancesItsOwnLoop, Depth

\* What for_block() has recorded when it visits the body.
LEMMA EnterLoopRecords ==
    ASSUME ScopeAssumption, ScopeInv, NEW k, NEW v, NEW x, EnterLoop(k, v, x)
    PROVE  /\ Depth' = Depth + 1
           /\ \A j \in 1 .. Depth : frames'[j] = frames[j]
           /\ frames'[Depth + 1].loop = loops + 1
           /\ LET it == frames'[Depth + 1].iterable
              IN  /\ metadata' = Without(it) \cup {<<it, loops + 1>>}
                  /\ shadowed' = shadowed \cup
                        {frames[j].loop : j \in {d \in 1 .. Depth :
                            frames[d].stage = "body" /\ frames[d].iterable = it}}
<1>. DEFINE i == loops + 1
            iterable == IF x # None /\ Bound(x) # Null THEN Bound(x) ELSE Lookup(i)
            f == [loop |-> i, iterable |-> iterable, key |-> k, value |-> v,
                  oldKey |-> Bound(k), oldValue |-> overridden[v],
                  stage |-> "body", before |-> overridden]
<1>1. f.loop = i /\ f.iterable = iterable
  OBVIOUS
<1>2. /\ frames' = Append(frames, f)
      /\ metadata' = Without(iterable) \cup {<<iterable, i>>}
      /\ shadowed' = shadowed \cup
            {frames[j].loop : j \in {d \in 1 .. Depth :
                frames[d].stage = "body" /\ frames[d].iterable = iterable}}
  BY DEF EnterLoop
<1>. HIDE DEF f, iterable
<1>3. frames \in Seq(Frame)
  BY DEF ScopeInv, TypeOK
<1>4. /\ Depth' = Depth + 1 /\ frames'[Depth + 1] = f
      /\ \A j \in 1 .. Depth : frames'[j] = frames[j]
  BY <1>2, <1>3 DEF Depth
<1>. QED  BY <1>1, <1>2, <1>4

LEMMA EnterLoopStateInv ==
    ASSUME ScopeAssumption, ScopeInv, StateInv,
           NEW k, NEW v, NEW x, EnterLoop(k, v, x)
    PROVE  StateInv'
<1>. DEFINE it == frames'[Depth + 1].iterable
<1>1. /\ loops \in Nat /\ Depth \in Nat /\ loops' = loops + 1 /\ advance' = advance
      /\ metadata \subseteq Value \X (1 .. loops)
  BY DEF ScopeInv, TypeOK, Depth, EnterLoop
<1>2. /\ Depth' = Depth + 1
      /\ \A j \in 1 .. Depth : frames'[j] = frames[j]
      /\ frames'[Depth + 1].loop = loops + 1
      /\ metadata' = Without(it) \cup {<<it, loops + 1>>}
      /\ shadowed' = shadowed \cup
            {frames[j].loop : j \in {d \in 1 .. Depth :
                frames[d].stage = "body" /\ frames[d].iterable = it}}
  BY EnterLoopRecords
<1>. HIDE DEF it
<1>3. OneStatePerValue'
  BY <1>2 DEF StateInv, OneStatePerValue, Without
<1>4. LoopsExist'
  BY <1>1, <1>2 DEF StateInv, LoopsExist
<1>5. OwnState'
  <2>. SUFFICES ASSUME NEW j \in 1 .. Depth + 1, frames'[j].stage = "body",
                       frames'[j].loop \notin shadowed'
                PROVE  <<frames'[j].iterable, frames'[j].loop>> \in metadata'
    BY <1>2 DEF OwnState
  <2>1. CASE j = Depth + 1
    BY <1>2, <2>1 DEF it
  <2>2. CASE j \in 1 .. Depth
    <3>1. <<frames[j].iterable, frames[j].loop>> \in metadata
      BY <1>2, <2>2 DEF StateInv, OwnState
    <3>2. frames[j].iterable # it
      BY <1>2, <2>2
    <3>. QED  BY <1>2, <2>2, <3>1, <3>2 DEF Without
  <2>. QED  BY <1>1, <2>1, <2>2
<1>6. NotDroppedInside'
  <2>. SUFFICES ASSUME NEW i \in 1 .. Depth + 1, NEW j \in 1 .. Depth + 1, i < j,
                       frames'[i].stage = "body",
                       frames'[i].iterable = frames'[j].iterable
                PROVE  frames'[i].loop \in shadowed'
    BY <1>2 DEF NotDroppedInside
  <2>1. i \in 1 .. Depth /\ frames'[i] = frames[i]
    BY <1>1, <1>2
  <2>2. CASE j = Depth + 1
    BY <1>2, <2>1, <2>2 DEF it
  <2>3. CASE j \in 1 .. Depth
    BY <1>2, <2>1, <2>3 DEF StateInv, NotDroppedInside
  <2>. QED  BY <1>1, <2>2, <2>3
<1>7. AdvancesItsOwnLoop'
  BY <1>1, <1>2 DEF StateInv, AdvancesItsOwnLoop
<1>. QED  BY <1>3, <1>4, <1>5, <1>6, <1>7 DEF StateInv

\* The next-iteration code uses the loop's own state.
LEMMA EndBodyStateInv ==
    ASSUME ScopeAssumption, ScopeInv, StateInv, EndBody
    PROVE  StateInv'
<1>1. /\ loops \in Nat /\ Depth \in Nat /\ Depth > 0
      /\ metadata \subseteq Value \X (1 .. loops)
      /\ frames \in Seq(Frame) /\ Top \in Frame /\ Top.stage = "body"
      /\ UNCHANGED <<metadata, loops, shadowed>>
  BY DEF ScopeInv, TypeOK, Depth, Top, EndBody
<1>2. /\ Depth' = Depth
      /\ \A j \in 1 .. Depth : /\ frames'[j].loop = frames[j].loop
                               /\ frames'[j].iterable = frames[j].iterable
                               /\ frames'[j].stage = "body" => frames[j].stage = "body"
  <2>1. frames' = [frames EXCEPT ![Depth] = [Top EXCEPT !.stage = "else"]]
    BY DEF EndBody, Top
  <2>2. /\ [Top EXCEPT !.stage = "else"].stage = "else"
        /\ [Top EXCEPT !.stage = "else"].loop = Top.loop
        /\ [Top EXCEPT !.stage = "else"].iterable = Top.iterable
    BY <1>1 DEF Frame
  <2>3. Depth' = Depth
    BY <1>1, <2>1 DEF Depth
  <2>. QED  BY <1>1, <2>1, <2>2, <2>3 DEF Depth, Top
<1>3. AdvancesItsOwnLoop'
  <2>1. advance' = <<Top.loop, StateOf(Top.iterable)>>
    BY DEF EndBody
  <2>2. ASSUME Top.loop \notin shadowed
        PROVE  StateOf(Top.iterable) = Top.loop
    <3>1. Top.loop \in 1 .. loops /\ <<Top.iterable, Top.loop>> \in metadata
      BY <1>1, <2>2 DEF StateInv, OwnState, LoopsExist, Top
    <3>2. \A j \in 1 .. loops : <<Top.iterable, j>> \in metadata => j = Top.loop
      BY <3>1 DEF StateInv, OneStatePerValue
    <3>. QED  BY <3>1, <3>2 DEF StateOf
  <2>. QED  BY <1>1, <2>1, <2>2 DEF AdvancesItsOwnLoop
<1>4. OneStatePerValue' /\ LoopsExist' /\ OwnState' /\ NotDroppedInside'
  BY <1>1, <1>2 DEF StateInv, OneStatePerValue, LoopsExist, OwnState,
                    NotDroppedInside
<1>. QED  BY <1>3, <1>4 DEF StateInv

\* A loop that is left drops no state that a loop around it still needs.
LEMMA LeaveLoopStateInv ==
    ASSUME ScopeAssumption, ScopeInv, StateInv, LeaveLoop
    PROVE  StateInv'
<1>1. /\ Depth \in Nat /\ Depth > 0 /\ frames \in Seq(Frame)
      /\ metadata' = Without(Top.iterable)
      /\ UNCHANGED <<loops, shadowed, advance>>
  BY DEF ScopeInv, TypeOK, Depth, LeaveLoop
<1>2. Depth' = Depth - 1 /\ \A j \in 1 .. Depth - 1 : frames'[j] = frames[j]
  <2>1. frames' = [j \in 1 .. Depth - 1 |-> frames[j]]
    BY <1>1 DEF LeaveLoop, Depth
  <2>. QED  BY <1>1, <2>1 DEF Depth
<1>3. OwnState'
  <2>. SUFFICES ASSUME NEW j \in 1 .. Depth - 1, frames[j].stage = "body",
                       frames[j].loop \notin shadowed
                PROVE  <<frames[j].iterable, frames[j].loop>> \in metadata'
    BY <1>1, <1>2 DEF OwnState
  <2>1. <<frames[j].iterable, frames[j].loop>> \in metadata
    BY <1>1 DEF StateInv, OwnState
  <2>2. frames[j].iterable # Top.iterable
    BY <1>1 DEF StateInv, NotDroppedInside, Top
  <2>. QED  BY <1>1, <2>1, <2>2 DEF Without
<1>4. OneStatePerValue'
  BY <1>1 DEF StateInv, OneStatePerValue, Without
<1>5. LoopsExist' /\ NotDroppedInside' /\ AdvancesItsOwnLoop'
  BY <1>1, <1>2 DEF StateInv, LoopsExist, NotDroppedInside, AdvancesItsOwnLoop
<1>. QED  BY <1>3, <1>4, <1>5 DEF StateInv

LEMMA StepStateInv ==
    ASSUME ScopeAssumption, ScopeInv, StateInv, [Next]_vars
    PROVE  StateInv'
<1>1. CASE BeginTemplate \/ FinishTemplate \/ UNCHANGED vars
  BY <1>1, QuietStateInv DEF BeginTemplate, FinishTemplate, vars
<1>2. CASE \E x \in Name : Reference(x)
  BY <1>2, QuietStateInv DEF Reference
<1>3. CASE \E k \in Name \cup {None}, v \in Name, x \in Name \cup {None} :
              EnterLoop(k, v, x)
  BY <1>3, EnterLoopStateInv
<1>4. CASE EndBody
  BY <1>4, EndBodyStateInv
<1>5. CASE LeaveLoop
  BY <1>5, LeaveLoopStateInv
<1>6. CASE Throw
  <2>1. Depth' = 0 /\ UNCHANGED <<metadata, loops, shadowed, advance>>
    BY <1>6 DEF Throw, Depth
  <2>. QED  BY <2>1 DEF StateInv, OneStatePerValue, LoopsExist, OwnState,
                        NotDroppedInside, AdvancesItsOwnLoop
<1>. QED  BY <1>1, <1>2, <1>3, <1>4, <1>5, <1>6 DEF Next

\* The code that moves a loop to its next iteration moves the loop's own position in
\* its table, at any depth, unless a loop inside it iterates over the same value.
THEOREM LoopsAdvanceThemselves == Spec => []AdvancesItsOwnLoop
<1>1. Init => StateInv
  BY DEF Init, StateInv, OneStatePerValue, LoopsExist, OwnState, NotDroppedInside,
         AdvancesItsOwnLoop, Depth
<1>2. ScopeInv /\ StateInv /\ [Next]_vars => StateInv'
  BY ScopeAssumption, StepStateInv
<1>3. StateInv => AdvancesItsOwnLoop
  BY DEF StateInv
<1>. QED  BY <1>1, <1>2, <1>3, ScopeInvariant, PTL DEF Spec

-----------------------------------------------------------------------------
(***************************************************************************)
(* The refinement.                                                         *)
(***************************************************************************)
AbstractMap == [Name -> Value \cup {Null, Assigned}]

ScopesShape ==
    /\ AbstractScopes \in Seq(AbstractMap)
    /\ Len(AbstractScopes) = Depth + 1
    /\ \A j \in 1 .. Depth :
          AbstractScopes[j] = AbstractScope(frames[j].before)
    /\ AbstractScopes[Depth + 1] = AbstractScope(overridden)

\* The abstract scopes are the maps the open loops found, outermost first, and
\* the map as it is now.
LEMMA ScopesAre == TypeOK /\ ~ failed => ScopesShape
<1>. SUFFICES ASSUME TypeOK, ~ failed PROVE ScopesShape
  OBVIOUS
<1>1. /\ Depth \in Nat /\ overridden \in [Name -> Value \cup {Null}]
      /\ \A j \in 1 .. Depth : frames[j].before \in [Name -> Value \cup {Null}]
  <2>1. \A j \in 1 .. Depth : frames[j] \in Frame
    BY DEF TypeOK, Depth
  <2>2. \A f \in Frame : f.before \in [Name -> Value \cup {Null}]
    BY DEF Frame
  <2>3. Depth \in Nat /\ overridden \in [Name -> Value \cup {Null}]
    BY DEF TypeOK, Depth
  <2>. QED  BY <2>1, <2>2, <2>3
<1>2. \A map \in [Name -> Value \cup {Null}] : AbstractScope(map) \in AbstractMap
  BY DEF AbstractScope, AbstractValue, AbstractMap
<1>3. AbstractScopes = [j \in 1 .. Depth + 1 |->
         AbstractScope(IF j = Depth + 1 THEN overridden ELSE frames[j].before)]
  BY DEF AbstractScopes
<1>4. \A j \in 1 .. Depth + 1 :
         AbstractScope(IF j = Depth + 1 THEN overridden ELSE frames[j].before)
            \in AbstractMap
  BY <1>1, <1>2
<1>5. AbstractScopes \in Seq(AbstractMap) /\ Len(AbstractScopes) = Depth + 1
  BY <1>1, <1>3, <1>4
<1>6. \A j \in 1 .. Depth :
         AbstractScopes[j] = AbstractScope(frames[j].before)
  BY <1>1, <1>3
<1>7. AbstractScopes[Depth + 1] = AbstractScope(overridden)
  BY <1>1, <1>3
<1>. QED  BY <1>5, <1>6, <1>7 DEF ScopesShape

\* The same after a step.
LEMMA ScopesAreNext == TypeOK' /\ ~ failed' => ScopesShape'
BY ScopesAre, PTL

\* Compiling a loop's head opens a scope with the loop's variables.
LEMMA EnterRefines ==
    ASSUME ScopeAssumption, ScopeInv, ScopeInv', ~ failed,
           NEW k \in Name \cup {None}, NEW v \in Name,
           NEW x \in Name \cup {None}, EnterLoop(k, v, x)
    PROVE  S!Next
<1>. DEFINE i == loops + 1
            new == [y \in Name |-> IF y = v THEN S!ValueOf(i)
                                   ELSE IF y = k THEN S!KeyOf(i)
                                        ELSE AbstractScope(overridden)[y]]
            f == frames'[Depth + 1]
<1>1. /\ TypeOK /\ TypeOK' /\ ~ failed' /\ Depth \in Nat
      /\ i \in 1 .. MaxLoops /\ i \in Nat
  BY DEF ScopeInv, TypeOK, Depth, EnterLoop, ScopeAssumption
<1>2. ScopesShape /\ ScopesShape'
  BY <1>1, ScopesAre, ScopesAreNext
<1>3. /\ Depth' = Depth + 1 /\ frames'[Depth + 1].before = overridden
      /\ \A j \in 1 .. Depth : frames'[j] = frames[j]
  <2>1. /\ frames' = Append(frames, f) /\ f.before = overridden
        /\ f \in Frame /\ frames \in Seq(Frame)
    BY <1>1, EnterLoopType DEF TypeOK
  <2>. HIDE DEF f
  <2>2. Depth' = Depth + 1 /\ \A j \in 1 .. Depth : frames'[j] = frames[j]
    BY <2>1 DEF Depth
  <2>. QED  BY <2>1, <2>2 DEF f
<1>4. AbstractScope(overridden)' = new
  <2>2. overridden' = Overwrite(overridden, k, KeyOf(i), v, ValueOf(i))
    BY DEF EnterLoop
  <2>3. KeyOf(i) # Null /\ ValueOf(i) # Null
    BY <1>1 DEF ScopeAssumption, KeyOf, ValueOf
  <2>. QED  BY <2>2, <2>3
            DEF AbstractScope, AbstractValue, Overwrite, KeyOf, ValueOf,
                S!KeyOf, S!ValueOf
<1>5. S!Here = AbstractScope(overridden)
  BY <1>2 DEF S!Here, ScopesShape
<1>6. AbstractScopes' = Append(AbstractScopes, new)
  <2>. HIDE DEF new
  <2>1. /\ AbstractScopes \in Seq(AbstractMap)
        /\ AbstractScopes' \in Seq(AbstractMap)
        /\ Len(AbstractScopes) = Depth + 1 /\ Len(AbstractScopes') = Depth + 2
        /\ AbstractScopes'[Depth + 2] = new
    BY <1>1, <1>2, <1>3, <1>4 DEF ScopesShape
  <2>2. new \in AbstractMap
    BY <1>1, <2>1
  <2>3. \A j \in 1 .. Depth :
           AbstractScopes'[j] = AbstractScope(frames'[j].before)
    BY <1>1, <1>2, <1>3 DEF ScopesShape, AbstractScope, AbstractValue
  <2>4. \A j \in 1 .. Depth : AbstractScopes'[j] = AbstractScopes[j]
    BY <1>2, <1>3, <2>3 DEF ScopesShape
  <2>5. AbstractScopes'[Depth + 1] = AbstractScopes[Depth + 1]
    BY <1>1, <1>2, <1>3, SMTT(60) DEF ScopesShape, AbstractScope, AbstractValue
  <2>. QED  BY <1>1, <2>1, <2>2, <2>4, <2>5
<1>7. S!Enter(i, k, v)
  <2>1. UNCHANGED <<reference, failed>>
    BY DEF EnterLoop
  <2>. QED  BY <1>5, <1>6, <2>1 DEF S!Enter, AbstractMeaning, AbstractValue
<1>. QED  BY <1>1, <1>7 DEF S!Next

\* Restoring the saved values closes the scope of the loop's variables.
LEMMA EndBodyRefines ==
    ASSUME ScopeAssumption, ScopeInv, ScopeInv', ~ failed, EndBody
    PROVE  S!Next
<1>1. /\ TypeOK /\ TypeOK' /\ ~ failed' /\ Depth \in Nat /\ Depth > 0
      /\ frames \in Seq(Frame)
  BY DEF ScopeInv, TypeOK, Depth, EndBody
<1>2. ScopesShape /\ ScopesShape'
  BY <1>1, ScopesAre, ScopesAreNext
<1>3. overridden' = frames[Depth].before
  BY <1>1 DEF ScopeInv, RestoresWhatItFound, Around, EndBody, Top
<1>4. Depth' = Depth /\ \A j \in 1 .. Depth : frames'[j].before = frames[j].before
  <2>1. frames' = [frames EXCEPT ![Depth].stage = "else"]
    BY DEF EndBody
  <2>2. Len(frames') = Len(frames)
    BY <1>1, <2>1
  <2>3. \A j \in 1 .. Depth : frames[j] \in Frame
    BY <1>1 DEF Depth
  <2>4. \A j \in 1 .. Depth : frames'[j].before = frames[j].before
    BY <1>1, <2>1, <2>3 DEF Frame, Depth
  <2>. QED  BY <2>2, <2>4 DEF Depth
<1>5. /\ AbstractScopes \in Seq(AbstractMap) /\ AbstractScopes' \in Seq(AbstractMap)
      /\ Len(AbstractScopes) = Depth + 1 /\ Len(AbstractScopes') = Depth + 1
  BY <1>2, <1>4 DEF ScopesShape
<1>6. AbstractScopes'[Depth + 1] = AbstractScopes[Depth]
  BY <1>1, <1>2, <1>3, <1>4 DEF ScopesShape, AbstractScope, AbstractValue
<1>7. \A j \in 1 .. Depth : AbstractScopes'[j] = AbstractScopes[j]
  <2>1. \A j \in 1 .. Depth :
           AbstractScopes'[j] = AbstractScope(frames'[j].before)
    BY <1>2, <1>4 DEF ScopesShape, AbstractScope, AbstractValue
  <2>. QED  BY <1>2, <1>4, <2>1 DEF ScopesShape
<1>8. AbstractScopes' =
         [AbstractScopes EXCEPT ![Depth + 1] = AbstractScopes[Depth]]
  BY <1>1, <1>5, <1>6, <1>7
<1>9. S!EndBody
  <2>1. UNCHANGED <<reference, failed>>
    BY DEF EndBody
  <2>2. Len(AbstractScopes) > 1 /\ Len(AbstractScopes) - 1 = Depth
    BY <1>1, <1>5
  <2>3. AbstractScopes' = [AbstractScopes EXCEPT
           ![Len(AbstractScopes)] = AbstractScopes[Len(AbstractScopes) - 1]]
    BY <1>5, <1>8, <2>2
  <2>. QED  BY <2>1, <2>2, <2>3 DEF S!EndBody, AbstractMeaning, AbstractValue
<1>. QED  BY <1>9 DEF S!Next

\* The else body was compiled in the scope around the loop.
LEMMA LeaveRefines ==
    ASSUME ScopeAssumption, ScopeInv, ScopeInv', ~ failed, LeaveLoop
    PROVE  S!Next
<1>1. /\ TypeOK /\ TypeOK' /\ ~ failed' /\ Depth \in Nat /\ Depth > 0
      /\ frames \in Seq(Frame)
  BY DEF ScopeInv, TypeOK, Depth, LeaveLoop
<1>2. ScopesShape /\ ScopesShape'
  BY <1>1, ScopesAre, ScopesAreNext
<1>3. overridden' = overridden /\ overridden = frames[Depth].before
  BY <1>1, SMTT(60) DEF ScopeInv, RestoresWhatItFound, Around, LeaveLoop, Top
<1>4. Depth' = Depth - 1 /\ \A j \in 1 .. Depth - 1 : frames'[j] = frames[j]
  <2>1. frames' = [j \in 1 .. Depth - 1 |-> frames[j]]
    BY <1>1 DEF LeaveLoop, Depth
  <2>2. Len(frames') = Depth - 1
    BY <1>1, <2>1
  <2>. QED  BY <2>1, <2>2 DEF Depth
<1>5. /\ AbstractScopes \in Seq(AbstractMap) /\ AbstractScopes' \in Seq(AbstractMap)
      /\ Len(AbstractScopes) = Depth + 1 /\ Len(AbstractScopes') = Depth
  BY <1>1, <1>2, <1>4 DEF ScopesShape
<1>6. AbstractScopes'[Depth] = AbstractScopes[Depth]
  BY <1>1, <1>2, <1>3, <1>4 DEF ScopesShape, AbstractScope, AbstractValue
<1>7. \A j \in 1 .. Depth - 1 : AbstractScopes'[j] = AbstractScopes[j]
  <2>1. \A j \in 1 .. Depth - 1 :
           AbstractScopes'[j] = AbstractScope(frames'[j].before)
    BY <1>1, <1>2, <1>4 DEF ScopesShape, AbstractScope, AbstractValue
  <2>2. \A j \in 1 .. Depth - 1 :
           AbstractScopes[j] = AbstractScope(frames[j].before)
    BY <1>1, <1>2 DEF ScopesShape
  <2>. QED  BY <1>4, <2>1, <2>2
<1>8. AbstractScopes' = SubSeq(AbstractScopes, 1, Depth)
  BY <1>1, <1>5, <1>6, <1>7
<1>9. S!Leave
  <2>1. UNCHANGED <<reference, failed>>
    BY DEF LeaveLoop
  <2>2. Len(AbstractScopes) > 1 /\ Len(AbstractScopes) - 1 = Depth
    BY <1>1, <1>5
  <2>. QED  BY <1>8, <2>1, <2>2 DEF S!Leave, AbstractMeaning, AbstractValue
<1>. QED  BY <1>9 DEF S!Next

\* Every step is a step of lexical scoping, or changes no meaning; after the
\* first failure nothing has one any more.
LEMMA StepRefines ==
    ASSUME ScopeAssumption, ScopeInv, ScopeInv', [Next]_vars
    PROVE  [S!Next]_(S!vars)
<1>1. CASE UNCHANGED vars
  BY <1>1 DEF vars, S!vars, AbstractScopes, AbstractScope, AbstractMeaning,
              AbstractValue, Depth
<1>0. CASE failed /\ Next
  <2>1. failed'
    BY <1>0 DEF Next, BeginTemplate, Reference, EnterLoop, EndBody, LeaveLoop,
                FinishTemplate, Throw
  <2>. QED  BY <1>0, <2>1 DEF S!vars, AbstractScopes, AbstractMeaning
<1>. SUFFICES ASSUME ~ failed, Next
              PROVE  [S!Next]_(S!vars)
  BY <1>0, <1>1
<1>2. CASE BeginTemplate \/ FinishTemplate
  <2>1. UNCHANGED <<overridden, frames, reference, failed>>
    BY <1>2 DEF BeginTemplate, FinishTemplate
  <2>. QED  BY <2>1 DEF S!vars, AbstractScopes, AbstractScope, AbstractMeaning,
                        AbstractValue, Depth
<1>3. ASSUME NEW x \in Name, Reference(x) PROVE S!Refer(x)
  <2>1. S!Here = AbstractScope(overridden)
    BY ScopesAre DEF ScopeInv, S!Here, ScopesShape
  <2>2. UNCHANGED AbstractScopes
    BY <1>3 DEF Reference, AbstractScopes, AbstractScope, AbstractValue, Depth
  <2>3. reference' = <<x, overridden[x]>> /\ UNCHANGED failed
    BY <1>3 DEF Reference
  <2>. QED  BY <2>1, <2>2, <2>3
            DEF S!Refer, AbstractScope, AbstractMeaning, AbstractValue
<1>4. CASE \E x \in Name : Reference(x)
  BY <1>3, <1>4 DEF S!Next
<1>5. CASE \E k \in Name \cup {None}, v \in Name, x \in Name \cup {None} :
              EnterLoop(k, v, x)
  BY <1>5, EnterRefines
<1>6. CASE EndBody
  BY <1>6, EndBodyRefines
<1>7. CASE LeaveLoop
  BY <1>7, LeaveRefines
<1>8. CASE Throw
  <2>1. failed'
    BY <1>8 DEF Throw
  <2>2. AbstractScopes' = <<S!Global>>
    BY <2>1 DEF AbstractScopes, S!Global, Assigned, S!Assigned
  <2>. QED  BY <2>1, <2>2 DEF S!Next, S!Abandon, AbstractMeaning,
                             Assigned, S!Assigned
<1>. QED  BY <1>2, <1>4, <1>5, <1>6, <1>7, <1>8 DEF Next

\* Until a compilation fails, for_block()'s flat map with its saved values
\* implements lexical scoping: every reference is compiled to the variable of
\* the innermost loop that declares the name.
THEOREM LoopsScopeLexically == Spec => ImplementsScoping
<1>1. Init => ScopeInv
  BY ScopeAssumption, InitScopeInv
<1>2. ScopeInv /\ [Next]_vars => ScopeInv'
  BY ScopeAssumption, StepScopeInv
<1>3. Init => S!Init
  <2>. SUFFICES ASSUME Init PROVE S!Init
    OBVIOUS
  <2>1. /\ overridden = [x \in Name |-> Null] /\ frames = <<>> /\ ~ failed
        /\ reference = <<None, Null>> /\ Depth = 0
    BY DEF Init, Depth
  <2>2. AbstractScopes = [j \in 1 .. 1 |-> AbstractScope(overridden)]
    BY <2>1 DEF AbstractScopes
  <2>3. AbstractScope(overridden) = S!Global
    BY <2>1 DEF AbstractScope, AbstractValue, S!Global, Assigned, S!Assigned
  <2>4. AbstractScopes = <<S!Global>>
    BY <2>2, <2>3
  <2>. QED  BY <2>1, <2>4 DEF S!Init, AbstractMeaning, AbstractValue,
                             Assigned, S!Assigned
<1>4. ScopeInv /\ ScopeInv' /\ [Next]_vars => [S!Next]_(S!vars)
  BY ScopeAssumption, StepRefines
<1>. QED  BY <1>1, <1>2, <1>3, <1>4, PTL
          DEF Spec, ImplementsScoping, S!Spec
=============================================================================
