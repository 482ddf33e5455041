-------------------------- MODULE JsVisitorProofs --------------------------
(***************************************************************************)
(* Proofs about JsVisitor, for every set of names and templates of any     *)
(* depth and length.                                                       *)
(*                                                                         *)
(* As in LoopScopesProofs each activation of for_block() can restore the   *)
(* map it found.  Here the walk knows its place from nest, and the saved   *)
(* values are in frames: that the two agree on which loop is the innermost *)
(* is shown with the numbers that m_forCounter gives to the loops.         *)
(***************************************************************************)
EXTENDS JsVisitor, TLAPS

Empty == [x \in Name |-> Null]

IfEntry == [kind : {"if"}, at : {"then", "else"}]
ForEntry == [kind : {"for"}, at : {"head", "body", "else", "tail"}, hasElse : BOOLEAN,
             loop : Nat, key : Name \cup {None}, value : Name]
Entry == IfEntry \cup ForEntry

NodeType == [op : {"print", "if", "elseif"}, name : Name] \cup [op : {"else", "end"}]
            \cup [op : {"for"}, key : Name \cup {None}, value : Name, name : Name]

IsFor(i) == nest[i].kind = "for"
Started(i) == IsFor(i) /\ nest[i].at # "head"

\* Every loop has a number of its own, greater than those of the loops around it.
Numbered ==
    /\ source \in Seq(NodeType)
    /\ forCounter <= Len(source) /\ forCounter <= MaxNodes
    /\ \A i \in 1 .. Len(nest) : IsFor(i) => nest[i].loop \in 1 .. forCounter
    /\ \A i, j \in 1 .. Len(nest) :
          i < j /\ IsFor(i) => /\ nest[i].at # "head"
                               /\ IsFor(j) => nest[i].loop < nest[j].loop
    /\ \A i, j \in 1 .. Depth : i < j => frames[i].loop < frames[j].loop

\* The activations are those of the loops whose body was begun.
Matched ==
    /\ \A i \in 1 .. Len(nest) : Started(i) =>
          \E j \in 1 .. Depth : /\ frames[j].loop = nest[i].loop
                                /\ frames[j].stage = "body" <=> nest[i].at = "body"
    /\ \A j \in 1 .. Depth :
          \E i \in 1 .. Len(nest) : Started(i) /\ nest[i].loop = frames[j].loop

\* Nothing is shadowed around the outermost loop.
BaseIsEmpty ==
    /\ phase # "thrown" => Around(0) = Empty
    /\ phase # "visiting" => nest = <<>>

JsInv ==
    /\ TypeOK
    /\ nest \in Seq(Entry)
    /\ Numbered
    /\ Matched
    /\ RestoresShadows
    /\ BaseIsEmpty

-----------------------------------------------------------------------------
(***************************************************************************)
(* The operators.                                                          *)
(***************************************************************************)
\* Setting and restoring variables keep the type of the map.
LEMMA MapTypes ==
    ASSUME NEW T, NEW map \in [Name -> T],
           NEW k, NEW v, NEW kval \in T, NEW vval \in T
    PROVE  /\ Overwrite(map, k, kval, v, vval) \in [Name -> T]
           /\ Restored(map, k, kval, v, vval) \in [Name -> T]
BY DEF Overwrite, Restored

\* Only loops have bodies, heads and tails; only ifs have a first branch.
LEMMA EntryFacts ==
    ASSUME NEW e \in Entry
    PROVE  /\ e.kind \in {"if", "for"}
           /\ e.kind = "for" => e \in ForEntry
           /\ e.kind = "if" => e \in IfEntry
           /\ e.at \in {"head", "body", "tail"} => e.kind = "for"
           /\ e.at = "then" => e.kind = "if"
BY DEF Entry, IfEntry, ForEntry

LEMMA InnerFacts ==
    ASSUME nest \in Seq(Entry), nest # <<>>
    PROVE  /\ Len(nest) \in Nat /\ Len(nest) > 0
           /\ Inner \in Entry /\ Inner = nest[Len(nest)]
BY DEF Inner

LEMMA NodeAppended ==
    ASSUME source \in Seq(NodeType), NEW node \in NodeType, Node(node)
    PROVE  source' \in Seq(NodeType) /\ Len(source') = Len(source) + 1
BY DEF Node

LEMMA Pushed ==
    ASSUME nest \in Seq(Entry), NEW e \in Entry, nest' = Append(nest, e)
    PROVE  /\ nest' \in Seq(Entry) /\ Len(nest') = Len(nest) + 1
           /\ nest'[Len(nest) + 1] = e
           /\ \A i \in 1 .. Len(nest) : nest'[i] = nest[i]
OBVIOUS

LEMMA Closed ==
    ASSUME nest \in Seq(Entry), nest # <<>>, Close
    PROVE  /\ nest' \in Seq(Entry) /\ Len(nest') = Len(nest) - 1
           /\ \A i \in 1 .. Len(nest) - 1 : nest'[i] = nest[i]
<1>1. nest' = [i \in 1 .. Len(nest) - 1 |-> nest[i]]
  BY DEF Close
<1>. QED  BY <1>1

\* The walk moves on in the innermost block.
LEMMA Moved ==
    ASSUME nest \in Seq(Entry), nest # <<>>, NEW at, Move(at),
           \/ Inner.kind = "for" /\ at \in {"body", "else", "tail"}
           \/ Inner.kind = "if" /\ at = "else"
    PROVE  /\ nest' \in Seq(Entry) /\ Len(nest') = Len(nest)
           /\ \A i \in 1 .. Len(nest) - 1 : nest'[i] = nest[i]
           /\ nest'[Len(nest)].kind = Inner.kind
           /\ nest'[Len(nest)].at = at
           /\ Inner.kind = "for" => nest'[Len(nest)].loop = Inner.loop
<1>. DEFINE e == [Inner EXCEPT !.at = at]
<1>1. nest' = [nest EXCEPT ![Len(nest)] = e]
  BY DEF Move, Inner
<1>2. Inner \in Entry /\ Len(nest) \in 1 .. Len(nest) /\ Len(nest) \in Nat
  BY InnerFacts
<1>3. /\ e \in Entry /\ e.kind = Inner.kind /\ e.at = at
      /\ Inner.kind = "for" => e.loop = Inner.loop
  <2>1. CASE Inner.kind = "for"
    <3>1. Inner \in ForEntry
      BY <1>2, <2>1, EntryFacts
    <3>. QED  BY <2>1, <3>1 DEF ForEntry, Entry
  <2>2. CASE Inner.kind = "if"
    <3>1. Inner \in IfEntry
      BY <1>2, <2>2, EntryFacts
    <3>. QED  BY <2>2, <3>1 DEF IfEntry, Entry
  <2>. QED  BY <2>1, <2>2
<1>. HIDE DEF e
<1>. QED  BY <1>1, <1>2, <1>3

\* The innermost loop, once it was begun, is that of the last activation.
LEMMA TopIsInner ==
    ASSUME JsInv, nest # <<>>, Started(Len(nest))
    PROVE  /\ Depth \in Nat /\ Depth > 0
           /\ frames \in Seq(Frame) /\ Top \in Frame /\ Top = frames[Depth]
           /\ Top.loop = Inner.loop
           /\ Top.stage = "body" <=> Inner.at = "body"
<1>1. frames \in Seq(Frame) /\ Depth \in Nat
  BY DEF JsInv, TypeOK, Depth
<1>2. Len(nest) \in 1 .. Len(nest) /\ Len(nest) \in Nat /\ Inner = nest[Len(nest)]
  BY InnerFacts DEF JsInv
<1>3. PICK j \in 1 .. Depth : /\ frames[j].loop = Inner.loop
                              /\ frames[j].stage = "body" <=> Inner.at = "body"
  BY <1>2 DEF JsInv, Matched
<1>4. Depth \in 1 .. Depth
  BY <1>1
<1>5. PICK i \in 1 .. Len(nest) : Started(i) /\ nest[i].loop = frames[Depth].loop
  BY <1>4 DEF JsInv, Matched
<1>6. frames[Depth].loop \in Nat /\ frames[j].loop \in Nat
  <2>1. frames[Depth] \in Frame /\ frames[j] \in Frame
    BY <1>1, <1>4 DEF Depth
  <2>. QED  BY <2>1 DEF Frame
<1>7. j = Depth
  <2>. SUFFICES ASSUME j < Depth PROVE FALSE
    BY <1>1
  <2>1. Inner.loop < frames[Depth].loop
    BY <1>3, <1>4 DEF JsInv, Numbered
  <2>2. i = Len(nest) \/ nest[i].loop < Inner.loop
    BY <1>2, <1>5 DEF JsInv, Numbered, Started
  <2>. QED  BY <1>2, <1>3, <1>5, <1>6, <2>1, <2>2
<1>. QED  BY <1>1, <1>3, <1>4, <1>7 DEF Top, Depth

-----------------------------------------------------------------------------
(***************************************************************************)
(* The invariant.                                                          *)
(***************************************************************************)
LEMMA InitJsInv == ASSUME JsAssumption, Init PROVE JsInv
<1>1. /\ frames = <<>> /\ nest = <<>> /\ source = <<>> /\ forCounter = 0
      /\ Depth = 0 /\ Len(nest) = 0 /\ Len(source) = 0
  BY DEF Init, Depth
<1>2. TypeOK
  BY <1>1 DEF Init, TypeOK
<1>3. Numbered
  BY <1>1 DEF Numbered, JsAssumption
<1>4. Matched
  BY <1>1 DEF Matched
<1>5. RestoresShadows /\ BaseIsEmpty
  BY <1>1 DEF Init, RestoresShadows, BaseIsEmpty, Around, Empty
<1>. QED  BY <1>1, <1>2, <1>3, <1>4, <1>5 DEF JsInv

\* No block is open outside the walk, and so nothing is shadowed there.
LEMMA NothingOpen ==
    ASSUME TypeOK, Matched, nest = <<>>
    PROVE  Depth = 0 /\ Around(0) = shadowValues
<1>1. Depth \in Nat
  BY DEF TypeOK, Depth
<1>2. Len(nest) = 0
  OBVIOUS
<1>. QED  BY <1>1, <1>2 DEF Matched, Around

\* Steps that begin and end no loop.
LEMMA SameLoops ==
    ASSUME JsInv, TypeOK', UNCHANGED <<shadowValues, forCounter, frames>>,
           nest' \in Seq(Entry), source' \in Seq(NodeType),
           Len(source) <= Len(source'),
           phase = "thrown" => phase' = "thrown",
           phase' # "visiting" => nest' = <<>>,
           \A i \in 1 .. Len(nest) : IsFor(i) =>
              i \in 1 .. Len(nest') /\ nest'[i] = nest[i],
           \A i \in 1 .. Len(nest') : nest'[i].kind = "for" =>
              /\ i \in 1 .. Len(nest) /\ nest'[i] = nest[i]
              /\ i < Len(nest') => nest[i].at # "head"
    PROVE  JsInv'
<1>1. Len(nest) \in Nat /\ Len(nest') \in Nat /\ Depth' = Depth /\ Depth \in Nat
  BY DEF JsInv, TypeOK, Depth
<1>2. Numbered'
  <2>1. forCounter \in Nat /\ Len(source) \in Nat /\ Len(source') \in Nat
    BY DEF JsInv, TypeOK, Numbered
  <2>2. forCounter' <= Len(source') /\ forCounter' <= MaxNodes
    BY <2>1 DEF JsInv, Numbered
  <2>3. \A i \in 1 .. Len(nest') : IsFor(i)' => nest'[i].loop \in 1 .. forCounter'
    BY DEF JsInv, Numbered, IsFor
  <2>4. ASSUME NEW i \in 1 .. Len(nest'), NEW j \in 1 .. Len(nest'), i < j,
               nest'[i].kind = "for"
        PROVE  /\ nest'[i].at # "head"
               /\ nest'[j].kind = "for" => nest'[i].loop < nest'[j].loop
    BY <1>1, <2>4 DEF JsInv, Numbered, IsFor
  <2>5. \A i, j \in 1 .. Depth' : i < j => frames'[i].loop < frames'[j].loop
    BY <1>1 DEF JsInv, Numbered
  <2>. QED  BY <2>2, <2>3, <2>4, <2>5 DEF Numbered, IsFor
<1>3. Matched'
  <2>1. ASSUME NEW i \in 1 .. Len(nest'), nest'[i].kind = "for", nest'[i].at # "head"
        PROVE  \E j \in 1 .. Depth : /\ frames'[j].loop = nest'[i].loop
                                     /\ frames'[j].stage = "body" <=> nest'[i].at = "body"
    <3>1. i \in 1 .. Len(nest) /\ nest'[i] = nest[i]
      BY <2>1
    <3>2. Started(i)
      BY <2>1, <3>1 DEF Started, IsFor
    <3>3. \E j \in 1 .. Depth : /\ frames[j].loop = nest[i].loop
                                /\ frames[j].stage = "body" <=> nest[i].at = "body"
      BY <3>1, <3>2 DEF JsInv, Matched
    <3>. QED  BY <3>1, <3>3
  <2>2. ASSUME NEW j \in 1 .. Depth
        PROVE  \E i \in 1 .. Len(nest') : /\ nest'[i].kind = "for" /\ nest'[i].at # "head"
                                          /\ nest'[i].loop = frames'[j].loop
    <3>1. PICK i \in 1 .. Len(nest) : Started(i) /\ nest[i].loop = frames[j].loop
      BY DEF JsInv, Matched
    <3>2. i \in 1 .. Len(nest') /\ nest'[i] = nest[i]
      BY <3>1 DEF Started
    <3>. QED  BY <3>1, <3>2 DEF Started, IsFor
  <2>. QED  BY <1>1, <2>1, <2>2 DEF Matched, Started, IsFor
<1>4. \A i \in 0 .. Depth : Around(i)' = Around(i)
  BY <1>1 DEF Around
<1>5. BaseIsEmpty'
  <2>1. Around(0)' = Around(0)
    BY <1>1, <1>4
  <2>2. phase # "thrown" => Around(0) = Empty
    BY DEF JsInv, BaseIsEmpty
  <2>. QED  BY <2>1, <2>2 DEF BaseIsEmpty
<1>6. RestoresShadows'
  <2>1. phase' = "done" => shadowValues' = Empty
    <3>1. nest' = <<>> => Around(0)' = shadowValues'
      BY <1>1, <1>3 DEF Matched, Around
    <3>. QED  BY <1>5, <3>1 DEF BaseIsEmpty
  <2>. QED  BY <1>1, <1>4, <2>1 DEF JsInv, RestoresShadows, Empty
<1>. QED  BY <1>2, <1>3, <1>5, <1>6 DEF JsInv

\* What all the steps of the walk but those of loops have in common.
LEMMA ReferenceType ==
    ASSUME TypeOK, NEW x \in Name, Refer(x)
    PROVE  reference' \in (Name \cup {None}) \X (Id \cup {Null})
BY DEF TypeOK, Refer

LEMMA PrintBlockJsInv ==
    ASSUME JsInv, NEW x \in Name, PrintBlock(x) \/ ElseIf(x)
    PROVE  JsInv'
<1>1. /\ UNCHANGED <<shadowValues, forCounter, frames, nest, phase>>
      /\ Refer(x) /\ phase = "visiting"
  BY DEF PrintBlock, ElseIf, InThen, Statements
<1>2. TypeOK'
  BY <1>1, ReferenceType DEF JsInv, TypeOK
<1>3. source' \in Seq(NodeType) /\ Len(source') = Len(source) + 1
  <2>1. [op |-> "print", name |-> x] \in NodeType /\ [op |-> "elseif", name |-> x] \in NodeType
    BY DEF NodeType
  <2>. QED  BY <2>1, NodeAppended DEF PrintBlock, ElseIf, JsInv, Numbered
<1>4. Len(source) \in Nat /\ Len(nest) \in Nat
  BY DEF JsInv, Numbered
<1>5. \A i \in 1 .. Len(nest) : IsFor(i) /\ i < Len(nest) => nest[i].at # "head"
  BY <1>4 DEF JsInv, Numbered
<1>. QED  BY <1>1, <1>2, <1>3, <1>4, <1>5, SameLoops DEF JsInv, BaseIsEmpty, IsFor

LEMMA BeginIfJsInv ==
    ASSUME JsInv, NEW x \in Name, BeginIf(x)
    PROVE  JsInv'
<1>. DEFINE e == [kind |-> "if", at |-> "then"]
<1>1. /\ UNCHANGED <<shadowValues, forCounter, frames, phase>>
      /\ Refer(x) /\ phase = "visiting" /\ nest' = Append(nest, e)
      /\ nest # <<>> => Inner.at # "head"
  BY DEF BeginIf, Statements
<1>2. TypeOK'
  BY <1>1, ReferenceType DEF JsInv, TypeOK
<1>3. source' \in Seq(NodeType) /\ Len(source') = Len(source) + 1
  <2>1. [op |-> "if", name |-> x] \in NodeType
    BY DEF NodeType
  <2>. QED  BY <2>1, NodeAppended DEF BeginIf, JsInv, Numbered
<1>4. e \in Entry /\ e.kind = "if"
  BY DEF Entry, IfEntry
<1>. HIDE DEF e
<1>5. /\ nest' \in Seq(Entry) /\ Len(nest') = Len(nest) + 1
      /\ nest'[Len(nest) + 1].kind = "if"
      /\ \A i \in 1 .. Len(nest) : nest'[i] = nest[i]
  BY <1>1, <1>4, Pushed DEF JsInv
<1>6. Len(source) \in Nat /\ Len(nest) \in Nat
  BY DEF JsInv, Numbered
<1>7. \A i \in 1 .. Len(nest) : IsFor(i) => nest[i].at # "head"
  BY <1>1, <1>6, InnerFacts DEF JsInv, Numbered
<1>8. \A i \in 1 .. Len(nest') : nest'[i].kind = "for" =>
         i \in 1 .. Len(nest) /\ nest'[i] = nest[i] /\ nest[i].at # "head"
  BY <1>5, <1>6, <1>7 DEF IsFor
<1>9. \A i \in 1 .. Len(nest) : IsFor(i) => i \in 1 .. Len(nest') /\ nest'[i] = nest[i]
  BY <1>5, <1>6
<1>. QED  BY <1>1, <1>2, <1>3, <1>5, <1>6, <1>8, <1>9, SameLoops

LEMMA ElseJsInv ==
    ASSUME JsInv, Else
    PROVE  JsInv'
<1>1. /\ UNCHANGED <<shadowValues, forCounter, frames, phase, reference>>
      /\ phase = "visiting" /\ nest # <<>> /\ Inner.at = "then" /\ Move("else")
      /\ nest \in Seq(Entry)
  BY DEF Else, InThen, Statements, JsInv
<1>2. Inner.kind = "if" /\ Inner = nest[Len(nest)] /\ Len(nest) \in Nat
  BY <1>1, InnerFacts, EntryFacts
<1>3. /\ nest' \in Seq(Entry) /\ Len(nest') = Len(nest)
      /\ \A i \in 1 .. Len(nest) - 1 : nest'[i] = nest[i]
      /\ nest'[Len(nest)].kind = "if"
  BY <1>1, <1>2, Moved
<1>4. source' \in Seq(NodeType) /\ Len(source') = Len(source) + 1 /\ Len(source) \in Nat
  <2>1. [op |-> "else"] \in NodeType
    BY DEF NodeType
  <2>. QED  BY <2>1, NodeAppended DEF Else, JsInv, Numbered
<1>5. TypeOK'
  BY <1>1 DEF JsInv, TypeOK
<1>6. \A i \in 1 .. Len(nest) : IsFor(i) => i \in 1 .. Len(nest') /\ nest'[i] = nest[i]
  BY <1>2, <1>3 DEF IsFor
<1>7. \A i \in 1 .. Len(nest') : nest'[i].kind = "for" =>
         /\ i \in 1 .. Len(nest) /\ nest'[i] = nest[i]
         /\ i < Len(nest') => nest[i].at # "head"
  BY <1>2, <1>3 DEF IsFor, JsInv, Numbered
<1>. QED  BY <1>1, <1>3, <1>4, <1>5, <1>6, <1>7, SameLoops

LEMMA EndIfJsInv ==
    ASSUME JsInv, EndIf
    PROVE  JsInv'
<1>1. /\ UNCHANGED <<shadowValues, forCounter, frames, phase, reference>>
      /\ phase = "visiting" /\ nest # <<>> /\ Inner.kind = "if" /\ Close
      /\ nest \in Seq(Entry)
  BY DEF EndIf, Statements, JsInv
<1>2. Inner = nest[Len(nest)] /\ Len(nest) \in Nat /\ Len(nest) > 0
  BY <1>1, InnerFacts
<1>3. /\ nest' \in Seq(Entry) /\ Len(nest') = Len(nest) - 1
      /\ \A i \in 1 .. Len(nest) - 1 : nest'[i] = nest[i]
  BY <1>1, Closed
<1>4. source' \in Seq(NodeType) /\ Len(source') = Len(source) + 1 /\ Len(source) \in Nat
  <2>1. [op |-> "end"] \in NodeType
    BY DEF NodeType
  <2>. QED  BY <2>1, NodeAppended DEF EndIf, JsInv, Numbered
<1>5. TypeOK'
  BY <1>1 DEF JsInv, TypeOK
<1>6. \A i \in 1 .. Len(nest) : IsFor(i) => i \in 1 .. Len(nest') /\ nest'[i] = nest[i]
  BY <1>1, <1>2, <1>3 DEF IsFor
<1>7. \A i \in 1 .. Len(nest') : nest'[i].kind = "for" =>
         /\ i \in 1 .. Len(nest) /\ nest'[i] = nest[i]
         /\ i < Len(nest') => nest[i].at # "head"
  BY <1>2, <1>3 DEF IsFor, JsInv, Numbered
<1>. QED  BY <1>1, <1>3, <1>4, <1>5, <1>6, <1>7, SameLoops

\* The walk begins or ends, or nothing happens.
LEMMA QuietJsInv ==
    ASSUME JsInv, UNCHANGED <<shadowValues, forCounter, frames, nest, reference, source>>,
           phase' \in {"ready", "visiting", "done", "thrown"},
           phase = "thrown" => phase' = "thrown",
           phase' # "visiting" => nest = <<>>
    PROVE  JsInv'
<1>1. TypeOK'
  BY DEF JsInv, TypeOK
<1>2. source \in Seq(NodeType) /\ Len(source) \in Nat /\ Len(nest) \in Nat
  BY DEF JsInv, Numbered
<1>3. \A i \in 1 .. Len(nest) : IsFor(i) /\ i < Len(nest) => nest[i].at # "head"
  BY <1>2 DEF JsInv, Numbered
<1>. QED  BY <1>1, <1>2, <1>3, SameLoops DEF JsInv, IsFor

\* A loop gets the next number; its head opens no scope yet.
LEMMA BeginForJsInv ==
    ASSUME JsAssumption, JsInv, NEW k \in Name \cup {None}, NEW v \in Name, NEW x \in Name,
           NEW hasElse \in BOOLEAN, BeginFor(k, v, x, hasElse)
    PROVE  JsInv'
<1>. DEFINE i == forCounter + 1
            e == [kind |-> "for", at |-> "head", hasElse |-> hasElse,
                  loop |-> i, key |-> k, value |-> v]
<1>1. /\ UNCHANGED <<shadowValues, frames, phase>> /\ forCounter' = i
      /\ Refer(x) /\ phase = "visiting" /\ nest' = Append(nest, e)
      /\ nest # <<>> => Inner.at # "head"
      /\ Len(source) < MaxNodes
  BY DEF BeginFor, Statements, NextNumber, Room
<1>2. /\ Len(source) \in Nat /\ Len(nest) \in Nat /\ forCounter \in Nat /\ MaxNodes \in Nat
      /\ Depth \in Nat /\ Depth' = Depth
  BY <1>1 DEF JsInv, Numbered, TypeOK, JsAssumption, Depth
<1>3. TypeOK'
  BY <1>1, <1>2, ReferenceType DEF JsInv, TypeOK
<1>4. source' \in Seq(NodeType) /\ Len(source') = Len(source) + 1
  <2>1. [op |-> "for", key |-> k, value |-> v, name |-> x] \in NodeType
    BY DEF NodeType
  <2>. QED  BY <2>1, NodeAppended DEF BeginFor, JsInv, Numbered
<1>5. e \in Entry /\ e.kind = "for" /\ e.at = "head" /\ e.loop = i
  BY <1>2 DEF Entry, ForEntry
<1>. HIDE DEF e
<1>6. /\ nest' \in Seq(Entry) /\ Len(nest') = Len(nest) + 1
      /\ nest'[Len(nest) + 1] = e
      /\ \A j \in 1 .. Len(nest) : nest'[j] = nest[j]
  BY <1>1, <1>5, Pushed DEF JsInv
<1>7. \A j \in 1 .. Len(nest) : IsFor(j) => nest[j].at # "head"
  BY <1>1, <1>2, InnerFacts DEF JsInv, Numbered
<1>8. Numbered'
  <2>1. forCounter' <= Len(source') /\ forCounter' <= MaxNodes
    BY <1>1, <1>2, <1>4 DEF JsInv, Numbered
  <2>2. \A j \in 1 .. Len(nest') : nest'[j].kind = "for" => nest'[j].loop \in 1 .. forCounter'
    BY <1>1, <1>2, <1>5, <1>6 DEF JsInv, Numbered, IsFor
  <2>3. ASSUME NEW a \in 1 .. Len(nest'), NEW b \in 1 .. Len(nest'), a < b,
               nest'[a].kind = "for"
        PROVE  /\ nest'[a].at # "head"
               /\ nest'[b].kind = "for" => nest'[a].loop < nest'[b].loop
    <3>1. a \in 1 .. Len(nest) /\ nest'[a] = nest[a]
      BY <1>2, <1>6, <2>3
    <3>2. nest[a].at # "head" /\ nest[a].loop \in 1 .. forCounter
      BY <1>7, <2>3, <3>1 DEF JsInv, Numbered, IsFor
    <3>3. CASE b = Len(nest) + 1
      BY <1>2, <1>5, <1>6, <3>1, <3>2, <3>3
    <3>4. CASE b \in 1 .. Len(nest)
      BY <1>6, <2>3, <3>1, <3>2, <3>4 DEF JsInv, Numbered, IsFor
    <3>. QED  BY <1>2, <1>6, <3>3, <3>4
  <2>4. \A a, b \in 1 .. Depth' : a < b => frames'[a].loop < frames'[b].loop
    BY <1>1, <1>2 DEF JsInv, Numbered
  <2>. QED  BY <1>4, <2>1, <2>2, <2>3, <2>4 DEF Numbered, IsFor
<1>9. Matched'
  <2>1. ASSUME NEW j \in 1 .. Len(nest'), nest'[j].kind = "for", nest'[j].at # "head"
        PROVE  \E a \in 1 .. Depth : /\ frames'[a].loop = nest'[j].loop
                                     /\ frames'[a].stage = "body" <=> nest'[j].at = "body"
    <3>1. j \in 1 .. Len(nest) /\ nest'[j] = nest[j]
      BY <1>2, <1>5, <1>6, <2>1
    <3>. QED  BY <1>1, <2>1, <3>1 DEF JsInv, Matched, Started, IsFor
  <2>2. ASSUME NEW a \in 1 .. Depth
        PROVE  \E j \in 1 .. Len(nest') : /\ nest'[j].kind = "for" /\ nest'[j].at # "head"
                                          /\ nest'[j].loop = frames'[a].loop
    <3>1. PICK j \in 1 .. Len(nest) : Started(j) /\ nest[j].loop = frames[a].loop
      BY DEF JsInv, Matched
    <3>. QED  BY <1>1, <1>2, <1>6, <3>1 DEF Started, IsFor
  <2>. QED  BY <1>2, <2>1, <2>2 DEF Matched, Started, IsFor
<1>10. \A j \in 0 .. Depth : Around(j)' = Around(j)
  BY <1>1, <1>2 DEF Around
<1>11. BaseIsEmpty'
  <2>1. Around(0)' = Around(0)
    BY <1>2, <1>10
  <2>. QED  BY <1>1, <2>1 DEF JsInv, BaseIsEmpty
<1>12. RestoresShadows'
  BY <1>1, <1>2, <1>10 DEF JsInv, RestoresShadows
<1>. QED  BY <1>3, <1>6, <1>8, <1>9, <1>11, <1>12 DEF JsInv

\* The activation that EnterBody adds.
LEMMA EnterBodyFrame ==
    ASSUME JsAssumption, JsInv, EnterBody
    PROVE  LET f == frames'[Depth + 1]
           IN  /\ frames' = Append(frames, f) /\ f \in Frame
               /\ f.loop = Inner.loop /\ f.stage = "body" /\ f.before = shadowValues
               /\ f.key = Inner.key /\ f.value = Inner.value
               /\ f.oldKey = Shadow(Inner.key) /\ f.oldValue = shadowValues[Inner.value]
               /\ Inner \in ForEntry
               /\ Depth \in Nat /\ Depth' = Depth + 1
               /\ \A j \in 1 .. Depth : frames'[j] = frames[j]
<1>. DEFINE g == [loop |-> Inner.loop, key |-> Inner.key, value |-> Inner.value,
                  oldKey |-> Shadow(Inner.key), oldValue |-> shadowValues[Inner.value],
                  stage |-> "body", before |-> shadowValues]
<1>1. /\ frames' = Append(frames, g) /\ nest # <<>> /\ Inner.at = "head"
      /\ frames \in Seq(Frame) /\ Depth \in Nat
      /\ shadowValues \in [Name -> Id \cup {Null}] /\ nest \in Seq(Entry)
  BY DEF EnterBody, JsInv, TypeOK, Depth
<1>2. Inner \in ForEntry
  BY <1>1, InnerFacts, EntryFacts
<1>3. Inner.loop \in Nat /\ Inner.key \in Name \cup {None} /\ Inner.value \in Name
  BY <1>2 DEF ForEntry
<1>4. Shadow(Inner.key) \in Id \cup {Null} /\ shadowValues[Inner.value] \in Id \cup {Null}
  BY <1>1, <1>3 DEF Shadow
<1>5. g \in Frame
  BY <1>1, <1>3, <1>4 DEF Frame
<1>6. /\ g.loop = Inner.loop /\ g.stage = "body" /\ g.before = shadowValues
      /\ g.key = Inner.key /\ g.value = Inner.value
      /\ g.oldKey = Shadow(Inner.key) /\ g.oldValue = shadowValues[Inner.value]
  OBVIOUS
<1>. HIDE DEF g
<1>7. /\ frames'[Depth + 1] = g /\ Depth' = Depth + 1
      /\ \A j \in 1 .. Depth : frames'[j] = frames[j]
  BY <1>1, <1>5 DEF Depth
<1>. QED  BY <1>1, <1>2, <1>5, <1>6, <1>7

\* The body is begun: what the loop's variables hid is saved.
LEMMA EnterBodyJsInv ==
    ASSUME JsAssumption, JsInv, EnterBody
    PROVE  JsInv'
<1>. DEFINE f == frames'[Depth + 1]
            k == Inner.key
            v == Inner.value
            n == Inner.loop
<1>0. frames' = Append(frames, f) /\ f \in Frame /\ Inner \in ForEntry
  BY EnterBodyFrame
<1>1. /\ Depth \in Nat /\ Depth' = Depth + 1
      /\ \A j \in 1 .. Depth : frames'[j] = frames[j]
  BY EnterBodyFrame
<1>13. /\ f.loop = n /\ f.stage = "body" /\ f.before = shadowValues
       /\ f.key = k /\ f.value = v
       /\ f.oldKey = Shadow(k) /\ f.oldValue = shadowValues[v]
  BY EnterBodyFrame
<1>2. /\ UNCHANGED <<forCounter, phase, reference, source>>
      /\ phase = "visiting" /\ nest # <<>> /\ Inner.at = "head" /\ Move("body")
      /\ nest \in Seq(Entry) /\ frames \in Seq(Frame)
      /\ shadowValues \in [Name -> Id \cup {Null}]
      /\ shadowValues' = Overwrite(shadowValues, k, KeyOf(n), v, ValueOf(n))
  BY DEF EnterBody, JsInv, TypeOK
<1>3. /\ n \in Nat /\ k \in Name \cup {None} /\ v \in Name /\ Inner.kind = "for"
      /\ Inner = nest[Len(nest)] /\ Len(nest) \in Nat /\ Len(nest) > 0
  BY <1>0, <1>2, InnerFacts DEF ForEntry
<1>. HIDE DEF f, k, v, n
<1>4. TypeOK'
  <2>1. frames' \in Seq(Frame)
    BY <1>0, <1>2
  <2>2. KeyOf(n) \in Id \cup {Null} /\ ValueOf(n) \in Id \cup {Null}
    BY <1>3 DEF KeyOf, ValueOf, Id
  <2>3. shadowValues' \in [Name -> Id \cup {Null}]
    BY <1>2, <2>2, MapTypes
  <2>. QED  BY <1>2, <2>1, <2>3 DEF JsInv, TypeOK
<1>5. /\ nest' \in Seq(Entry) /\ Len(nest') = Len(nest)
      /\ \A i \in 1 .. Len(nest) - 1 : nest'[i] = nest[i]
      /\ nest'[Len(nest)].kind = "for" /\ nest'[Len(nest)].at = "body"
      /\ nest'[Len(nest)].loop = n
  BY <1>2, <1>3, Moved DEF n
<1>6. \A i \in 1 .. Len(nest) : /\ nest'[i].kind = nest[i].kind
                                /\ IsFor(i) => nest'[i].loop = nest[i].loop
                                /\ nest'[i].kind = "for" => nest'[i].at # "head"
  <2>. SUFFICES ASSUME NEW i \in 1 .. Len(nest)
                PROVE  /\ nest'[i].kind = nest[i].kind
                       /\ IsFor(i) => nest'[i].loop = nest[i].loop
                       /\ nest'[i].kind = "for" => nest'[i].at # "head"
    OBVIOUS
  <2>1. CASE i = Len(nest)
    BY <1>3, <1>5, <2>1 DEF n
  <2>2. CASE i \in 1 .. Len(nest) - 1
    <3>1. nest'[i] = nest[i] /\ i < Len(nest) /\ Len(nest) \in 1 .. Len(nest)
      BY <1>3, <1>5, <2>2
    <3>. QED  BY <3>1 DEF JsInv, Numbered, IsFor
  <2>. QED  BY <1>3, <2>1, <2>2
<1>7. \A j \in 1 .. Depth : frames[j].loop < n
  <2>. SUFFICES ASSUME NEW j \in 1 .. Depth PROVE frames[j].loop < n
    OBVIOUS
  <2>1. PICK i \in 1 .. Len(nest) : Started(i) /\ nest[i].loop = frames[j].loop
    BY DEF JsInv, Matched
  <2>2. i < Len(nest)
    BY <1>2, <1>3, <2>1 DEF Started
  <2>. QED  BY <1>3, <2>1, <2>2 DEF JsInv, Numbered, Started, IsFor, n
<1>8. Numbered'
  <2>1. \A i \in 1 .. Len(nest') : nest'[i].kind = "for" => nest'[i].loop \in 1 .. forCounter'
    BY <1>2, <1>5, <1>6 DEF JsInv, Numbered, IsFor
  <2>2. \A i, j \in 1 .. Len(nest') :
           i < j /\ nest'[i].kind = "for" =>
              /\ nest'[i].at # "head"
              /\ nest'[j].kind = "for" => nest'[i].loop < nest'[j].loop
    BY <1>5, <1>6, SMTT(60) DEF JsInv, Numbered, IsFor
  <2>3. ASSUME NEW i \in 1 .. Depth + 1, NEW j \in 1 .. Depth + 1, i < j
        PROVE  frames'[i].loop < frames'[j].loop
    <3>1. i \in 1 .. Depth /\ frames'[i] = frames[i]
      BY <1>1, <2>3
    <3>2. CASE j = Depth + 1
      BY <1>7, <1>13, <3>1, <3>2 DEF f
    <3>3. CASE j \in 1 .. Depth
      BY <1>1, <2>3, <3>1, <3>3 DEF JsInv, Numbered
    <3>. QED  BY <1>1, <3>2, <3>3
  <2>. QED  BY <1>1, <1>2, <2>1, <2>2, <2>3 DEF JsInv, Numbered, IsFor
<1>9. Matched'
  <2>1. ASSUME NEW i \in 1 .. Len(nest'), nest'[i].kind = "for"
        PROVE  \E j \in 1 .. Depth + 1 : /\ frames'[j].loop = nest'[i].loop
                                         /\ frames'[j].stage = "body" <=> nest'[i].at = "body"
    <3>1. CASE i = Len(nest)
      <4>1. Depth + 1 \in 1 .. Depth + 1
        BY <1>1
      <4>. QED  BY <1>5, <1>13, <3>1, <4>1 DEF f
    <3>2. CASE i \in 1 .. Len(nest) - 1
      <4>1. nest'[i] = nest[i] /\ i \in 1 .. Len(nest) /\ Started(i)
        BY <1>3, <1>5, <1>6, <2>1, <3>2 DEF Started, IsFor
      <4>2. PICK j \in 1 .. Depth : /\ frames[j].loop = nest[i].loop
                                    /\ frames[j].stage = "body" <=> nest[i].at = "body"
        BY <4>1 DEF JsInv, Matched
      <4>3. j \in 1 .. Depth + 1 /\ frames'[j] = frames[j]
        BY <1>1
      <4>. QED  BY <4>1, <4>2, <4>3
    <3>. QED  BY <1>3, <1>5, <3>1, <3>2
  <2>2. ASSUME NEW j \in 1 .. Depth + 1
        PROVE  \E i \in 1 .. Len(nest') : /\ nest'[i].kind = "for" /\ nest'[i].at # "head"
                                          /\ nest'[i].loop = frames'[j].loop
    <3>1. CASE j = Depth + 1
      <4>1. Len(nest) \in 1 .. Len(nest')
        BY <1>3, <1>5
      <4>. QED  BY <1>5, <1>13, <3>1, <4>1 DEF f
    <3>2. CASE j \in 1 .. Depth
      <4>1. PICK i \in 1 .. Len(nest) : Started(i) /\ nest[i].loop = frames[j].loop
        BY <3>2 DEF JsInv, Matched
      <4>2. i \in 1 .. Len(nest') /\ nest'[i].kind = "for" /\ nest'[i].at # "head"
        BY <1>5, <1>6, <4>1 DEF Started, IsFor
      <4>3. nest'[i].loop = frames'[j].loop
        BY <1>1, <1>6, <3>2, <4>1 DEF Started
      <4>. QED  BY <4>2, <4>3
    <3>. QED  BY <1>1, <3>1, <3>2
  <2>. QED  BY <1>1, <2>1, <2>2 DEF Matched, Started, IsFor
<1>10. \A j \in 0 .. Depth : Around(j)' = Around(j)
  BY <1>1, <1>13 DEF Around, f
<1>11. RestoresShadows'
  <2>1. ASSUME NEW j \in 1 .. Depth + 1
        PROVE  IF frames'[j].stage = "body"
               THEN Restored(Around(j)', frames'[j].key, frames'[j].oldKey,
                             frames'[j].value, frames'[j].oldValue) = frames'[j].before
               ELSE Around(j)' = frames'[j].before
    <3>1. CASE j \in 1 .. Depth
      BY <1>1, <1>10, <3>1 DEF JsInv, RestoresShadows
    <3>2. CASE j = Depth + 1
      <4>1. Around(j)' = Overwrite(shadowValues, k, KeyOf(n), v, ValueOf(n))
        BY <1>1, <1>2, <3>2 DEF Around
      <4>2. Shadow(k) = IF k = None THEN Null ELSE shadowValues[k]
        BY DEF Shadow
      <4>3. Restored(Around(j)', k, Shadow(k), v, shadowValues[v]) = shadowValues
        BY <1>2, <4>1, <4>2 DEF Overwrite, Restored, JsAssumption
      <4>. QED  BY <1>13, <3>2, <4>3 DEF f
    <3>. QED  BY <1>1, <3>1, <3>2
  <2>. QED  BY <1>1, <1>2, <2>1 DEF RestoresShadows
<1>12. BaseIsEmpty'
  <2>1. Around(0)' = Around(0)
    BY <1>1, <1>10
  <2>. QED  BY <1>2, <2>1 DEF JsInv, BaseIsEmpty
<1>. QED  BY <1>4, <1>5, <1>8, <1>9, <1>11, <1>12 DEF JsInv

\* What EndBody does to the activations.
LEMMA EndBodyFrames ==
    ASSUME JsInv, EndBody
    PROVE  /\ nest # <<>> /\ Started(Len(nest)) /\ Inner.kind = "for"
           /\ Depth \in Nat /\ Depth > 0 /\ Depth' = Depth
           /\ frames' \in Seq(Frame)
           /\ Top.loop = Inner.loop /\ Top.stage = "body"
           /\ shadowValues' = frames[Depth].before
           /\ shadowValues' \in [Name -> Id \cup {Null}]
           /\ frames'[Depth].stage = "else"
           /\ \A j \in 1 .. Depth : /\ frames'[j].loop = frames[j].loop
                                    /\ frames'[j].before = frames[j].before
           /\ \A j \in 1 .. Depth - 1 : frames'[j] = frames[j]
<1>1. nest # <<>> /\ Inner.at = "body" /\ nest \in Seq(Entry)
  BY DEF EndBody, JsInv
<1>2. Inner.kind = "for" /\ Inner = nest[Len(nest)]
  BY <1>1, InnerFacts, EntryFacts
<1>3. Started(Len(nest))
  BY <1>1, <1>2 DEF Started, IsFor
<1>4. /\ Depth \in Nat /\ Depth > 0
      /\ frames \in Seq(Frame) /\ Top \in Frame /\ Top = frames[Depth]
      /\ Top.loop = Inner.loop /\ Top.stage = "body"
  BY <1>1, <1>3, TopIsInner
<1>5. shadowValues' = Top.before
  <2>1. Depth \in 1 .. Depth /\ Around(Depth) = shadowValues
    BY <1>4 DEF Around
  <2>2. Restored(shadowValues, Top.key, Top.oldKey, Top.value, Top.oldValue) = Top.before
    BY <1>4, <2>1 DEF JsInv, RestoresShadows
  <2>. QED  BY <2>2 DEF EndBody
<1>. DEFINE g == [Top EXCEPT !.stage = "else"]
<1>6. /\ g \in Frame /\ g.stage = "else" /\ g.loop = Top.loop /\ g.before = Top.before
      /\ Top.before \in [Name -> Id \cup {Null}]
  BY <1>4 DEF Frame
<1>7. frames' = [frames EXCEPT ![Depth] = g]
  BY <1>4 DEF EndBody
<1>. HIDE DEF g
<1>8. /\ frames' \in Seq(Frame) /\ Depth' = Depth /\ frames'[Depth] = g
      /\ \A j \in 1 .. Depth - 1 : frames'[j] = frames[j]
  BY <1>4, <1>6, <1>7 DEF Depth
<1>9. ASSUME NEW j \in 1 .. Depth
      PROVE  frames'[j].loop = frames[j].loop /\ frames'[j].before = frames[j].before
  BY <1>4, <1>6, <1>8
<1>. QED  BY <1>1, <1>2, <1>3, <1>4, <1>5, <1>6, <1>8, <1>9

\* The map is as the loop found it, and stays so in the else body.
LEMMA EndBodyJsInv ==
    ASSUME JsInv, EndBody
    PROVE  JsInv'
<1>1. /\ nest # <<>> /\ Started(Len(nest)) /\ Inner.kind = "for"
      /\ Top.loop = Inner.loop /\ Top.stage = "body"
  BY EndBodyFrames
<1>2. /\ Depth \in Nat /\ Depth > 0 /\ Depth' = Depth
      /\ \A j \in 1 .. Depth : /\ frames'[j].loop = frames[j].loop
                               /\ frames'[j].before = frames[j].before
      /\ \A j \in 1 .. Depth - 1 : frames'[j] = frames[j]
      /\ frames'[Depth].stage = "else"
  BY EndBodyFrames
<1>3. shadowValues' = frames[Depth].before /\ shadowValues' \in [Name -> Id \cup {Null}]
  BY EndBodyFrames
<1>4. /\ UNCHANGED <<forCounter, phase, reference>> /\ phase = "visiting"
      /\ nest \in Seq(Entry) /\ source \in Seq(NodeType) /\ Len(source) \in Nat
  BY DEF EndBody, JsInv, Numbered
<1>5. \/ Move("else") /\ Node([op |-> "else"])
      \/ Move("tail") /\ UNCHANGED source
  BY DEF EndBody
<1>6. TypeOK'
  <2>1. frames' \in Seq(Frame)
    BY EndBodyFrames
  <2>. QED  BY <1>3, <1>4, <2>1 DEF JsInv, TypeOK
<1>7. source' \in Seq(NodeType) /\ Len(source') \in Nat /\ Len(source) <= Len(source')
  <2>1. [op |-> "else"] \in NodeType
    BY DEF NodeType
  <2>. QED  BY <1>4, <1>5, <2>1, NodeAppended
<1>8. /\ nest' \in Seq(Entry) /\ Len(nest') = Len(nest)
      /\ \A i \in 1 .. Len(nest) - 1 : nest'[i] = nest[i]
      /\ nest'[Len(nest)].kind = "for" /\ nest'[Len(nest)].at \in {"else", "tail"}
      /\ nest'[Len(nest)].loop = Inner.loop
  BY <1>1, <1>4, <1>5, Moved
<1>9. Len(nest) \in Nat /\ Len(nest) > 0 /\ Inner = nest[Len(nest)]
  BY <1>1, <1>4, InnerFacts
<1>10. \A i \in 1 .. Len(nest) : /\ nest'[i].kind = nest[i].kind
                                 /\ IsFor(i) => nest'[i].loop = nest[i].loop
                                 /\ nest'[i].kind = "for" => nest'[i].at # "head"
  <2>. SUFFICES ASSUME NEW i \in 1 .. Len(nest)
                PROVE  /\ nest'[i].kind = nest[i].kind
                       /\ IsFor(i) => nest'[i].loop = nest[i].loop
                       /\ nest'[i].kind = "for" => nest'[i].at # "head"
    OBVIOUS
  <2>1. CASE i = Len(nest)
    BY <1>1, <1>8, <1>9, <2>1
  <2>2. CASE i \in 1 .. Len(nest) - 1
    <3>1. nest'[i] = nest[i] /\ i < Len(nest) /\ Len(nest) \in 1 .. Len(nest)
      BY <1>8, <1>9, <2>2
    <3>. QED  BY <3>1 DEF JsInv, Numbered, IsFor
  <2>. QED  BY <1>9, <2>1, <2>2
<1>11. Numbered'
  <2>1. \A i \in 1 .. Len(nest') : nest'[i].kind = "for" => nest'[i].loop \in 1 .. forCounter'
    BY <1>4, <1>8, <1>10 DEF JsInv, Numbered, IsFor
  <2>2. \A i, j \in 1 .. Len(nest') :
           i < j /\ nest'[i].kind = "for" =>
              /\ nest'[i].at # "head"
              /\ nest'[j].kind = "for" => nest'[i].loop < nest'[j].loop
    BY <1>8, <1>10, ZenonT(60) DEF JsInv, Numbered, IsFor
  <2>3. \A i, j \in 1 .. Depth' : i < j => frames'[i].loop < frames'[j].loop
    BY <1>2 DEF JsInv, Numbered
  <2>4. forCounter' <= Len(source') /\ forCounter' <= MaxNodes
    BY <1>4, <1>7 DEF JsInv, Numbered, TypeOK
  <2>. QED  BY <1>7, <2>1, <2>2, <2>3, <2>4 DEF Numbered, IsFor
<1>12. Matched'
  <2>1. ASSUME NEW i \in 1 .. Len(nest'), nest'[i].kind = "for"
        PROVE  \E j \in 1 .. Depth : /\ frames'[j].loop = nest'[i].loop
                                     /\ frames'[j].stage = "body" <=> nest'[i].at = "body"
    <3>1. CASE i = Len(nest)
      <4>1. Depth \in 1 .. Depth /\ frames'[Depth].loop = Inner.loop
        BY <1>1, <1>2 DEF Top
      <4>. QED  BY <1>2, <1>8, <3>1, <4>1
    <3>2. CASE i \in 1 .. Len(nest) - 1
      <4>1. nest'[i] = nest[i] /\ i \in 1 .. Len(nest) /\ Started(i) /\ i < Len(nest)
        BY <1>8, <1>9, <1>10, <2>1, <3>2 DEF Started, IsFor
      <4>2. PICK j \in 1 .. Depth : /\ frames[j].loop = nest[i].loop
                                    /\ frames[j].stage = "body" <=> nest[i].at = "body"
        BY <4>1 DEF JsInv, Matched
      <4>3. nest[i].loop < Inner.loop /\ Inner.loop \in Nat
        BY <1>1, <1>9, <4>1 DEF JsInv, Numbered, Started, IsFor
      <4>4. j # Depth
        BY <1>1, <4>2, <4>3 DEF Top
      <4>5. frames'[j] = frames[j]
        BY <1>2, <4>4
      <4>. QED  BY <4>1, <4>2, <4>5
    <3>. QED  BY <1>8, <1>9, <3>1, <3>2
  <2>2. ASSUME NEW j \in 1 .. Depth
        PROVE  \E i \in 1 .. Len(nest') : /\ nest'[i].kind = "for" /\ nest'[i].at # "head"
                                          /\ nest'[i].loop = frames'[j].loop
    <3>1. PICK i \in 1 .. Len(nest) : Started(i) /\ nest[i].loop = frames[j].loop
      BY DEF JsInv, Matched
    <3>2. i \in 1 .. Len(nest') /\ nest'[i].kind = "for" /\ nest'[i].at # "head"
      BY <1>8, <1>10, <3>1 DEF Started, IsFor
    <3>3. nest'[i].loop = frames'[j].loop
      BY <1>2, <1>10, <3>1 DEF Started
    <3>. QED  BY <3>2, <3>3
  <2>. QED  BY <1>2, <2>1, <2>2 DEF Matched, Started, IsFor
<1>13. \A j \in 0 .. Depth - 1 : Around(j)' = Around(j)
  BY <1>2 DEF Around
<1>14. RestoresShadows'
  <2>1. Around(Depth)' = shadowValues'
    BY <1>2 DEF Around
  <2>2. ASSUME NEW j \in 1 .. Depth
        PROVE  IF frames'[j].stage = "body"
               THEN Restored(Around(j)', frames'[j].key, frames'[j].oldKey,
                             frames'[j].value, frames'[j].oldValue) = frames'[j].before
               ELSE Around(j)' = frames'[j].before
    <3>1. CASE j = Depth
      BY <1>2, <1>3, <2>1, <3>1
    <3>2. CASE j # Depth
      <4>1. frames'[j] = frames[j] /\ Around(j)' = Around(j)
        BY <1>2, <1>13, <3>2
      <4>. QED  BY <4>1 DEF JsInv, RestoresShadows
    <3>. QED  BY <3>1, <3>2
  <2>. QED  BY <1>2, <1>4, <2>2 DEF RestoresShadows
<1>15. BaseIsEmpty'
  <2>1. Around(0)' = Around(0)
    BY <1>2, <1>13
  <2>. QED  BY <1>4, <2>1 DEF JsInv, BaseIsEmpty
<1>. QED  BY <1>6, <1>8, <1>11, <1>12, <1>14, <1>15 DEF JsInv

\* What EndFor does to the activations.
LEMMA EndForFrames ==
    ASSUME JsInv, EndFor
    PROVE  /\ nest # <<>> /\ Started(Len(nest)) /\ Inner.kind = "for"
           /\ Depth \in Nat /\ Depth > 0 /\ Depth' = Depth - 1
           /\ Top.loop = Inner.loop
           /\ shadowValues = frames[Depth].before /\ shadowValues' = shadowValues
           /\ frames' \in Seq(Frame)
           /\ \A j \in 1 .. Depth - 1 : frames'[j] = frames[j]
<1>1. /\ nest # <<>> /\ Inner.kind = "for" /\ Inner.at \in {"else", "tail"}
      /\ nest \in Seq(Entry) /\ shadowValues' = shadowValues
  BY DEF EndFor, JsInv
<1>2. Started(Len(nest))
  BY <1>1, InnerFacts DEF Started, IsFor
<1>3. /\ Depth \in Nat /\ Depth > 0
      /\ frames \in Seq(Frame) /\ Top = frames[Depth]
      /\ Top.loop = Inner.loop /\ Top.stage # "body"
  BY <1>1, <1>2, TopIsInner
<1>4. shadowValues = Top.before
  <2>1. Depth \in 1 .. Depth /\ Around(Depth) = shadowValues
    BY <1>3 DEF Around
  <2>. QED  BY <1>3, <2>1 DEF JsInv, RestoresShadows
<1>5. frames' = [j \in 1 .. Depth - 1 |-> frames[j]]
  BY <1>3 DEF EndFor, Depth
<1>6. /\ frames' \in Seq(Frame) /\ Depth' = Depth - 1
      /\ \A j \in 1 .. Depth - 1 : frames'[j] = frames[j]
  BY <1>3, <1>5 DEF Depth
<1>. QED  BY <1>1, <1>2, <1>3, <1>4, <1>6

LEMMA EndForJsInv ==
    ASSUME JsInv, EndFor
    PROVE  JsInv'
<1>1. nest # <<>> /\ Started(Len(nest)) /\ Inner.kind = "for" /\ Top.loop = Inner.loop
  BY EndForFrames
<1>2. /\ Depth \in Nat /\ Depth > 0 /\ Depth' = Depth - 1
      /\ \A j \in 1 .. Depth - 1 : frames'[j] = frames[j]
      /\ shadowValues = frames[Depth].before /\ shadowValues' = shadowValues
  BY EndForFrames
<1>3. /\ UNCHANGED <<forCounter, phase, reference>> /\ phase = "visiting" /\ Close
      /\ nest \in Seq(Entry) /\ source \in Seq(NodeType) /\ Len(source) \in Nat
  BY DEF EndFor, JsInv, Numbered
<1>4. TypeOK'
  <2>1. frames' \in Seq(Frame)
    BY EndForFrames
  <2>. QED  BY <1>2, <1>3, <2>1 DEF JsInv, TypeOK
<1>5. source' \in Seq(NodeType) /\ Len(source') = Len(source) + 1
  <2>1. [op |-> "end"] \in NodeType
    BY DEF NodeType
  <2>. QED  BY <1>3, <2>1, NodeAppended DEF EndFor
<1>6. /\ nest' \in Seq(Entry) /\ Len(nest') = Len(nest) - 1
      /\ \A i \in 1 .. Len(nest) - 1 : nest'[i] = nest[i]
  BY <1>1, <1>3, Closed
<1>7. Len(nest) \in Nat /\ Len(nest) > 0 /\ Inner = nest[Len(nest)]
  BY <1>1, <1>3, InnerFacts
<1>8. Numbered'
  <2>1. \A i \in 1 .. Len(nest') : nest'[i].kind = "for" => nest'[i].loop \in 1 .. forCounter'
    BY <1>3, <1>6, <1>7 DEF JsInv, Numbered, IsFor
  <2>2. \A i, j \in 1 .. Len(nest') :
           i < j /\ nest'[i].kind = "for" =>
              /\ nest'[i].at # "head"
              /\ nest'[j].kind = "for" => nest'[i].loop < nest'[j].loop
    BY <1>6, <1>7, SMTT(60) DEF JsInv, Numbered, IsFor
  <2>3. \A i, j \in 1 .. Depth' : i < j => frames'[i].loop < frames'[j].loop
    BY <1>2 DEF JsInv, Numbered
  <2>4. forCounter' <= Len(source') /\ forCounter' <= MaxNodes
    BY <1>3, <1>5 DEF JsInv, Numbered, TypeOK
  <2>. QED  BY <1>5, <2>1, <2>2, <2>3, <2>4 DEF Numbered, IsFor
<1>9. Matched'
  <2>1. ASSUME NEW i \in 1 .. Len(nest'), nest'[i].kind = "for", nest'[i].at # "head"
        PROVE  \E j \in 1 .. Depth - 1 : /\ frames'[j].loop = nest'[i].loop
                                         /\ frames'[j].stage = "body" <=> nest'[i].at = "body"
    <3>1. nest'[i] = nest[i] /\ i \in 1 .. Len(nest) /\ Started(i) /\ i < Len(nest)
      BY <1>6, <1>7, <2>1 DEF Started, IsFor
    <3>2. PICK j \in 1 .. Depth : /\ frames[j].loop = nest[i].loop
                                  /\ frames[j].stage = "body" <=> nest[i].at = "body"
      BY <3>1 DEF JsInv, Matched
    <3>3. nest[i].loop < Inner.loop /\ Inner.loop \in Nat
      BY <1>1, <1>7, <3>1 DEF JsInv, Numbered, Started, IsFor
    <3>4. j # Depth
      BY <1>1, <3>2, <3>3 DEF Top
    <3>5. j \in 1 .. Depth - 1 /\ frames'[j] = frames[j]
      BY <1>2, <3>4
    <3>. QED  BY <3>1, <3>2, <3>5
  <2>2. ASSUME NEW j \in 1 .. Depth - 1
        PROVE  \E i \in 1 .. Len(nest') : /\ nest'[i].kind = "for" /\ nest'[i].at # "head"
                                          /\ nest'[i].loop = frames'[j].loop
    <3>0. j \in 1 .. Depth /\ j < Depth /\ Depth \in 1 .. Depth /\ frames'[j] = frames[j]
      BY <1>2
    <3>1. PICK i \in 1 .. Len(nest) : Started(i) /\ nest[i].loop = frames[j].loop
      BY <3>0 DEF JsInv, Matched
    <3>2. frames[j].loop < Inner.loop
      BY <1>1, <3>0 DEF JsInv, Numbered, Top
    <3>3. Inner.loop \in Nat
      BY <1>1, <1>7 DEF JsInv, Numbered, Started
    <3>4. i # Len(nest)
      BY <1>7, <3>1, <3>2, <3>3
    <3>5. i \in 1 .. Len(nest') /\ nest'[i] = nest[i]
      BY <1>6, <1>7, <3>4
    <3>. QED  BY <3>0, <3>1, <3>5 DEF Started, IsFor
  <2>. QED  BY <1>2, <2>1, <2>2 DEF Matched, Started, IsFor
<1>10. \A j \in 0 .. Depth - 1 : Around(j)' = Around(j)
  BY <1>2 DEF Around
<1>11. RestoresShadows'
  <2>1. ASSUME NEW j \in 1 .. Depth - 1
        PROVE  IF frames'[j].stage = "body"
               THEN Restored(Around(j)', frames'[j].key, frames'[j].oldKey,
                             frames'[j].value, frames'[j].oldValue) = frames'[j].before
               ELSE Around(j)' = frames'[j].before
    <3>1. frames'[j] = frames[j] /\ Around(j)' = Around(j) /\ j \in 1 .. Depth
      BY <1>2, <1>10
    <3>. QED  BY <3>1 DEF JsInv, RestoresShadows
  <2>. QED  BY <1>2, <1>3, <2>1 DEF RestoresShadows
<1>12. BaseIsEmpty'
  <2>1. Around(0)' = Around(0)
    BY <1>2, <1>10
  <2>. QED  BY <1>3, <2>1 DEF JsInv, BaseIsEmpty
<1>. QED  BY <1>4, <1>6, <1>8, <1>9, <1>11, <1>12 DEF JsInv

\* The walk is abandoned.
LEMMA IncludeJsInv ==
    ASSUME JsInv, Include
    PROVE  JsInv'
<1>1. /\ UNCHANGED <<shadowValues, forCounter, reference, source>> /\ phase' = "thrown"
      /\ frames' = <<>> /\ nest' = <<>> /\ Depth' = 0 /\ Len(nest') = 0
  BY DEF Include, Depth
<1>2. frames' \in Seq(Frame) /\ nest' \in Seq(Entry)
  BY <1>1
<1>3. TypeOK'
  BY <1>1, <1>2 DEF JsInv, TypeOK
<1>4. Numbered' /\ Matched'
  BY <1>1 DEF JsInv, Numbered, Matched
<1>5. RestoresShadows' /\ BaseIsEmpty'
  BY <1>1 DEF RestoresShadows, BaseIsEmpty
<1>. QED  BY <1>2, <1>3, <1>4, <1>5 DEF JsInv

LEMMA StepJsInv ==
    ASSUME JsAssumption, JsInv, [Next]_vars
    PROVE  JsInv'
<1>1. CASE Visit
  BY <1>1, QuietJsInv DEF Visit, JsInv, BaseIsEmpty
<1>2. CASE Finish
  BY <1>2, QuietJsInv DEF Finish, Statements
<1>3. CASE UNCHANGED vars
  BY <1>3, QuietJsInv DEF vars, JsInv, BaseIsEmpty, TypeOK
<1>4. CASE \E x \in Name : PrintBlock(x) \/ ElseIf(x)
  BY <1>4, PrintBlockJsInv
<1>5. CASE \E x \in Name : BeginIf(x)
  BY <1>5, BeginIfJsInv
<1>6. CASE Else
  BY <1>6, ElseJsInv
<1>7. CASE EndIf
  BY <1>7, EndIfJsInv
<1>8. CASE \E k \in Name \cup {None}, v \in Name, x \in Name, e \in BOOLEAN :
              BeginFor(k, v, x, e)
  BY <1>8, BeginForJsInv
<1>9. CASE EnterBody
  BY <1>9, EnterBodyJsInv
<1>10. CASE EndBody
  BY <1>10, EndBodyJsInv
<1>11. CASE EndFor
  BY <1>11, EndForJsInv
<1>12. CASE Include
  BY <1>12, IncludeJsInv
<1>. QED  BY <1>1, <1>2, <1>3, <1>4, <1>5, <1>6, <1>7, <1>8, <1>9, <1>10, <1>11, <1>12
          DEF Next

\* The invariant holds while any template is written.
LEMMA JsInvariant == Spec => []JsInv
<1>1. Init => JsInv
  BY JsAssumption, InitJsInv
<1>2. JsInv /\ [Next]_vars => JsInv'
  BY JsAssumption, StepJsInv
<1>. QED  BY <1>1, <1>2, PTL DEF Spec

\* for_block() can always put back the shadow values it found, and none is left when
\* the template is written.
THEOREM LoopsRestoreShadows == Spec => []RestoresShadows
BY JsInvariant, PTL DEF JsInv

-----------------------------------------------------------------------------
(***************************************************************************)
(* The refinement.                                                         *)
(***************************************************************************)
AbstractMap == [Name -> Id \cup {Null, Assigned}]

ScopesShape ==
    /\ AbstractScopes \in Seq(AbstractMap)
    /\ Len(AbstractScopes) = Depth + 1
    /\ \A j \in 1 .. Depth :
          AbstractScopes[j] = AbstractScope(frames[j].before)
    /\ AbstractScopes[Depth + 1] = AbstractScope(shadowValues)

\* The abstract scopes are the maps that the activations found, outermost first, and
\* the map as it is now.
LEMMA ScopesAre == TypeOK /\ phase # "thrown" => ScopesShape
<1>. SUFFICES ASSUME TypeOK, phase # "thrown" PROVE ScopesShape
  OBVIOUS
<1>1. Depth \in Nat /\ shadowValues \in [Name -> Id \cup {Null}]
  BY DEF TypeOK, Depth
<1>2. \A j \in 1 .. Depth : frames[j].before \in [Name -> Id \cup {Null}]
  <2>1. \A j \in 1 .. Depth : frames[j] \in Frame
    BY DEF TypeOK, Depth
  <2>. QED  BY <2>1 DEF Frame
<1>3. \A map \in [Name -> Id \cup {Null}] : AbstractScope(map) \in AbstractMap
  BY DEF AbstractScope, AbstractValue, AbstractMap
<1>4. AbstractScopes = [j \in 1 .. Depth + 1 |->
         AbstractScope(IF j = Depth + 1 THEN shadowValues ELSE frames[j].before)]
  BY DEF AbstractScopes
<1>5. \A j \in 1 .. Depth + 1 :
         AbstractScope(IF j = Depth + 1 THEN shadowValues ELSE frames[j].before)
            \in AbstractMap
  BY <1>1, <1>2, <1>3
<1>6. AbstractScopes \in Seq(AbstractMap) /\ Len(AbstractScopes) = Depth + 1
  BY <1>1, <1>4, <1>5
<1>7. \A j \in 1 .. Depth : AbstractScopes[j] = AbstractScope(frames[j].before)
  BY <1>1, <1>4
<1>8. AbstractScopes[Depth + 1] = AbstractScope(shadowValues)
  BY <1>1, <1>4
<1>. QED  BY <1>6, <1>7, <1>8 DEF ScopesShape

\* The same after a step.
LEMMA ScopesAreNext == (TypeOK /\ phase # "thrown" => ScopesShape)'
BY ScopesAre, PTL

\* Setting the shadow values opens a scope with the loop's variables.
LEMMA EnterBodyRefines ==
    ASSUME JsAssumption, JsInv, JsInv', EnterBody
    PROVE  S!Next
<1>. DEFINE k == Inner.key
            v == Inner.value
            i == Inner.loop
            new == [y \in Name |-> IF y = v THEN S!ValueOf(i)
                                   ELSE IF y = k THEN S!KeyOf(i)
                                        ELSE AbstractScope(shadowValues)[y]]
<1>1. /\ TypeOK /\ TypeOK' /\ phase # "thrown" /\ phase' # "thrown"
      /\ Depth \in Nat /\ Inner \in ForEntry /\ nest # <<>> /\ nest \in Seq(Entry)
  BY EnterBodyFrame DEF JsInv, EnterBody
<1>2. k \in Name \cup {None} /\ v \in Name /\ i \in 1 .. MaxNodes /\ i \in Nat
  <2>1. k \in Name \cup {None} /\ v \in Name /\ i \in Nat /\ Inner.kind = "for"
    BY <1>1 DEF ForEntry
  <2>2. Len(nest) \in 1 .. Len(nest) /\ IsFor(Len(nest)) /\ Inner = nest[Len(nest)]
    BY <1>1, <2>1, InnerFacts DEF IsFor
  <2>3. i \in 1 .. forCounter /\ forCounter <= MaxNodes /\ forCounter \in Nat
    BY <2>2 DEF JsInv, Numbered, TypeOK
  <2>. QED  BY <2>1, <2>3 DEF JsAssumption
<1>3. ScopesShape /\ ScopesShape'
  BY <1>1, ScopesAre, ScopesAreNext
<1>4. /\ Depth' = Depth + 1 /\ frames'[Depth + 1].before = shadowValues
      /\ \A j \in 1 .. Depth : frames'[j] = frames[j]
  BY EnterBodyFrame
<1>5. AbstractScope(shadowValues)' = new
  <2>1. shadowValues' = Overwrite(shadowValues, k, KeyOf(i), v, ValueOf(i))
    BY DEF EnterBody
  <2>2. KeyOf(i) # Null /\ ValueOf(i) # Null
    BY <1>2 DEF JsAssumption, KeyOf, ValueOf
  <2>. QED  BY <2>1, <2>2
            DEF AbstractScope, AbstractValue, Overwrite, KeyOf, ValueOf,
                S!KeyOf, S!ValueOf
<1>6. S!Here = AbstractScope(shadowValues)
  BY <1>3 DEF S!Here, ScopesShape
<1>7. AbstractScopes' = Append(AbstractScopes, new)
  <2>. HIDE DEF new
  <2>1. /\ AbstractScopes \in Seq(AbstractMap)
        /\ AbstractScopes' \in Seq(AbstractMap)
        /\ Len(AbstractScopes) = Depth + 1 /\ Len(AbstractScopes') = Depth + 2
        /\ AbstractScopes'[Depth + 2] = new
    BY <1>1, <1>3, <1>4, <1>5 DEF ScopesShape
  <2>2. new \in AbstractMap
    BY <1>1, <2>1
  <2>3. \A j \in 1 .. Depth : AbstractScopes'[j] = AbstractScope(frames'[j].before)
    <3>1. \A j \in 1 .. Depth : j \in 1 .. Depth'
      BY <1>1, <1>4
    <3>. QED  BY <1>3, <3>1 DEF ScopesShape, AbstractScope, AbstractValue
  <2>4. \A j \in 1 .. Depth : AbstractScopes'[j] = AbstractScopes[j]
    BY <1>3, <1>4, <2>3 DEF ScopesShape
  <2>5. AbstractScopes'[Depth + 1] = AbstractScopes[Depth + 1]
    BY <1>1, <1>3, <1>4 DEF ScopesShape, AbstractScope, AbstractValue
  <2>. QED  BY <1>1, <2>1, <2>2, <2>4, <2>5
<1>8. S!Enter(i, k, v)
  <2>1. UNCHANGED <<reference, phase>>
    BY DEF EnterBody
  <2>. QED  BY <1>6, <1>7, <2>1 DEF S!Enter, AbstractMeaning, AbstractValue
<1>. HIDE DEF i, k, v
<1>. QED  BY <1>2, <1>8 DEF S!Next

\* Restoring the old values closes the scope of the loop's variables.
LEMMA EndBodyRefines ==
    ASSUME JsInv, JsInv', EndBody
    PROVE  S!Next
<1>1. TypeOK /\ TypeOK' /\ phase # "thrown" /\ phase' # "thrown"
  BY DEF JsInv, EndBody
<1>2. ScopesShape /\ ScopesShape'
  BY <1>1, ScopesAre, ScopesAreNext
<1>3. /\ Depth \in Nat /\ Depth > 0 /\ Depth' = Depth
      /\ shadowValues' = frames[Depth].before
      /\ \A j \in 1 .. Depth : frames'[j].before = frames[j].before
  BY EndBodyFrames
<1>4. /\ AbstractScopes \in Seq(AbstractMap) /\ AbstractScopes' \in Seq(AbstractMap)
      /\ Len(AbstractScopes) = Depth + 1 /\ Len(AbstractScopes') = Depth + 1
  BY <1>2, <1>3 DEF ScopesShape
<1>5. AbstractScopes'[Depth + 1] = AbstractScopes[Depth]
  BY <1>2, <1>3 DEF ScopesShape, AbstractScope, AbstractValue
<1>6. \A j \in 1 .. Depth : AbstractScopes'[j] = AbstractScopes[j]
  <2>1. \A j \in 1 .. Depth : AbstractScopes'[j] = AbstractScope(frames'[j].before)
    BY <1>2, <1>3 DEF ScopesShape, AbstractScope, AbstractValue
  <2>. QED  BY <1>2, <1>3, <2>1 DEF ScopesShape
<1>7. AbstractScopes' = [AbstractScopes EXCEPT ![Depth + 1] = AbstractScopes[Depth]]
  BY <1>3, <1>4, <1>5, <1>6
<1>8. S!EndBody
  <2>1. UNCHANGED <<reference, phase>>
    BY DEF EndBody
  <2>2. Len(AbstractScopes) > 1 /\ Len(AbstractScopes) - 1 = Depth
    BY <1>3, <1>4
  <2>3. AbstractScopes' = [AbstractScopes EXCEPT
           ![Len(AbstractScopes)] = AbstractScopes[Len(AbstractScopes) - 1]]
    BY <1>4, <1>7, <2>2
  <2>. QED  BY <2>1, <2>2, <2>3 DEF S!EndBody, AbstractMeaning, AbstractValue
<1>. QED  BY <1>8 DEF S!Next

\* The else body was written in the scope around the loop.
LEMMA EndForRefines ==
    ASSUME JsInv, JsInv', EndFor
    PROVE  S!Next
<1>1. TypeOK /\ TypeOK' /\ phase # "thrown" /\ phase' # "thrown"
  BY DEF JsInv, EndFor
<1>2. ScopesShape /\ ScopesShape'
  BY <1>1, ScopesAre, ScopesAreNext
<1>3. /\ Depth \in Nat /\ Depth > 0 /\ Depth' = Depth - 1
      /\ shadowValues' = shadowValues /\ shadowValues = frames[Depth].before
      /\ \A j \in 1 .. Depth - 1 : frames'[j] = frames[j]
  BY EndForFrames
<1>4. /\ AbstractScopes \in Seq(AbstractMap) /\ AbstractScopes' \in Seq(AbstractMap)
      /\ Len(AbstractScopes) = Depth + 1 /\ Len(AbstractScopes') = Depth
  BY <1>2, <1>3 DEF ScopesShape
<1>5. AbstractScopes'[Depth] = AbstractScopes[Depth]
  BY <1>2, <1>3 DEF ScopesShape, AbstractScope, AbstractValue
<1>6. \A j \in 1 .. Depth - 1 : AbstractScopes'[j] = AbstractScopes[j]
  <2>1. \A j \in 1 .. Depth - 1 : AbstractScopes'[j] = AbstractScope(frames'[j].before)
    BY <1>2, <1>3 DEF ScopesShape, AbstractScope, AbstractValue
  <2>2. \A j \in 1 .. Depth - 1 : AbstractScopes[j] = AbstractScope(frames[j].before)
    BY <1>2, <1>3 DEF ScopesShape
  <2>. QED  BY <1>3, <2>1, <2>2
<1>7. AbstractScopes' = SubSeq(AbstractScopes, 1, Depth)
  BY <1>3, <1>4, <1>5, <1>6
<1>8. S!Leave
  <2>1. UNCHANGED <<reference, phase>>
    BY DEF EndFor
  <2>2. Len(AbstractScopes) > 1 /\ Len(AbstractScopes) - 1 = Depth
    BY <1>3, <1>4
  <2>. QED  BY <1>7, <2>1, <2>2 DEF S!Leave, AbstractMeaning, AbstractValue
<1>. QED  BY <1>8 DEF S!Next

\* A variable is written as what the scope says.
LEMMA ReferRefines ==
    ASSUME JsInv, phase # "thrown", NEW x \in Name, Refer(x),
           UNCHANGED <<shadowValues, frames, phase>>
    PROVE  S!Next
<1>1. S!Here = AbstractScope(shadowValues)
  BY ScopesAre DEF JsInv, S!Here, ScopesShape
<1>2. UNCHANGED AbstractScopes
  BY DEF AbstractScopes, AbstractScope, AbstractValue, Depth
<1>3. reference' = <<x, shadowValues[x]>>
  BY DEF Refer
<1>4. S!Refer(x)
  BY <1>1, <1>2, <1>3 DEF S!Refer, AbstractScope, AbstractMeaning, AbstractValue
<1>. QED  BY <1>4 DEF S!Next

\* Every step is a step of lexical scoping, or changes no meaning.
LEMMA StepRefines ==
    ASSUME JsAssumption, JsInv, JsInv', [Next]_vars
    PROVE  [S!Next]_(S!vars)
<1>1. CASE UNCHANGED vars
  BY <1>1 DEF vars, S!vars, AbstractScopes, AbstractScope, AbstractMeaning,
              AbstractValue, Depth
<1>2. CASE Visit \/ Else \/ EndIf \/ Finish
  <2>1. /\ UNCHANGED <<shadowValues, frames, reference>>
        /\ phase # "thrown" /\ phase' # "thrown"
    BY <1>2 DEF Visit, Else, EndIf, Finish, InThen, Statements
  <2>. QED  BY <2>1 DEF S!vars, AbstractScopes, AbstractScope, AbstractMeaning,
                        AbstractValue, Depth
<1>3. CASE \E x \in Name : PrintBlock(x) \/ BeginIf(x) \/ ElseIf(x)
  <2>1. PICK x \in Name : PrintBlock(x) \/ BeginIf(x) \/ ElseIf(x)
    BY <1>3
  <2>2. /\ Refer(x) /\ phase # "thrown"
        /\ UNCHANGED <<shadowValues, frames, phase>>
    BY <2>1 DEF PrintBlock, BeginIf, ElseIf, InThen, Statements
  <2>. QED  BY <2>2, ReferRefines
<1>4. CASE \E k \in Name \cup {None}, v \in Name, x \in Name, e \in BOOLEAN :
              BeginFor(k, v, x, e)
  <2>1. PICK k \in Name \cup {None}, v \in Name, x \in Name, e \in BOOLEAN :
            BeginFor(k, v, x, e)
    BY <1>4
  <2>2. /\ Refer(x) /\ phase # "thrown"
        /\ UNCHANGED <<shadowValues, frames, phase>>
    BY <2>1 DEF BeginFor, Statements
  <2>. QED  BY <2>2, ReferRefines
<1>5. CASE EnterBody
  BY <1>5, EnterBodyRefines
<1>6. CASE EndBody
  BY <1>6, EndBodyRefines
<1>7. CASE EndFor
  BY <1>7, EndForRefines
<1>8. CASE Include
  <2>1. phase' = "thrown"
    BY <1>8 DEF Include
  <2>2. AbstractScopes' = <<S!Global>>
    BY <2>1 DEF AbstractScopes, S!Global, Assigned, S!Assigned
  <2>. QED  BY <2>1, <2>2 DEF S!Next, S!Abandon, AbstractMeaning,
                             Assigned, S!Assigned
<1>. QED  BY <1>1, <1>2, <1>3, <1>4, <1>5, <1>6, <1>7, <1>8 DEF Next

\* The shadow values, saved and restored by for_block(), implement lexical scoping: in
\* a template of any depth every name is written as the variable of the innermost loop
\* that declares it.
THEOREM ScriptsScopeLexically == Spec => ImplementsScoping
<1>1. Init => S!Init
  <2>. SUFFICES ASSUME Init PROVE S!Init
    OBVIOUS
  <2>1. /\ shadowValues = [x \in Name |-> Null] /\ phase # "thrown"
        /\ reference = <<None, Null>> /\ Depth = 0
    BY DEF Init, Depth
  <2>2. AbstractScopes = [j \in 1 .. 1 |-> AbstractScope(shadowValues)]
    BY <2>1 DEF AbstractScopes
  <2>3. AbstractScope(shadowValues) = S!Global
    BY <2>1 DEF AbstractScope, AbstractValue, S!Global, Assigned, S!Assigned
  <2>4. AbstractScopes = <<S!Global>>
    BY <2>2, <2>3
  <2>. QED  BY <2>1, <2>4 DEF S!Init, AbstractMeaning, AbstractValue,
                             Assigned, S!Assigned
<1>2. JsInv /\ JsInv' /\ [Next]_vars => [S!Next]_(S!vars)
  BY JsAssumption, StepRefines
<1>. QED  BY <1>1, <1>2, JsInvariant, PTL DEF Spec, ImplementsScoping, S!Spec
=============================================================================
