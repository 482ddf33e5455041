------------------------ MODULE TemplateBufferProofs ------------------------
(***************************************************************************)
(* Proofs about TemplateBuffer, for every alphabet, every set of strings,  *)
(* every initial size and every chunk size.                                *)
(*                                                                         *)
(* The inductive invariant is the conjunction of the three invariants the  *)
(* runs check: that the block spans exactly 0 .. allocated - 1 (NoOverrun) *)
(* is what makes every read of BufferHoldsOutput a read of the block.      *)
(***************************************************************************)
EXTENDS TemplateBuffer, TLAPS

IInv == TypeOK /\ NoOverrun /\ BufferHoldsOutput

(***************************************************************************)
(* Lemmas about the memory operators.                                      *)
(***************************************************************************)

\* memcpy() adds at most the chars it writes to the domain of the memory.
LEMMA CopyDomain ==
    ASSUME NEW m, NEW at, NEW s
    PROVE  DOMAIN Copy(m, at, s) = DOMAIN m \cup at .. at + Len(s) - 1
BY DEF Copy

\* memcpy() stores the chars of the string at its destination.
LEMMA CopyInside ==
    ASSUME NEW m, NEW at \in Nat, NEW s,
           NEW i \in at .. at + Len(s) - 1
    PROVE  Copy(m, at, s)[i] = s[i - at + 1]
BY DEF Copy

\* memcpy() leaves every other char as it was.
LEMMA CopyOutside ==
    ASSUME NEW m, NEW at \in Nat, NEW s,
           NEW i \in DOMAIN m, i \notin at .. at + Len(s) - 1
    PROVE  Copy(m, at, s)[i] = m[i]
BY DEF Copy

\* The size asked for leaves room for n chars and the terminator after a string
\* that fitted in the old block (the growth rule of add_to_buffer).
LEMMA NewLengthFits ==
    ASSUME BufferAssumption, allocated \in Nat, strLength \in Nat,
           strLength <= allocated, NEW n \in Nat
    PROVE  /\ NewLength(n) \in Nat
           /\ NewLength(n) >= allocated
           /\ strLength + n < NewLength(n)
BY DEF NewLength, BufferAssumption

LEMMA InitIInv == ASSUME BufferAssumption, Init PROVE IInv
<1>1. DOMAIN mem = {} /\ DOMAIN mem = 0 .. allocated - 1
  BY DEF Init, Alloc
<1>2. Prefix(mem, strLength) = <<>>
  BY DEF Init, Prefix
<1>3. TypeOK
  BY <1>1 DEF Init, TypeOK, BufferAssumption, Cell
<1>4. NoOverrun
  BY <1>1 DEF Init, NoOverrun, BufferAssumption
<1>5. BufferHoldsOutput
  BY <1>2 DEF Init, BufferHoldsOutput
<1>. QED  BY <1>3, <1>4, <1>5 DEF IInv

(***************************************************************************)
(* One lemma per action.                                                   *)
(***************************************************************************)
LEMMA RenderTemplateIInv ==
    ASSUME BufferAssumption, IInv, NEW m \in Methods, RenderTemplate(m)
    PROVE  IInv'
<1>. USE DEF IInv
<1>1. DOMAIN mem' = 0 .. allocated' - 1 /\ \A i \in DOMAIN mem' : mem'[i] = Uninit
  BY DEF RenderTemplate, Alloc
<1>2. Prefix(mem, strLength)' = <<>>
  BY DEF RenderTemplate, Prefix
<1>3. TypeOK'
  BY <1>1 DEF RenderTemplate, TypeOK, BufferAssumption, Cell
<1>4. NoOverrun'
  BY <1>1 DEF RenderTemplate, NoOverrun, BufferAssumption
<1>5. BufferHoldsOutput'
  BY <1>2 DEF RenderTemplate, BufferHoldsOutput
<1>. QED  BY <1>3, <1>4, <1>5

LEMMA AddToBufferIInv ==
    ASSUME BufferAssumption, IInv, NEW s \in Text, AddToBuffer(s)
    PROVE  IInv'
<1>. DEFINE n      == Len(s)
            grows  == strLength + n + 1 > allocated
            size   == IF grows THEN NewLength(n) ELSE allocated
            block  == IF grows THEN Realloc(mem, size) ELSE mem
            filled == Copy(block, strLength, s)
<1>1. /\ s \in Seq(Byte)  /\ n \in Nat
      /\ strLength \in Nat /\ allocated \in Nat
      /\ printed \in Seq(Byte)
  BY DEF IInv, TypeOK, BufferAssumption
<1>2. /\ caller \in Methods
      /\ mem' = Copy(filled, strLength + n, <<NUL>>)
      /\ allocated' = size
      /\ strLength' = strLength + n
      /\ printed' = printed \o s
      /\ UNCHANGED <<caller, delivered>>
  BY DEF AddToBuffer
<1>3. DOMAIN mem = 0 .. allocated - 1 /\ strLength < allocated
  BY <1>2 DEF IInv, NoOverrun
<1>4. /\ size \in Nat
      /\ allocated <= size
      /\ strLength + n < size
  <2>1. /\ NewLength(n) \in Nat
        /\ NewLength(n) >= allocated
        /\ strLength + n < NewLength(n)
    BY <1>1, <1>3, NewLengthFits
  <2>. QED  BY <1>1, <2>1
<1>5. /\ DOMAIN block = 0 .. size - 1
      /\ \A i \in DOMAIN block : block[i] \in Cell
      /\ \A i \in DOMAIN mem : i \in DOMAIN block /\ block[i] = mem[i]
  <2>1. CASE grows
    BY <1>1, <1>3, <1>4, <2>1, SMTT(60) DEF Realloc, IInv, TypeOK, Cell
  <2>2. CASE ~ grows
    BY <1>1, <1>3, <2>2 DEF IInv, TypeOK
  <2>. QED  BY <2>1, <2>2
<1>. HIDE DEF size, block
<1>6. DOMAIN filled = 0 .. size - 1
  BY <1>1, <1>4, <1>5, CopyDomain, SMTT(60)
<1>7. \A i \in 0 .. strLength - 1 : filled[i] = mem[i]
  <2>. SUFFICES ASSUME NEW i \in 0 .. strLength - 1 PROVE filled[i] = mem[i]
    OBVIOUS
  <2>1. i \in DOMAIN mem /\ i \in DOMAIN block /\ i \notin strLength .. strLength + Len(s) - 1
    BY <1>1, <1>3, <1>5
  <2>2. filled[i] = block[i]
    BY <2>1, <1>1, CopyOutside
  <2>. QED  BY <2>1, <2>2, <1>5
<1>8. \A i \in strLength .. strLength + n - 1 : filled[i] = s[i - strLength + 1]
  BY <1>1, CopyInside
<1>9. \A i \in 0 .. size - 1 : filled[i] \in Cell
  <2>. SUFFICES ASSUME NEW i \in 0 .. size - 1 PROVE filled[i] \in Cell
    OBVIOUS
  <2>1. CASE i \in strLength .. strLength + n - 1
    <3>1. i - strLength + 1 \in 1 .. Len(s)
      BY <1>1, <2>1
    <3>. QED  BY <1>1, <1>8, <2>1, <3>1 DEF Cell
  <2>2. CASE i \notin strLength .. strLength + n - 1
    <3>1. i \in DOMAIN block
      BY <1>5
    <3>2. filled[i] = block[i]
      BY <1>1, <2>2, <3>1, CopyOutside
    <3>. QED  BY <1>5, <3>1, <3>2
  <2>. QED  BY <2>1, <2>2
<1>. HIDE DEF filled
<1>10. DOMAIN mem' = 0 .. size - 1
  <2>1. DOMAIN mem' = DOMAIN filled \cup strLength + n .. strLength + n + 1 - 1
    BY <1>2, CopyDomain, Len(<<NUL>>) = 1
  <2>2. strLength + n .. strLength + n + 1 - 1 \subseteq 0 .. size - 1
    BY <1>1, <1>4
  <2>. QED  BY <1>6, <2>1, <2>2
<1>11. mem'[strLength + n] = NUL
  BY <1>1, <1>2, CopyInside
<1>12. \A i \in 0 .. size - 1 : i # strLength + n => mem'[i] = filled[i]
  <2>. SUFFICES ASSUME NEW i \in 0 .. size - 1, i # strLength + n
                PROVE  mem'[i] = filled[i]
    OBVIOUS
  <2>1. i \in DOMAIN filled
    BY <1>6
  <2>2. i \notin strLength + n .. strLength + n + Len(<<NUL>>) - 1
    BY <1>1, <1>4
  <2>3. strLength + n \in Nat
    BY <1>1
  <2>4. Copy(filled, strLength + n, <<NUL>>)[i] = filled[i]
    BY <2>1, <2>2, <2>3 DEF Copy
  <2>. QED  BY <1>2, <2>4
<1>13. TypeOK'
  <2>1. \A i \in DOMAIN mem' : mem'[i] \in Cell
    BY <1>9, <1>10, <1>11, <1>12 DEF BufferAssumption, Cell
  <2>2. DOMAIN mem' \subseteq Nat
    BY <1>4, <1>10
  <2>3. printed' \in Seq(Byte)
    BY <1>1, <1>2
  <2>4. caller' \in Methods \cup {Nobody} /\ delivered' = delivered
    BY <1>2
  <2>5. allocated' \in Nat /\ strLength' \in Nat
    BY <1>1, <1>2, <1>4
  <2>. QED  BY <2>1, <2>2, <2>3, <2>4, <2>5 DEF IInv, TypeOK
<1>14. NoOverrun'
  BY <1>2, <1>4, <1>10 DEF NoOverrun
<1>15. BufferHoldsOutput'
  <2>1. strLength' = Len(printed') /\ Len(printed) = strLength
    BY <1>1, <1>2 DEF IInv, BufferHoldsOutput
  <2>2. Prefix(mem, strLength)' = printed'
    <3>1. \A i \in 1 .. strLength' : mem'[i - 1] = printed'[i]
      <4>. SUFFICES ASSUME NEW i \in 1 .. strLength + n
                    PROVE  mem'[i - 1] = printed'[i]
        BY <1>2
      <4>1. mem'[i - 1] = filled[i - 1]
        BY <1>1, <1>4, <1>12
      <4>2. CASE i <= strLength
        <5>1. filled[i - 1] = mem[i - 1]
          BY <1>1, <1>7, <4>2
        <5>2. mem[i - 1] = printed[i]
          BY <1>1, <4>2 DEF IInv, BufferHoldsOutput, Prefix
        <5>3. printed'[i] = printed[i]
          BY <1>1, <1>2, <2>1, <4>2
        <5>. QED  BY <4>1, <5>1, <5>2, <5>3
      <4>3. CASE i > strLength
        <5>1. filled[i - 1] = s[(i - 1) - strLength + 1]
          BY <1>1, <1>8, <4>3
        <5>2. printed'[i] = s[i - strLength]
          BY <1>1, <1>2, <2>1, <4>3
        <5>3. (i - 1) - strLength + 1 = i - strLength
          BY <1>1
        <5>. QED  BY <4>1, <5>1, <5>2, <5>3
      <4>. QED  BY <1>1, <4>2, <4>3
    <3>2. printed' \in Seq(Byte)
      BY <1>1, <1>2
    <3>3. printed' = [i \in 1 .. strLength' |-> printed'[i]]
      BY <2>1, <3>2
    <3>. QED  BY <3>1, <3>3 DEF Prefix
  <2>3. mem'[strLength'] = NUL
    BY <1>2, <1>11
  <2>4. delivered'.text # <<>> => delivered'.terminator = NUL
    BY <1>2 DEF IInv, BufferHoldsOutput
  <2>. QED  BY <2>1, <2>2, <2>3, <2>4 DEF BufferHoldsOutput
<1>. QED  BY <1>13, <1>14, <1>15 DEF IInv

LEMMA DeliverIInv ==
    ASSUME BufferAssumption, IInv, Deliver
    PROVE  IInv'
<1>1. DOMAIN mem' = {} /\ DOMAIN mem' = 0 .. allocated' - 1
  BY DEF Deliver, Alloc
<1>2. Prefix(mem, strLength)' = <<>>
  BY DEF Deliver, Prefix
<1>3. delivered' \in [to : Methods \cup {Nobody}, text : Seq(Cell),
                      terminator : Cell]
  <2>1. Prefix(mem, strLength) \in Seq(Cell)
    BY DEF IInv, TypeOK, BufferHoldsOutput, Cell
  <2>2. mem[strLength] \in Cell
    BY DEF Deliver, IInv, TypeOK, NoOverrun
  <2>. QED  BY <2>1, <2>2 DEF Deliver
<1>4. TypeOK'
  BY <1>1, <1>3 DEF Deliver, IInv, TypeOK
<1>5. NoOverrun'
  BY <1>1 DEF Deliver, NoOverrun, BufferAssumption
<1>6. BufferHoldsOutput'
  <2>1. delivered'.text # <<>> => delivered'.terminator = NUL
    BY DEF Deliver, IInv, BufferHoldsOutput
  <2>. QED  BY <1>2, <2>1 DEF Deliver, BufferHoldsOutput
<1>. QED  BY <1>4, <1>5, <1>6 DEF IInv

LEMMA StepIInv == ASSUME BufferAssumption, IInv, [Next]_vars PROVE IInv'
<1>1. ASSUME NEW m \in Methods, RenderTemplate(m) PROVE IInv'
  BY <1>1, RenderTemplateIInv
<1>2. ASSUME NEW s \in Text, AddToBuffer(s) PROVE IInv'
  BY <1>2, AddToBufferIInv
<1>3. CASE Deliver
  BY <1>3, DeliverIInv
<1>4. CASE UNCHANGED vars
  BY <1>4 DEF vars, IInv, TypeOK, NoOverrun, BufferHoldsOutput, Prefix
<1>. QED  BY <1>1, <1>2, <1>3, <1>4 DEF Next

-----------------------------------------------------------------------------
\* The inductive invariant holds in every reachable state of the buffer.
THEOREM InductiveInvariant == Spec => []IInv
<1>1. Init => IInv
  BY BufferAssumption, InitIInv
<1>2. IInv /\ [Next]_vars => IInv'
  BY BufferAssumption, StepIInv
<1>. QED  BY <1>1, <1>2, PTL DEF Spec

\* The variables of render_template() and struct template_buffer keep their
\* types.
THEOREM TypeCorrect == Spec => []TypeOK
BY InductiveInvariant, PTL DEF IInv

\* add_to_buffer() never writes outside its block, whatever the initial size,
\* the chunk size and the lengths of the strings that are printed.
THEOREM BufferNeverOverruns == Spec => []NoOverrun
BY InductiveInvariant, PTL DEF IInv

\* The buffer holds what the template printed, whole, in order and terminated.
THEOREM BufferIsFaithful == Spec => []BufferHoldsOutput
BY InductiveInvariant, PTL DEF IInv

\* Rendering through the buffer implements the abstract rendering: every step
\* of TemplateBuffer is a step of Rendering or leaves its variables alone.
THEOREM BufferRefinesRendering == Spec => ImplementsRendering
<1>1. Init => R!Init
  BY DEF Init, R!Init, AbstractDelivered
<1>2. ASSUME BufferAssumption, IInv, [Next]_vars
      PROVE  [R!Next]_(R!vars)
  <2>1. ASSUME NEW m \in Methods, RenderTemplate(m) PROVE R!Next
    BY <2>1 DEF RenderTemplate, AbstractDelivered, R!Next, R!Begin
  <2>2. ASSUME NEW s \in Text, AddToBuffer(s) PROVE R!Next
    BY <2>2 DEF AddToBuffer, AbstractDelivered, R!Next, R!PrintText
  <2>3. CASE Deliver
    BY <1>2, <2>3 DEF Deliver, IInv, BufferHoldsOutput, AbstractDelivered,
                      R!Next, R!End
  <2>4. CASE UNCHANGED vars
    BY <2>4 DEF vars, AbstractDelivered, R!vars
  <2>. QED  BY <1>2, <2>1, <2>2, <2>3, <2>4 DEF Next
<1>. QED
  BY <1>1, <1>2, BufferAssumption, InductiveInvariant, PTL
  DEF Spec, ImplementsRendering, R!Spec
=============================================================================
