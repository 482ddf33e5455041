-------------------------- MODULE RefCountsProofs --------------------------
(***************************************************************************)
(* Proofs about RefCounts, for templates of any size and runs that take    *)
(* any branches.                                                           *)
(*                                                                         *)
(* The invariant speaks of each variant alone: its count is the number of  *)
(* places it is needed at, it was made where the last of them will destroy *)
(* it, and it has a reference exactly if this run entered that block.      *)
(***************************************************************************)
EXTENDS RefCounts, FiniteSetTheorems, SequenceTheorems, TLAPS

Arm == {"then", "else", "body", "elsefor"}
Where == Int \X (Arm \cup {"template", "nowhere"})
VariantType == [count : Nat \cup {UNCOUNTED}, root : Nat, refs : Int, table : BOOLEAN,
                call : BOOLEAN, home : Where, gone : Where, passed : Nat]
BlockType == [arm : Arm, key : Nat, value : Nat, iterable : Nat,
              taken : BOOLEAN, around : BOOLEAN]

\* The places a value is needed at, as in RefCounts, of any operands and blocks.
OpsIn(s, v) == {i \in 1 .. Len(s) : s[i] = v}
KeysIn(bs, v) == {i \in 1 .. Len(bs) : bs[i].arm = "body" /\ bs[i].key = v}
ItsIn(bs, v) == {i \in 1 .. Len(bs) : bs[i].iterable = v}
NeededIn(v, n, bs) == n > 0 \/ KeysIn(bs, v) # {} \/ ItsIn(bs, v) # {}

\* The place of the code in the k-th block, and whether this run gets there.
PlaceAt(bs, k) == <<k, IF k = 0 THEN "template" ELSE bs[k].arm>>
LiveAt(bs, lv, k) == IF k = Len(bs) THEN lv ELSE bs[k + 1].around

\* A variant r with id v, which n operands refer to, was made where it will be
\* destroyed: in the body of the loop it is the key of; else where the expression
\* is that it is an operand of, or the loop that iterates over it.
HomeOK(r, v, n, bs) ==
    /\ \A i \in KeysIn(bs, v) : r.home = <<i, "body">> /\ \A j \in ItsIn(bs, v) : j > i
    /\ KeysIn(bs, v) = {} => /\ n > 0 => r.home = PlaceAt(bs, Len(bs))
                             /\ \A j \in ItsIn(bs, v) : r.home = PlaceAt(bs, j - 1)

\* While it is needed it has one reference, if this run was where it is made.
RefsOK(r, v, n, bs, lv, ret) ==
    /\ r.refs >= 0
    /\ ~ ret /\ NeededIn(v, n, bs) =>
          r.refs = IF LiveAt(bs, lv, r.home[1]) THEN 1 ELSE 0
    /\ ~ ret /\ r.count = 0 => r.refs = 0

CountOK(r, v, n, bs) ==
    r.count = n + Cardinality(KeysIn(bs, v)) + Cardinality(ItsIn(bs, v)) + r.passed

Good(r, v, n, bs, lv, ret) ==
    /\ r.root \in 0 .. v
    /\ r.root = v <=> r.count # UNCOUNTED
    /\ r.gone \in {Nowhere, r.home}
    /\ r.count = UNCOUNTED => r.refs = 0
    /\ r.count # UNCOUNTED => /\ CountOK(r, v, n, bs)
                              /\ HomeOK(r, v, n, bs)
                              /\ RefsOK(r, v, n, bs, lv, ret)

\* Blocks name variants that exist; the value of a loop is not counted; this run is
\* in a block only if it is in the blocks around it.
BlocksOK(vs, bs, lv) ==
    \A i \in 1 .. Len(bs) :
        /\ bs[i].key <= Len(vs) /\ bs[i].value <= Len(vs) /\ bs[i].iterable <= Len(vs)
        /\ bs[i].value >= 1 => vs[bs[i].value].count = UNCOUNTED
        /\ LiveAt(bs, lv, i) => \A j \in 1 .. i : bs[j].around
        /\ bs[i].arm \in {"then", "else"} => bs[i].iterable = 0

Types ==
    /\ values \in Seq(VariantType)
    /\ operands \in Seq(Int)
    /\ blocks \in Seq(BlockType)
    /\ live \in BOOLEAN /\ returned \in BOOLEAN /\ finished \in BOOLEAN
    /\ \A i \in 1 .. Len(operands) : operands[i] <= Len(values)

CountInv ==
    /\ Types
    /\ BlocksOK(values, blocks, live)
    /\ finished => operands = <<>> /\ blocks = <<>>
    /\ \A v \in 1 .. Len(values) :
          Good(values[v], v, Cardinality(OpsIn(operands, v)), blocks, live, returned)

-----------------------------------------------------------------------------
(***************************************************************************)
(* Counting.                                                               *)
(***************************************************************************)
LEMMA FiniteIndices ==
    ASSUME NEW n \in Nat, NEW S, S \subseteq 1 .. n
    PROVE  IsFiniteSet(S) /\ Cardinality(S) \in Nat /\ (Cardinality(S) = 0 <=> S = {})
<1>1. IsFiniteSet(1 .. n)
  BY FS_Interval
<1>2. IsFiniteSet(S)
  BY <1>1, FS_Subset
<1>. QED  BY <1>2, FS_CardinalityType, FS_EmptySet

LEMMA OneMore ==
    ASSUME NEW n \in Nat, NEW S, S \subseteq 1 .. n
    PROVE  Cardinality(S \cup {n + 1}) = Cardinality(S) + 1
<1>1. IsFiniteSet(S)
  BY FiniteIndices
<1>2. n + 1 \notin 1 .. n
  OBVIOUS
<1>. QED  BY <1>1, <1>2, FS_AddElement

LEMMA Counts ==
    ASSUME NEW bs \in Seq(BlockType), NEW v
    PROVE  /\ Cardinality(KeysIn(bs, v)) \in Nat
           /\ Cardinality(KeysIn(bs, v)) = 0 <=> KeysIn(bs, v) = {}
           /\ Cardinality(ItsIn(bs, v)) \in Nat
           /\ Cardinality(ItsIn(bs, v)) = 0 <=> ItsIn(bs, v) = {}
<1>1. Len(bs) \in Nat
  OBVIOUS
<1>2. KeysIn(bs, v) \subseteq 1 .. Len(bs) /\ ItsIn(bs, v) \subseteq 1 .. Len(bs)
  BY DEF KeysIn, ItsIn
<1>. QED  BY <1>1, <1>2, FiniteIndices

LEMMA OpsCount ==
    ASSUME NEW s \in Seq(Int), NEW v
    PROVE  /\ Cardinality(OpsIn(s, v)) \in Nat
           /\ Cardinality(OpsIn(s, v)) = 0 <=> OpsIn(s, v) = {}
<1>1. Len(s) \in Nat /\ OpsIn(s, v) \subseteq 1 .. Len(s)
  BY DEF OpsIn
<1>. QED  BY <1>1, FiniteIndices

\* One more operand.
LEMMA OpsAppend ==
    ASSUME NEW s \in Seq(Int), NEW e \in Int, NEW v
    PROVE  Cardinality(OpsIn(Append(s, e), v)) =
              Cardinality(OpsIn(s, v)) + IF e = v THEN 1 ELSE 0
<1>1. Len(s) \in Nat /\ OpsIn(s, v) \subseteq 1 .. Len(s)
  BY DEF OpsIn
<1>2. /\ Len(Append(s, e)) = Len(s) + 1 /\ Append(s, e)[Len(s) + 1] = e
      /\ \A i \in 1 .. Len(s) : Append(s, e)[i] = s[i]
  OBVIOUS
<1>3. CASE e = v
  <2>1. OpsIn(Append(s, e), v) = OpsIn(s, v) \cup {Len(s) + 1}
    BY <1>1, <1>2, <1>3 DEF OpsIn
  <2>. QED  BY <1>1, <1>3, <2>1, OneMore
<1>4. CASE e # v
  <2>1. OpsIn(Append(s, e), v) = OpsIn(s, v)
    BY <1>1, <1>2, <1>4 DEF OpsIn
  <2>2. Cardinality(OpsIn(s, v)) \in Nat
    BY OpsCount
  <2>. QED  BY <1>4, <2>1, <2>2
<1>. QED  BY <1>3, <1>4

LEMMA Prefix ==
    ASSUME NEW S, NEW s \in Seq(S), NEW m \in 0 .. Len(s)
    PROVE  /\ SubSeq(s, 1, m) \in Seq(S) /\ Len(SubSeq(s, 1, m)) = m
           /\ \A i \in 1 .. m : SubSeq(s, 1, m)[i] = s[i]
<1>. DEFINE b == SubSeq(s, 1, m)
<1>1. m \in Nat /\ m \in Int /\ \A i \in 1 .. m : s[i] \in S
  OBVIOUS
<1>2. /\ b \in Seq(S) /\ Len(b) = IF 1 <= m THEN m - 1 + 1 ELSE 0
      /\ \A i \in 1 .. m - 1 + 1 : b[i] = s[1 + i - 1]
  BY <1>1, SubSeqProperties
<1>. HIDE DEF b
<1>3. Len(b) = m
  BY <1>1, <1>2
<1>4. ASSUME NEW i \in 1 .. m
      PROVE  b[i] = s[i]
  <2>1. i \in 1 .. m - 1 + 1 /\ 1 + i - 1 = i
    BY <1>1
  <2>. QED  BY <1>2, <2>1
<1>. QED  BY <1>2, <1>3, <1>4 DEF b

LEMMA Rejoined ==
    ASSUME NEW S, NEW s \in Seq(S), Len(s) >= 1
    PROVE  /\ SubSeq(s, 1, Len(s) - 1) \in Seq(S) /\ s[Len(s)] \in S
           /\ s = Append(SubSeq(s, 1, Len(s) - 1), s[Len(s)])
<1>. DEFINE b == SubSeq(s, 1, Len(s) - 1)
<1>1. Len(s) - 1 \in 0 .. Len(s) /\ s[Len(s)] \in S
  OBVIOUS
<1>2. /\ b \in Seq(S) /\ Len(b) = Len(s) - 1
      /\ \A i \in 1 .. Len(s) - 1 : b[i] = s[i]
  BY <1>1, Prefix
<1>. HIDE DEF b
<1>3. s = Append(b, s[Len(s)])
  BY <1>1, <1>2
<1>. QED  BY <1>1, <1>2, <1>3 DEF b

\* The last operand and those before it.
LEMMA OpsLast ==
    ASSUME NEW s \in Seq(Int), Len(s) >= 1, NEW v
    PROVE  Cardinality(OpsIn(s, v)) = Cardinality(OpsIn(SubSeq(s, 1, Len(s) - 1), v))
                                      + IF s[Len(s)] = v THEN 1 ELSE 0
<1>1. PICK b \in Seq(Int) : b = SubSeq(s, 1, Len(s) - 1)
  BY Rejoined
<1>2. s[Len(s)] \in Int /\ s = Append(b, s[Len(s)])
  BY <1>1, Rejoined
<1>3. PICK e \in Int : e = s[Len(s)] /\ s = Append(b, e)
  BY <1>2
<1>4. Cardinality(OpsIn(Append(b, e), v)) =
         Cardinality(OpsIn(b, v)) + IF e = v THEN 1 ELSE 0
  BY OpsAppend
<1>. QED  BY <1>1, <1>3, <1>4

\* The last two operands and those before them.
LEMMA OpsLastTwo ==
    ASSUME NEW s \in Seq(Int), Len(s) >= 2, NEW v
    PROVE  Cardinality(OpsIn(s, v)) = Cardinality(OpsIn(SubSeq(s, 1, Len(s) - 2), v))
                                      + (IF s[Len(s) - 1] = v THEN 1 ELSE 0)
                                      + (IF s[Len(s)] = v THEN 1 ELSE 0)
<1>0. Len(s) >= 1
  OBVIOUS
<1>1. PICK b \in Seq(Int) : b = SubSeq(s, 1, Len(s) - 1)
  <2>1. SubSeq(s, 1, Len(s) - 1) \in Seq(Int)
    BY <1>0, Rejoined
  <2>. QED  BY <2>1
<1>2. /\ Len(s) \in Nat /\ Len(s) - 1 \in 0 .. Len(s) /\ Len(s) - 2 \in 0 .. Len(s)
      /\ Len(b) = Len(s) - 1 /\ b[Len(s) - 1] = s[Len(s) - 1]
  <2>1. Len(s) \in Nat /\ Len(s) - 1 \in 0 .. Len(s) /\ Len(s) - 2 \in 0 .. Len(s)
        /\ Len(s) - 1 \in 1 .. Len(s) - 1
    OBVIOUS
  <2>. QED  BY <1>1, <2>1, Prefix
<1>3. SubSeq(b, 1, Len(b) - 1) = SubSeq(s, 1, Len(s) - 2)
  <2>1. PICK m : m = Len(s) - 2
    OBVIOUS
  <2>2. m \in 0 .. Len(s) /\ m \in 0 .. Len(b) /\ m = Len(b) - 1 /\ m <= Len(s) - 1
    BY <1>2, <2>1
  <2>3. /\ SubSeq(b, 1, m) \in Seq(Int) /\ Len(SubSeq(b, 1, m)) = m
        /\ \A i \in 1 .. m : SubSeq(b, 1, m)[i] = b[i]
    BY <2>2, Prefix
  <2>4. /\ SubSeq(s, 1, m) \in Seq(Int) /\ Len(SubSeq(s, 1, m)) = m
        /\ \A i \in 1 .. m : SubSeq(s, 1, m)[i] = s[i]
    BY <2>2, Prefix
  <2>5. \A i \in 1 .. m : b[i] = s[i]
    <3>1. Len(s) - 1 \in 0 .. Len(s) /\ \A i \in 1 .. m : i \in 1 .. Len(s) - 1
      BY <1>2, <2>2
    <3>. QED  BY <1>1, <3>1, Prefix
  <2>6. SubSeq(b, 1, m) = SubSeq(s, 1, m)
    <3>. DEFINE x == SubSeq(b, 1, m)
                y == SubSeq(s, 1, m)
    <3>1. x \in Seq(Int) /\ y \in Seq(Int) /\ Len(x) = m /\ Len(y) = m
          /\ \A i \in 1 .. m : x[i] = y[i]
      BY <2>3, <2>4, <2>5
    <3>. HIDE DEF x, y
    <3>2. x = y
      BY <3>1
    <3>. QED  BY <3>2 DEF x, y
  <2>. QED  BY <2>1, <2>2, <2>6
<1>4. Cardinality(OpsIn(s, v)) = Cardinality(OpsIn(b, v)) + IF s[Len(s)] = v THEN 1 ELSE 0
  <2>1. Len(s) >= 1
    BY <1>2
  <2>. QED  BY <1>1, <2>1, OpsLast
<1>5. Cardinality(OpsIn(b, v)) = Cardinality(OpsIn(SubSeq(b, 1, Len(b) - 1), v))
                                 + IF b[Len(b)] = v THEN 1 ELSE 0
  <2>1. Len(b) >= 1
    BY <1>2
  <2>. QED  BY <2>1, OpsLast
<1>6. PICK x, y : x = SubSeq(s, 1, Len(s) - 2) /\ y = s[Len(s) - 1]
  OBVIOUS
<1>7. Cardinality(OpsIn(b, v)) = Cardinality(OpsIn(x, v)) + IF y = v THEN 1 ELSE 0
  BY <1>2, <1>3, <1>5, <1>6
<1>8. x \in Seq(Int)
  BY <1>2, <1>6, Prefix
<1>9. Cardinality(OpsIn(x, v)) \in Int
  BY <1>8, OpsCount
<1>. QED  BY <1>4, <1>6, <1>7, <1>9

-----------------------------------------------------------------------------
(***************************************************************************)
(* One use of a variant, and what becomes of one when a block ends.        *)
(***************************************************************************)
Released(r, place, runs) ==
    IF r.count = UNCOUNTED THEN r
    ELSE IF r.count = 1 THEN Destroyed(r, place, runs)
    ELSE [r EXCEPT !.count = @ - 1]

LEMMA ReleasedType ==
    ASSUME NEW r \in VariantType, NEW place \in Where, NEW runs \in BOOLEAN,
           r.count # 0
    PROVE  /\ Released(r, place, runs) \in VariantType
           /\ r.count = UNCOUNTED => Released(r, place, runs).count = UNCOUNTED
<1>1. r.count \in Nat \cup {UNCOUNTED} /\ r.refs \in Int
  BY DEF VariantType
<1>2. CASE r.count = UNCOUNTED
  BY <1>2 DEF Released
<1>3. CASE r.count # UNCOUNTED /\ r.count = 1
  <2>1. PICK refs \in Int : refs = IF runs THEN r.refs - 1 ELSE r.refs
    BY <1>1
  <2>2. Released(r, place, runs) = [r EXCEPT !.count = 0, !.gone = place, !.refs = refs]
    BY <1>3, <2>1 DEF Released, Destroyed
  <2>3. Released(r, place, runs) =
           [count |-> 0, root |-> r.root, refs |-> refs, table |-> r.table,
            call |-> r.call, home |-> r.home, gone |-> place, passed |-> r.passed]
    BY <2>2 DEF VariantType
  <2>4. r.root \in Nat /\ r.table \in BOOLEAN /\ r.call \in BOOLEAN /\ r.home \in Where /\ r.passed \in Nat
    BY DEF VariantType
  <2>. QED  BY <1>3, <2>3, <2>4 DEF VariantType
<1>4. CASE r.count # UNCOUNTED /\ r.count # 1
  <2>1. PICK count \in Nat : count = r.count - 1
    BY <1>1, <1>4
  <2>2. Released(r, place, runs) = [r EXCEPT !.count = count]
    BY <1>4, <2>1 DEF Released
  <2>. QED  BY <1>4, <2>2 DEF VariantType
<1>. QED  BY <1>2, <1>3, <1>4

\* An operand is used where the code is.
LEMMA OperandReleased ==
    ASSUME NEW bs \in Seq(BlockType), NEW v \in Nat, NEW r \in VariantType,
           NEW n \in Nat, n >= 1, NEW lv \in BOOLEAN, NEW ret \in BOOLEAN,
           Good(r, v, n, bs, lv, ret)
    PROVE  /\ Good(Released(r, PlaceAt(bs, Len(bs)), lv /\ ~ ret), v, n - 1, bs, lv, ret)
           /\ r.count # 0
<1>. DEFINE new == Released(r, PlaceAt(bs, Len(bs)), lv /\ ~ ret)
            k == Cardinality(KeysIn(bs, v))
            t == Cardinality(ItsIn(bs, v))
<1>1. /\ k \in Nat /\ (k = 0 <=> KeysIn(bs, v) = {})
      /\ t \in Nat /\ (t = 0 <=> ItsIn(bs, v) = {})
  BY Counts
<1>2. /\ r.count \in Nat \cup {UNCOUNTED} /\ r.passed \in Nat /\ r.refs \in Int
      /\ DOMAIN r = {"count", "root", "refs", "table", "call", "home", "gone", "passed"}
  BY DEF VariantType
<1>. HIDE DEF k, t
<1>3. CASE r.count = UNCOUNTED
  BY <1>3 DEF Good, Released, UNCOUNTED
<1>4. CASE r.count # UNCOUNTED /\ r.count = 1
  <2>1. /\ new.count = 0 /\ new.root = r.root /\ new.home = r.home
        /\ new.gone = PlaceAt(bs, Len(bs)) /\ new.passed = r.passed
        /\ new.refs = IF lv /\ ~ ret THEN r.refs - 1 ELSE r.refs
    BY <1>2, <1>4 DEF Released, Destroyed
  <2>2. r.count = n + k + t + r.passed
    BY <1>4 DEF Good, CountOK, k, t
  <2>3. n = 1 /\ k = 0 /\ t = 0 /\ r.passed = 0
    BY <1>1, <1>2, <1>4, <2>2
  <2>4. KeysIn(bs, v) = {} /\ ItsIn(bs, v) = {} /\ r.home = PlaceAt(bs, Len(bs))
    BY <1>1, <1>4, <2>3 DEF Good, HomeOK
  <2>5. r.home[1] = Len(bs)
    BY <2>4 DEF PlaceAt
  <2>6. r.refs >= 0 /\ (~ ret => r.refs = IF lv THEN 1 ELSE 0)
    BY <1>4, <2>3, <2>5 DEF Good, RefsOK, NeededIn, LiveAt
  <2>7. RefsOK(new, v, n - 1, bs, lv, ret)
    BY <1>2, <2>1, <2>3, <2>4, <2>6 DEF RefsOK, NeededIn
  <2>8. HomeOK(new, v, n - 1, bs)
    BY <2>3, <2>4 DEF HomeOK
  <2>9. CountOK(new, v, n - 1, bs)
    BY <2>1, <2>3 DEF CountOK, k, t
  <2>. HIDE DEF new
  <2>10. new.root \in 0 .. v /\ new.root = v /\ new.gone \in {Nowhere, new.home}
    BY <1>4, <2>1, <2>4 DEF Good
  <2>. QED  BY <1>4, <2>1, <2>7, <2>8, <2>9, <2>10 DEF Good, UNCOUNTED, new
<1>5. CASE r.count # UNCOUNTED /\ r.count # 1
  <2>1. /\ new.count = r.count - 1 /\ new.root = r.root /\ new.home = r.home
        /\ new.gone = r.gone /\ new.passed = r.passed /\ new.refs = r.refs
    BY <1>2, <1>5 DEF Released
  <2>2. r.count = n + k + t + r.passed
    BY <1>5 DEF Good, CountOK, k, t
  <2>3. r.count \in Nat /\ r.count > 1
    BY <1>1, <1>2, <1>5, <2>2
  <2>. HIDE DEF new
  <2>4. CountOK(new, v, n - 1, bs)
    BY <1>1, <1>2, <2>1, <2>2 DEF CountOK, k, t
  <2>5. HomeOK(new, v, n - 1, bs)
    BY <1>5, <2>1 DEF Good, HomeOK
  <2>6. RefsOK(new, v, n - 1, bs, lv, ret)
    BY <1>5, <2>1, <2>3 DEF Good, RefsOK, NeededIn
  <2>. QED  BY <1>5, <2>1, <2>3, <2>4, <2>5, <2>6 DEF Good, UNCOUNTED, new
<1>. QED  BY <1>3, <1>4, <1>5

\* All variants are good if v has u[v] operands.
AllGood(vs, u, bs, lv, ret) ==
    \A v \in 1 .. Len(vs) : Good(vs[v], v, u[v], bs, lv, ret)

StillUncounted(vs, new) ==
    \A v \in 1 .. Len(vs) : vs[v].count = UNCOUNTED => new[v].count = UNCOUNTED

Without(u, a) == [v \in DOMAIN u |-> IF v = a THEN u[v] - 1 ELSE u[v]]

LEMMA OutOfScopeIs ==
    ASSUME NEW vs \in Seq(VariantType), NEW a \in Int, a <= Len(vs),
           NEW place \in Where, NEW runs \in BOOLEAN,
           a >= 1 => vs[a].count # 0
    PROVE  /\ OutOfScope(vs, a, place, runs) \in Seq(VariantType)
           /\ Len(OutOfScope(vs, a, place, runs)) = Len(vs)
           /\ \A v \in 1 .. Len(vs) :
                 OutOfScope(vs, a, place, runs)[v] =
                    IF v = a THEN Released(vs[a], place, runs) ELSE vs[v]
           /\ StillUncounted(vs, OutOfScope(vs, a, place, runs))
<1>. DEFINE new == OutOfScope(vs, a, place, runs)
<1>1. CASE a < 1
  <2>1. new = vs
    BY <1>1 DEF OutOfScope, Counted
  <2>2. \A v \in 1 .. Len(vs) : v # a
    BY <1>1
  <2>. HIDE DEF new
  <2>3. StillUncounted(vs, new)
    BY <2>1 DEF StillUncounted
  <2>. QED  BY <2>1, <2>2, <2>3 DEF new
<1>2. CASE a >= 1
  <2>1. a \in 1 .. Len(vs) /\ vs[a] \in VariantType
    BY <1>2
  <2>2. PICK r : r = Released(vs[a], place, runs)
    OBVIOUS
  <2>3. r \in VariantType /\ (vs[a].count = UNCOUNTED => r.count = UNCOUNTED)
    BY <1>2, <2>1, <2>2, ReleasedType
  <2>4. new = [vs EXCEPT ![a] = r]
    <3>1. CASE vs[a].count = UNCOUNTED
      <4>1. new = vs /\ r = vs[a]
        BY <2>2, <3>1 DEF OutOfScope, Counted, Released
      <4>. QED  BY <2>1, <4>1
    <3>2. CASE vs[a].count # UNCOUNTED
      BY <1>2, <2>2, <3>2 DEF OutOfScope, Counted, Released, Destroyed
    <3>. QED  BY <3>1, <3>2
  <2>. HIDE DEF new
  <2>5. /\ new \in Seq(VariantType) /\ Len(new) = Len(vs)
        /\ \A v \in 1 .. Len(vs) : new[v] = IF v = a THEN r ELSE vs[v]
    BY <2>1, <2>3, <2>4
  <2>6. StillUncounted(vs, new)
    BY <2>3, <2>5 DEF StillUncounted
  <2>. QED  BY <2>2, <2>5, <2>6 DEF new
<1>. QED  BY <1>1, <1>2

LEMMA PlaceType ==
    ASSUME NEW bs \in Seq(BlockType)
    PROVE  PlaceAt(bs, Len(bs)) \in Where
<1>1. PICK n \in Nat : n = Len(bs)
  OBVIOUS
<1>2. CASE n = 0
  <2>1. PlaceAt(bs, Len(bs)) = <<0, "template">>
    BY <1>1, <1>2 DEF PlaceAt
  <2>. QED  BY <2>1 DEF Where
<1>3. CASE n # 0
  <2>1. n \in 1 .. Len(bs)
    BY <1>1, <1>3
  <2>2. bs[n] \in BlockType
    BY <2>1
  <2>3. bs[n].arm \in Arm
    BY <2>2 DEF BlockType
  <2>4. PlaceAt(bs, Len(bs)) = <<n, bs[n].arm>>
    BY <1>1, <1>3 DEF PlaceAt
  <2>. QED  BY <2>3, <2>4 DEF Where
<1>. QED  BY <1>2, <1>3

\* Every variant v is good for u[v] operands; code runs if the run is in the block
\* and has not returned.
Ready(vs, u, bs, lv, ret, runs) ==
    /\ vs \in Seq(VariantType) /\ bs \in Seq(BlockType)
    /\ lv \in BOOLEAN /\ ret \in BOOLEAN /\ runs = (lv /\ ~ ret)
    /\ u \in [1 .. Len(vs) -> Nat]
    /\ AllGood(vs, u, bs, lv, ret)

\* One operand is used ...
LEMMA UsedOne ==
    ASSUME NEW vs, NEW u, NEW bs, NEW lv, NEW ret, NEW runs,
           Ready(vs, u, bs, lv, ret, runs),
           NEW a \in Int, a <= Len(vs), a >= 1 => u[a] >= 1,
           NEW new, new = OutOfScope(vs, a, PlaceAt(bs, Len(bs)), runs)
    PROVE  /\ Ready(new, Without(u, a), bs, lv, ret, runs)
           /\ Len(new) = Len(vs) /\ StillUncounted(vs, new)
<1>. DEFINE place == PlaceAt(bs, Len(bs))
<1>0. /\ vs \in Seq(VariantType) /\ bs \in Seq(BlockType) /\ u \in [1 .. Len(vs) -> Nat]
      /\ lv \in BOOLEAN /\ ret \in BOOLEAN /\ runs = (lv /\ ~ ret)
      /\ AllGood(vs, u, bs, lv, ret)
  BY DEF Ready
<1>1. place \in Where /\ runs \in BOOLEAN
  BY <1>0, PlaceType
<1>2. a >= 1 => /\ Good(Released(vs[a], place, runs), a, u[a] - 1, bs, lv, ret)
                /\ vs[a].count # 0
  <2>. SUFFICES ASSUME a >= 1
                PROVE  /\ Good(Released(vs[a], place, runs), a, u[a] - 1, bs, lv, ret)
                       /\ vs[a].count # 0
    OBVIOUS
  <2>1. a \in 1 .. Len(vs) /\ a \in Nat /\ vs[a] \in VariantType /\ u[a] \in Nat /\ u[a] >= 1
    BY <1>0
  <2>2. Good(vs[a], a, u[a], bs, lv, ret)
    BY <1>0, <2>1 DEF AllGood
  <2>3. /\ Good(Released(vs[a], place, lv /\ ~ ret), a, u[a] - 1, bs, lv, ret)
        /\ vs[a].count # 0
    BY <1>0, <2>1, <2>2, OperandReleased
  <2>. QED  BY <1>0, <2>3
<1>3. new = OutOfScope(vs, a, place, runs)
  OBVIOUS
<1>. HIDE DEF place
<1>4. /\ new \in Seq(VariantType) /\ Len(new) = Len(vs) /\ StillUncounted(vs, new)
      /\ \A v \in 1 .. Len(vs) :
            new[v] = IF v = a THEN Released(vs[a], place, runs) ELSE vs[v]
  <2>1. vs \in Seq(VariantType) /\ (a >= 1 => vs[a].count # 0)
    BY <1>0, <1>2
  <2>. QED  BY <1>1, <1>3, <2>1, OutOfScopeIs
<1>5. /\ Without(u, a) \in [1 .. Len(vs) -> Nat]
      /\ \A v \in 1 .. Len(vs) : Without(u, a)[v] = IF v = a THEN u[v] - 1 ELSE u[v]
  BY <1>0 DEF Without
<1>6. ASSUME NEW v \in 1 .. Len(vs)
      PROVE  Good(new[v], v, Without(u, a)[v], bs, lv, ret)
  <2>1. CASE v = a
    BY <1>2, <1>4, <1>5, <2>1
  <2>2. CASE v # a
    BY <1>0, <1>4, <1>5, <2>2 DEF AllGood
  <2>. QED  BY <2>1, <2>2
<1>7. AllGood(new, Without(u, a), bs, lv, ret)
  BY <1>4, <1>6 DEF AllGood
<1>8. PICK w : w = Without(u, a)
  OBVIOUS
<1>9. Ready(new, w, bs, lv, ret, runs)
  BY <1>0, <1>4, <1>5, <1>7, <1>8 DEF Ready
<1>. QED  BY <1>4, <1>8, <1>9

\* ... or two.
LEMMA UsedTwo ==
    ASSUME NEW vs, NEW u, NEW bs, NEW lv, NEW ret, NEW runs,
           Ready(vs, u, bs, lv, ret, runs),
           NEW a \in Int, a <= Len(vs), a >= 1 => u[a] >= 1,
           NEW b \in Int, b <= Len(vs), b >= 1 => u[b] >= IF a = b THEN 2 ELSE 1,
           NEW mid, mid = OutOfScope(vs, a, PlaceAt(bs, Len(bs)), runs),
           NEW new, new = OutOfScope(mid, b, PlaceAt(bs, Len(bs)), runs)
    PROVE  /\ Ready(new, Without(Without(u, a), b), bs, lv, ret, runs)
           /\ Len(new) = Len(vs) /\ StillUncounted(vs, new)
<1>1. /\ Ready(mid, Without(u, a), bs, lv, ret, runs)
      /\ Len(mid) = Len(vs) /\ StillUncounted(vs, mid)
  BY UsedOne
<1>2. PICK w : w = Without(u, a)
  OBVIOUS
<1>3. b >= 1 => w[b] >= 1
  <2>1. b >= 1 => b \in 1 .. Len(vs) /\ u[b] \in Nat
    BY DEF Ready
  <2>2. b >= 1 => w[b] = IF b = a THEN u[b] - 1 ELSE u[b]
    BY <1>2, <2>1 DEF Without, Ready
  <2>. QED  BY <2>1, <2>2
<1>4. b <= Len(mid) /\ Ready(mid, w, bs, lv, ret, runs)
  BY <1>1, <1>2
<1>5. /\ Ready(new, Without(w, b), bs, lv, ret, runs)
      /\ Len(new) = Len(mid) /\ StillUncounted(mid, new)
  BY <1>3, <1>4, UsedOne
<1>6. StillUncounted(vs, new)
  BY <1>1, <1>5 DEF StillUncounted
<1>. QED  BY <1>1, <1>2, <1>5, <1>6

LEMMA HereIs ==
    ASSUME Types
    PROVE  Here = PlaceAt(blocks, Len(blocks)) /\ Here \in Where
<1>1. blocks = <<>> <=> Len(blocks) = 0
  BY DEF Types
<1>2. Here = PlaceAt(blocks, Len(blocks))
  BY <1>1 DEF Here, Place, PlaceAt
<1>. QED  BY <1>2, PlaceType DEF Types

LEMMA TheUsed ==
    ASSUME Types, NEW n \in {1, 2}, Len(operands) >= n
    PROVE  /\ Len(Used(n)) = n
           /\ n = 1 => Used(n)[1] = operands[Len(operands)]
           /\ n = 2 => /\ Used(n)[1] = operands[Len(operands) - 1]
                       /\ Used(n)[2] = operands[Len(operands)]
<1>1. PICK m \in Nat : m = Len(operands)
  BY DEF Types
<1>2. \A i \in m - n + 1 .. m : operands[i] \in Int
  BY <1>1 DEF Types
<1>3. m - n + 1 \in Int
  BY <1>1
<1>4. /\ Len(SubSeq(operands, m - n + 1, m)) = IF m - n + 1 <= m THEN m - (m - n + 1) + 1 ELSE 0
      /\ \A i \in 1 .. m - (m - n + 1) + 1 :
            SubSeq(operands, m - n + 1, m)[i] = operands[(m - n + 1) + i - 1]
  BY <1>2, <1>3, SubSeqProperties
<1>5. PICK used : used = Used(n) /\ used = SubSeq(operands, m - n + 1, m)
  BY <1>1 DEF Used
<1>6. /\ Len(used) = IF m - n + 1 <= m THEN m - (m - n + 1) + 1 ELSE 0
      /\ \A i \in 1 .. m - (m - n + 1) + 1 : used[i] = operands[(m - n + 1) + i - 1]
  BY <1>4, <1>5
<1>7. CASE n = 1
  <2>1. Len(used) = 1 /\ 1 \in 1 .. m - (m - n + 1) + 1 /\ (m - n + 1) + 1 - 1 = m
    BY <1>1, <1>6, <1>7
  <2>. QED  BY <1>1, <1>5, <1>6, <1>7, <2>1
<1>8. CASE n = 2
  <2>1. /\ Len(used) = 2 /\ 1 \in 1 .. m - (m - n + 1) + 1 /\ (m - n + 1) + 1 - 1 = m - 1
        /\ 2 \in 1 .. m - (m - n + 1) + 1 /\ (m - n + 1) + 2 - 1 = m
    BY <1>1, <1>6, <1>8
  <2>. QED  BY <1>1, <1>5, <1>6, <1>8, <2>1
<1>. QED  BY <1>7, <1>8

LEMMA OperandsBefore ==
    ASSUME Types, NEW n \in 0 .. Len(operands)
    PROVE  /\ Before(n) \in Seq(Int) /\ Len(Before(n)) = Len(operands) - n
           /\ \A i \in 1 .. Len(operands) - n : Before(n)[i] = operands[i]
<1>1. Len(operands) - n \in 0 .. Len(operands) /\ operands \in Seq(Int)
  BY DEF Types
<1>. QED  BY <1>1, Prefix DEF Before

\* The operands used go out of scope, and those before them stay.
LEMMA OperandsUsed ==
    ASSUME Types, NEW n \in {1, 2}, Len(operands) >= n,
           NEW vs, NEW u, NEW ret, NEW runs,
           Ready(vs, u, blocks, live, ret, runs), Len(values) <= Len(vs),
           \A v \in 1 .. Len(vs) : u[v] >= Cardinality(OpsIn(operands, v)),
           NEW new, new = AllOutOfScope(vs, Used(n), runs)
    PROVE  /\ new \in Seq(VariantType) /\ Len(new) = Len(vs) /\ StillUncounted(vs, new)
           /\ \A v \in 1 .. Len(vs) :
                 Good(new[v], v, u[v] - Cardinality(OpsIn(operands, v))
                                 + Cardinality(OpsIn(Before(n), v)), blocks, live, ret)
<1>0. /\ operands \in Seq(Int) /\ Len(operands) \in Nat /\ n \in 0 .. Len(operands)
      /\ Len(vs) \in Nat /\ u \in [1 .. Len(vs) -> Nat]
  BY DEF Types, Ready
<1>1. \A i \in 1 .. Len(operands) : operands[i] \in Int /\ operands[i] <= Len(vs)
  <2>1. Len(values) \in Nat
    BY DEF Types
  <2>. QED  BY <1>0, <2>1 DEF Types
<1>2. PICK o \in [1 .. Len(vs) -> Nat] :
         \A v \in 1 .. Len(vs) : o[v] = Cardinality(OpsIn(operands, v))
  <2>. DEFINE o == [v \in 1 .. Len(vs) |-> Cardinality(OpsIn(operands, v))]
  <2>1. o \in [1 .. Len(vs) -> Nat]
    BY <1>0, OpsCount
  <2>. QED  BY <2>1
<1>3. PICK q \in [1 .. Len(vs) -> Nat] :
         \A v \in 1 .. Len(vs) : q[v] = Cardinality(OpsIn(Before(n), v))
  <2>. DEFINE q == [v \in 1 .. Len(vs) |-> Cardinality(OpsIn(Before(n), v))]
  <2>1. q \in [1 .. Len(vs) -> Nat]
    BY <1>0, OpsCount, OperandsBefore
  <2>. QED  BY <2>1
<1>4. \A v \in 1 .. Len(vs) : u[v] >= o[v]
  BY <1>2
<1>5. CASE n = 1
  <2>1. PICK a \in Int : a = operands[Len(operands)] /\ a <= Len(vs)
    <3>1. Len(operands) \in 1 .. Len(operands)
      BY <1>0, <1>5
    <3>. QED  BY <1>1, <3>1
  <2>2. \A v \in 1 .. Len(vs) : o[v] = q[v] + IF a = v THEN 1 ELSE 0
    BY <1>0, <1>2, <1>3, <1>5, <2>1, OpsLast DEF Before
  <2>3. new = OutOfScope(vs, a, PlaceAt(blocks, Len(blocks)), runs)
    BY <1>5, <2>1, TheUsed, HereIs DEF AllOutOfScope
  <2>4. a >= 1 => u[a] >= 1
    <3>. SUFFICES ASSUME a >= 1 PROVE u[a] >= 1
      OBVIOUS
    <3>1. a \in 1 .. Len(vs)
      BY <1>0, <2>1
    <3>2. u[a] \in Nat /\ o[a] \in Nat /\ q[a] \in Nat /\ u[a] >= o[a] /\ o[a] = q[a] + 1
      BY <1>0, <1>4, <2>2, <3>1
    <3>. QED  BY <3>2
  <2>5. /\ Ready(new, Without(u, a), blocks, live, ret, runs)
        /\ Len(new) = Len(vs) /\ StillUncounted(vs, new)
    BY <2>1, <2>3, <2>4, UsedOne
  <2>6. ASSUME NEW v \in 1 .. Len(vs)
        PROVE  Without(u, a)[v] = u[v] - o[v] + q[v]
    <3>1. u[v] \in Nat /\ o[v] \in Nat /\ q[v] \in Nat /\ o[v] = q[v] + IF a = v THEN 1 ELSE 0
      BY <1>0, <2>2
    <3>2. Without(u, a)[v] = IF v = a THEN u[v] - 1 ELSE u[v]
      BY <1>0 DEF Without
    <3>. QED  BY <3>1, <3>2, SMTT(60)
  <2>7. \A v \in 1 .. Len(vs) :
            Good(new[v], v, Without(u, a)[v], blocks, live, ret)
    BY <2>5 DEF AllGood, Ready
  <2>8. new \in Seq(VariantType)
    BY <2>5 DEF Ready
  <2>9. \A v \in 1 .. Len(vs) :
            Good(new[v], v, u[v] - o[v] + q[v], blocks, live, ret)
    BY <2>6, <2>7
  <2>. QED  BY <1>2, <1>3, <2>5, <2>8, <2>9
<1>6. CASE n = 2
  <2>1. PICK a \in Int : a = operands[Len(operands) - 1] /\ a <= Len(vs)
    <3>1. Len(operands) - 1 \in 1 .. Len(operands)
      BY <1>0, <1>6
    <3>. QED  BY <1>1, <3>1
  <2>2. PICK b \in Int : b = operands[Len(operands)] /\ b <= Len(vs)
    <3>1. Len(operands) \in 1 .. Len(operands)
      BY <1>0, <1>6
    <3>. QED  BY <1>1, <3>1
  <2>3. \A v \in 1 .. Len(vs) : o[v] = q[v] + (IF a = v THEN 1 ELSE 0)
                                            + (IF b = v THEN 1 ELSE 0)
    BY <1>0, <1>2, <1>3, <1>6, <2>1, <2>2, OpsLastTwo, SMTT(60) DEF Before
  <2>4. PICK mid : mid = OutOfScope(vs, a, PlaceAt(blocks, Len(blocks)), runs)
    OBVIOUS
  <2>5. new = OutOfScope(mid, b, PlaceAt(blocks, Len(blocks)), runs)
    BY <1>6, <2>1, <2>2, <2>4, TheUsed, HereIs DEF AllOutOfScope
  <2>6. a >= 1 => u[a] >= 1
    <3>. SUFFICES ASSUME a >= 1 PROVE u[a] >= 1
      OBVIOUS
    <3>1. a \in 1 .. Len(vs)
      BY <1>0, <2>1
    <3>2. /\ u[a] \in Nat /\ o[a] \in Nat /\ q[a] \in Nat /\ u[a] >= o[a]
          /\ o[a] = q[a] + 1 + IF b = a THEN 1 ELSE 0
      BY <1>0, <1>4, <2>3, <3>1
    <3>. QED  BY <3>2
  <2>7. b >= 1 => u[b] >= IF a = b THEN 2 ELSE 1
    <3>. SUFFICES ASSUME b >= 1 PROVE u[b] >= IF a = b THEN 2 ELSE 1
      OBVIOUS
    <3>1. b \in 1 .. Len(vs)
      BY <1>0, <2>2
    <3>2. /\ u[b] \in Nat /\ o[b] \in Nat /\ q[b] \in Nat /\ u[b] >= o[b]
          /\ o[b] = q[b] + (IF a = b THEN 1 ELSE 0) + 1
      BY <1>0, <1>4, <2>3, <3>1
    <3>. QED  BY <3>2
  <2>9. /\ Ready(new, Without(Without(u, a), b), blocks, live, ret, runs)
        /\ Len(new) = Len(vs) /\ StillUncounted(vs, new)
    BY <2>1, <2>2, <2>4, <2>5, <2>6, <2>7, UsedTwo, SMTT(60)
  <2>10. ASSUME NEW v \in 1 .. Len(vs)
         PROVE  Without(Without(u, a), b)[v] = u[v] - o[v] + q[v]
    <3>1. PICK x, y \in Nat : x = (IF a = v THEN 1 ELSE 0) /\ y = (IF b = v THEN 1 ELSE 0)
      OBVIOUS
    <3>2. u[v] \in Nat /\ o[v] \in Nat /\ q[v] \in Nat /\ o[v] = q[v] + x + y
      BY <1>0, <2>3, <3>1
    <3>3. Without(u, a)[v] = u[v] - x
      BY <1>0, <3>1, <3>2 DEF Without
    <3>4. Without(Without(u, a), b)[v] =
             IF v = b THEN Without(u, a)[v] - 1 ELSE Without(u, a)[v]
      BY <1>0 DEF Without
    <3>5. Without(Without(u, a), b)[v] = u[v] - x - y
      BY <3>1, <3>2, <3>3, <3>4
    <3>. QED  BY <3>2, <3>5, SMTT(60)
  <2>11. \A v \in 1 .. Len(vs) :
            Good(new[v], v, Without(Without(u, a), b)[v], blocks, live, ret)
    BY <2>9 DEF AllGood, Ready
  <2>12. new \in Seq(VariantType)
    BY <2>9 DEF Ready
  <2>13. \A v \in 1 .. Len(vs) :
            Good(new[v], v, u[v] - o[v] + q[v], blocks, live, ret)
    BY <2>10, <2>11
  <2>. QED  BY <1>2, <1>3, <2>9, <2>12, <2>13
<1>. QED  BY <1>5, <1>6

-----------------------------------------------------------------------------
(***************************************************************************)
(* New variants.                                                           *)
(***************************************************************************)
\* Nothing needs a variant that does not exist.
LEMMA Unused ==
    ASSUME CountInv, NEW v \in Nat, v > Len(values)
    PROVE  /\ KeysIn(blocks, v) = {} /\ ItsIn(blocks, v) = {}
           /\ Cardinality(KeysIn(blocks, v)) = 0 /\ Cardinality(ItsIn(blocks, v)) = 0
           /\ OpsIn(operands, v) = {} /\ Cardinality(OpsIn(operands, v)) = 0
<1>1. /\ operands \in Seq(Int) /\ blocks \in Seq(BlockType) /\ Len(values) \in Nat
      /\ \A i \in 1 .. Len(operands) : operands[i] <= Len(values)
      /\ BlocksOK(values, blocks, live)
  BY DEF CountInv, Types
<1>2. \A i \in 1 .. Len(operands) : operands[i] # v
  BY <1>1
<1>3. \A i \in 1 .. Len(blocks) : blocks[i].key # v /\ blocks[i].iterable # v
  <2>1. \A i \in 1 .. Len(blocks) : /\ blocks[i].key <= Len(values)
                                    /\ blocks[i].iterable <= Len(values)
    BY <1>1 DEF BlocksOK
  <2>. QED  BY <1>1, <2>1
<1>4. KeysIn(blocks, v) = {} /\ ItsIn(blocks, v) = {} /\ OpsIn(operands, v) = {}
  BY <1>2, <1>3 DEF KeysIn, ItsIn, OpsIn
<1>. QED  BY <1>4, FS_EmptySet

LEMMA BorrowedGood ==
    ASSUME NEW v \in Nat, 0 < v, NEW table \in BOOLEAN,
           NEW n, NEW bs, NEW lv, NEW ret
    PROVE  /\ Borrowed(table) \in VariantType
           /\ Borrowed(table).count = UNCOUNTED
           /\ Good(Borrowed(table), v, n, bs, lv, ret)
<1>1. PICK r : r = Borrowed(table)
  OBVIOUS
<1>2. r = [count |-> UNCOUNTED, root |-> 0, refs |-> 0, table |-> table,
           call |-> FALSE, home |-> Nowhere, gone |-> Nowhere, passed |-> 0]
  BY <1>1 DEF Borrowed, Variant, Script
<1>3. Nowhere \in Where
  BY DEF Nowhere, Where
<1>4. r \in VariantType
  BY <1>2, <1>3 DEF VariantType
<1>5. Good(r, v, n, bs, lv, ret)
  BY <1>2 DEF Good
<1>. QED  BY <1>1, <1>2, <1>4, <1>5

\* The result of an operation, an operand of the next.
LEMMA TemporaryGood ==
    ASSUME CountInv, NEW runs \in BOOLEAN, NEW table \in BOOLEAN, NEW call \in BOOLEAN,
           NEW ret \in BOOLEAN, ~ ret => runs = live
    PROVE  /\ Temporary(runs, table, call, Here) \in VariantType
           /\ Good(Temporary(runs, table, call, Here), NewId, 1, blocks, live, ret)
<1>1. PICK r : r = Temporary(runs, table, call, Here)
  OBVIOUS
<1>2. PICK id \in Nat : id = NewId /\ id = Len(values) + 1 /\ id > Len(values)
  BY DEF CountInv, Types, NewId
<1>3. Here \in Where /\ Here = PlaceAt(blocks, Len(blocks)) /\ Here[1] = Len(blocks)
  BY HereIs DEF CountInv, PlaceAt
<1>4. PICK here \in Where : here = Here
  BY <1>3
<1>5. r = [count |-> 1, root |-> id, refs |-> IF runs THEN 1 ELSE 0, table |-> table,
           call |-> call, home |-> here, gone |-> Nowhere, passed |-> 0]
  BY <1>1, <1>2, <1>4 DEF Temporary, Variant
<1>6. Nowhere \in Where
  BY DEF Nowhere, Where
<1>7. r \in VariantType
  BY <1>5, <1>6 DEF VariantType
<1>8. /\ KeysIn(blocks, id) = {} /\ ItsIn(blocks, id) = {}
      /\ Cardinality(KeysIn(blocks, id)) = 0 /\ Cardinality(ItsIn(blocks, id)) = 0
  BY <1>2, Unused
<1>9. CountOK(r, id, 1, blocks)
  BY <1>5, <1>8 DEF CountOK
<1>10. HomeOK(r, id, 1, blocks)
  BY <1>3, <1>4, <1>5, <1>8 DEF HomeOK
<1>11. RefsOK(r, id, 1, blocks, live, ret)
  BY <1>3, <1>4, <1>5 DEF RefsOK, LiveAt
<1>12. Good(r, id, 1, blocks, live, ret)
  BY <1>5, <1>9, <1>10, <1>11 DEF Good, UNCOUNTED
<1>. QED  BY <1>1, <1>2, <1>7, <1>12

\* After a call that failed nothing more runs.
LEMMA GoodReturned ==
    ASSUME NEW r, NEW v, NEW n, NEW bs, NEW lv, NEW ret \in BOOLEAN, NEW more \in BOOLEAN,
           Good(r, v, n, bs, lv, ret)
    PROVE  Good(r, v, n, bs, lv, ret \/ more)
BY DEF Good, RefsOK

\* The number of operands of each variant that exists.
Uses == [v \in 1 .. Len(values) |-> Cardinality(OpsIn(operands, v))]

LEMMA ReadyNow ==
    ASSUME CountInv, NEW fails \in BOOLEAN, fails => Running,
           NEW u, u = Uses, NEW ret, ret = (returned \/ fails),
           NEW runs, runs = (Running /\ ~ fails)
    PROVE  Ready(values, u, blocks, live, ret, runs)
<1>1. /\ values \in Seq(VariantType) /\ blocks \in Seq(BlockType) /\ operands \in Seq(Int)
      /\ live \in BOOLEAN /\ returned \in BOOLEAN
  BY DEF CountInv, Types
<1>2. u \in [1 .. Len(values) -> Nat]
  BY <1>1, OpsCount DEF Uses
<1>3. runs = (live /\ ~ ret) /\ ret \in BOOLEAN
  BY <1>1 DEF Running
<1>4. AllGood(values, u, blocks, live, ret)
  BY <1>1, GoodReturned DEF AllGood, CountInv, Uses
<1>. QED  BY <1>1, <1>2, <1>3, <1>4 DEF Ready

\* Blocks stay as they are while variants are made and used.
LEMMA BlocksKept ==
    ASSUME NEW vs, NEW new, NEW bs \in Seq(BlockType), NEW lv,
           Len(vs) \in Nat, Len(new) \in Nat, Len(vs) <= Len(new),
           StillUncounted(vs, new), BlocksOK(vs, bs, lv)
    PROVE  BlocksOK(new, bs, lv)
<1>. SUFFICES ASSUME NEW i \in 1 .. Len(bs)
              PROVE  /\ bs[i].key <= Len(new) /\ bs[i].value <= Len(new)
                     /\ bs[i].iterable <= Len(new)
                     /\ bs[i].value >= 1 => new[bs[i].value].count = UNCOUNTED
  BY DEF BlocksOK
<1>1. /\ bs[i].key \in Nat /\ bs[i].value \in Nat /\ bs[i].iterable \in Nat
  <2>1. bs[i] \in BlockType
    OBVIOUS
  <2>. QED  BY <2>1 DEF BlockType
<1>2. /\ bs[i].key <= Len(vs) /\ bs[i].value <= Len(vs) /\ bs[i].iterable <= Len(vs)
      /\ bs[i].value >= 1 => vs[bs[i].value].count = UNCOUNTED
  BY DEF BlocksOK
<1>3. bs[i].value >= 1 => bs[i].value \in 1 .. Len(vs)
  BY <1>1, <1>2
<1>. QED  BY <1>1, <1>2, <1>3 DEF StillUncounted

\* A step within an expression.
LEMMA WithinBlock ==
    ASSUME CountInv, ~ finished', UNCHANGED <<blocks, live>>,
           finished' \in BOOLEAN, returned' \in BOOLEAN,
           values' \in Seq(VariantType), Len(values) <= Len(values'),
           StillUncounted(values, values'),
           operands' \in Seq(Int),
           \A i \in 1 .. Len(operands') : operands'[i] <= Len(values'),
           \A v \in 1 .. Len(values') :
              Good(values'[v], v, Cardinality(OpsIn(operands', v)), blocks, live, returned')
    PROVE  CountInv'
<1>1. Types'
  BY DEF CountInv, Types
<1>2. BlocksOK(values, blocks, live)'
  <2>1. Len(values) \in Nat /\ Len(values') \in Nat /\ blocks \in Seq(BlockType)
    BY DEF CountInv, Types
  <2>2. BlocksOK(values', blocks, live)
    BY <2>1, BlocksKept DEF CountInv
  <2>. QED  BY <2>2
<1>. QED  BY <1>1, <1>2 DEF CountInv

-----------------------------------------------------------------------------
(***************************************************************************)
(* Expressions.                                                            *)
(***************************************************************************)
UsesAndNew == [v \in 1 .. NewId |-> IF v = NewId THEN 1 ELSE Uses[v]]

LEMMA CreatedReady ==
    ASSUME CountInv, NEW ret, NEW runs, Ready(values, Uses, blocks, live, ret, runs),
           NEW x \in VariantType, Good(x, NewId, 1, blocks, live, ret),
           NEW vs, vs = Append(values, x)
    PROVE  /\ Ready(vs, UsesAndNew, blocks, live, ret, runs)
           /\ Len(vs) = NewId /\ NewId \in Nat /\ NewId = Len(values) + 1
           /\ StillUncounted(values, vs)
<1>1. /\ values \in Seq(VariantType) /\ Len(values) \in Nat /\ NewId = Len(values) + 1
      /\ \A v \in 1 .. NewId : v = NewId \/ v \in 1 .. Len(values)
      /\ NewId \notin 1 .. Len(values)
  BY DEF CountInv, Types, NewId
<1>2. PICK id \in Nat : id = NewId
  BY <1>1
<1>3. /\ vs \in Seq(VariantType) /\ Len(vs) = id /\ vs[id] = x
      /\ \A v \in 1 .. Len(values) : vs[v] = values[v]
  BY <1>1, <1>2
<1>4. PICK u : u = UsesAndNew
  OBVIOUS
<1>5. /\ u \in [1 .. id -> Nat] /\ u[id] = 1
      /\ \A v \in 1 .. Len(values) : u[v] = Uses[v]
  <2>1. Uses \in [1 .. Len(values) -> Nat]
    BY DEF Ready
  <2>2. u = [v \in 1 .. id |-> IF v = id THEN 1 ELSE Uses[v]]
    BY <1>2, <1>4 DEF UsesAndNew
  <2>. QED  BY <1>1, <1>2, <2>1, <2>2
<1>6. AllGood(values, Uses, blocks, live, ret)
  BY DEF Ready
<1>7. AllGood(vs, u, blocks, live, ret)
  <2>. SUFFICES ASSUME NEW v \in 1 .. id PROVE Good(vs[v], v, u[v], blocks, live, ret)
    BY <1>3 DEF AllGood
  <2>1. CASE v = id
    BY <1>2, <1>3, <1>5, <2>1
  <2>2. CASE v \in 1 .. Len(values)
    BY <1>3, <1>5, <1>6, <2>2 DEF AllGood
  <2>. QED  BY <1>1, <1>2, <2>1, <2>2
<1>8. Ready(vs, u, blocks, live, ret, runs)
  BY <1>3, <1>5, <1>7 DEF Ready
<1>9. StillUncounted(values, vs)
  BY <1>3 DEF StillUncounted
<1>. QED  BY <1>1, <1>2, <1>3, <1>4, <1>8, <1>9

\* The operands of an operation are used, and its result is the new operand.
LEMMA ResultPushed ==
    ASSUME CountInv, NEW n \in {1, 2}, Len(operands) >= n, NEW ret, NEW runs,
           Ready(values, Uses, blocks, live, ret, runs),
           NEW x \in VariantType, Good(x, NewId, 1, blocks, live, ret),
           NEW new, new = AllOutOfScope(Append(values, x), Used(n), runs),
           NEW ops, ops = Append(Before(n), NewId)
    PROVE  /\ new \in Seq(VariantType) /\ Len(values) <= Len(new)
           /\ StillUncounted(values, new)
           /\ ops \in Seq(Int) /\ \A i \in 1 .. Len(ops) : ops[i] <= Len(new)
           /\ \A v \in 1 .. Len(new) :
                 Good(new[v], v, Cardinality(OpsIn(ops, v)), blocks, live, ret)
<1>1. PICK vs : vs = Append(values, x)
  OBVIOUS
<1>2. /\ Ready(vs, UsesAndNew, blocks, live, ret, runs)
      /\ Len(vs) = NewId /\ NewId \in Nat /\ NewId = Len(values) + 1
      /\ StillUncounted(values, vs)
  BY <1>1, CreatedReady
<1>3. PICK id \in Nat : id = NewId
  BY <1>2
<1>4. /\ Types /\ operands \in Seq(Int) /\ n \in 0 .. Len(operands)
      /\ \A i \in 1 .. Len(operands) : operands[i] <= Len(values)
      /\ Len(values) \in Nat /\ Len(operands) \in Nat
  BY DEF CountInv, Types
<1>5. PICK u : u = UsesAndNew
  OBVIOUS
<1>6. /\ u \in [1 .. id -> Nat] /\ u[id] = 1
      /\ \A v \in 1 .. id : v # id => u[v] = Cardinality(OpsIn(operands, v))
  <2>1. u \in [1 .. id -> Nat]
    BY <1>2, <1>3, <1>5 DEF Ready
  <2>2. id \in 1 .. id /\ \A v \in 1 .. id : v # id => v \in 1 .. Len(values)
    BY <1>2, <1>3, <1>4
  <2>3. \A v \in 1 .. id : u[v] = IF v = id THEN 1 ELSE Uses[v]
    BY <1>3, <1>5 DEF UsesAndNew
  <2>4. \A v \in 1 .. Len(values) : Uses[v] = Cardinality(OpsIn(operands, v))
    BY DEF Uses
  <2>. QED  BY <2>1, <2>2, <2>3, <2>4
<1>7. Cardinality(OpsIn(operands, id)) = 0
  BY <1>2, <1>3, <1>4, Unused
<1>8. \A v \in 1 .. id : u[v] >= Cardinality(OpsIn(operands, v))
  BY <1>4, <1>6, <1>7, OpsCount
<1>9. /\ new \in Seq(VariantType) /\ Len(new) = id /\ StillUncounted(vs, new)
      /\ \A v \in 1 .. id :
            Good(new[v], v, u[v] - Cardinality(OpsIn(operands, v))
                            + Cardinality(OpsIn(Before(n), v)), blocks, live, ret)
  <2>1. PICK res : res = AllOutOfScope(vs, Used(n), runs)
    OBVIOUS
  <2>2. Ready(vs, u, blocks, live, ret, runs) /\ Len(vs) = id /\ Len(values) <= Len(vs)
    BY <1>2, <1>3, <1>4, <1>5
  <2>3. \A v \in 1 .. Len(vs) : u[v] >= Cardinality(OpsIn(operands, v))
    BY <1>8, <2>2
  <2>4. /\ res \in Seq(VariantType) /\ Len(res) = Len(vs) /\ StillUncounted(vs, res)
        /\ \A v \in 1 .. Len(vs) :
              Good(res[v], v, u[v] - Cardinality(OpsIn(operands, v))
                              + Cardinality(OpsIn(Before(n), v)), blocks, live, ret)
    BY <1>4, <2>1, <2>2, <2>3, OperandsUsed, SMTT(60)
  <2>5. new = res
    BY <1>1, <2>1
  <2>. QED  BY <2>2, <2>4, <2>5
<1>10. /\ Before(n) \in Seq(Int) /\ Len(Before(n)) \in Nat
       /\ \A i \in 1 .. Len(Before(n)) : Before(n)[i] <= Len(values)
  <2>1. /\ Before(n) \in Seq(Int) /\ Len(Before(n)) = Len(operands) - n
        /\ \A i \in 1 .. Len(operands) - n : Before(n)[i] = operands[i]
    BY <1>4, OperandsBefore
  <2>2. \A i \in 1 .. Len(operands) - n : i \in 1 .. Len(operands)
    BY <1>4
  <2>. QED  BY <1>4, <2>1, <2>2, SMTT(60)
<1>11. PICK b \in Seq(Int) : b = Before(n)
  BY <1>10
<1>12. ops = Append(b, id)
  BY <1>3, <1>11
<1>13. OpsIn(b, id) = {} /\ Cardinality(OpsIn(b, id)) = 0
  <2>1. \A i \in 1 .. Len(b) : b[i] # id
    BY <1>2, <1>3, <1>4, <1>10, <1>11
  <2>2. OpsIn(b, id) = {}
    BY <2>1 DEF OpsIn
  <2>. QED  BY <2>2, FS_EmptySet
<1>14. ops \in Seq(Int) /\ \A i \in 1 .. Len(ops) : ops[i] <= id
  <2>1. \A i \in 1 .. Len(b) : b[i] <= id
    BY <1>2, <1>3, <1>4, <1>10, <1>11, SMTT(60)
  <2>. QED  BY <1>12, <2>1
<1>15. ASSUME NEW v \in 1 .. id
       PROVE  Good(new[v], v, Cardinality(OpsIn(ops, v)), blocks, live, ret)
  <2>1. Cardinality(OpsIn(ops, v)) = Cardinality(OpsIn(b, v)) + IF id = v THEN 1 ELSE 0
    BY <1>12, OpsAppend
  <2>2. /\ Cardinality(OpsIn(b, v)) \in Nat
        /\ Cardinality(OpsIn(operands, v)) \in Nat
    BY <1>4, OpsCount
  <2>3. u[v] - Cardinality(OpsIn(operands, v)) + Cardinality(OpsIn(b, v))
        = Cardinality(OpsIn(ops, v))
    BY <1>6, <1>7, <1>13, <2>1, <2>2, SMTT(60)
  <2>. QED  BY <1>9, <1>11, <2>3
<1>16. StillUncounted(values, new) /\ Len(values) <= Len(new)
  <2>1. \A v \in 1 .. Len(values) : v \in 1 .. Len(vs)
    BY <1>2, <1>4
  <2>. QED  BY <1>2, <1>3, <1>4, <1>9, <2>1, SMTT(60) DEF StillUncounted
<1>. QED  BY <1>9, <1>14, <1>15, <1>16

\* An operand that is no new variant is pushed.
LEMMA LiteralCountInv ==
    ASSUME CountInv, NEW type \in {NATIVE, BOOL}, Literal(type)
    PROVE  CountInv'
<1>1. /\ operands' = Append(operands, type) /\ type \in Int /\ type < 1
      /\ UNCHANGED <<values, blocks, live, returned, finished>> /\ ~ finished
  BY DEF Literal, CanPush, Compiling, NATIVE, BOOL
<1>2. /\ values \in Seq(VariantType) /\ operands \in Seq(Int) /\ Len(values) \in Nat
      /\ \A i \in 1 .. Len(operands) : operands[i] <= Len(values)
      /\ finished \in BOOLEAN /\ returned \in BOOLEAN
  BY DEF CountInv, Types
<1>3. operands' \in Seq(Int) /\ \A i \in 1 .. Len(operands') : operands'[i] <= Len(values)
  BY <1>1, <1>2
<1>4. ASSUME NEW v \in 1 .. Len(values)
      PROVE  Cardinality(OpsIn(operands', v)) = Cardinality(OpsIn(operands, v))
  <2>1. Cardinality(OpsIn(Append(operands, type), v)) =
           Cardinality(OpsIn(operands, v)) + IF type = v THEN 1 ELSE 0
    BY <1>1, <1>2, OpsAppend
  <2>2. type # v /\ Cardinality(OpsIn(operands, v)) \in Nat
    BY <1>1, <1>2, OpsCount
  <2>. QED  BY <1>1, <2>1, <2>2
<1>5. \A v \in 1 .. Len(values) :
         Good(values[v], v, Cardinality(OpsIn(operands', v)), blocks, live, returned)
  BY <1>4 DEF CountInv
<1>6. StillUncounted(values, values)
  BY DEF StillUncounted
<1>. QED  BY <1>1, <1>2, <1>3, <1>5, <1>6, WithinBlock

\* A variant that exists has one operand more.
LEMMA ReadyReturned ==
    ASSUME CountInv, NEW fails \in BOOLEAN, fails => Running
    PROVE  /\ Ready(values, Uses, blocks, live, returned \/ fails, Running /\ ~ fails)
           /\ Running \in BOOLEAN /\ (returned \/ fails) \in BOOLEAN
           /\ ~ (returned \/ fails) => Running = live
<1>1. live \in BOOLEAN /\ returned \in BOOLEAN
  BY DEF CountInv, Types
<1>2. /\ Running \in BOOLEAN /\ (returned \/ fails) \in BOOLEAN
      /\ ~ (returned \/ fails) => Running = live
  BY <1>1 DEF Running
<1>. QED  BY <1>2, ReadyNow

LEMMA LookupCountInv ==
    ASSUME CountInv, Lookup
    PROVE  CountInv'
<1>1. /\ values' = Append(values, Borrowed(TRUE)) /\ operands' = Append(operands, NewId)
      /\ UNCHANGED <<blocks, live, returned, finished>> /\ ~ finished
  BY DEF Lookup, CanPush, Compiling
<1>2. /\ values \in Seq(VariantType) /\ operands \in Seq(Int) /\ Len(values) \in Nat
      /\ \A i \in 1 .. Len(operands) : operands[i] <= Len(values)
      /\ finished \in BOOLEAN /\ returned \in BOOLEAN
  BY DEF CountInv, Types
<1>3. PICK id \in Nat : id = NewId /\ id = Len(values) + 1
  BY <1>2 DEF NewId
<1>4. PICK x : x = Borrowed(TRUE)
  OBVIOUS
<1>5. x \in VariantType /\ Good(x, NewId, 1, blocks, live, returned)
  <2>1. 0 < id
    BY <1>2, <1>3
  <2>2. /\ Borrowed(TRUE) \in VariantType
        /\ Good(Borrowed(TRUE), id, 1, blocks, live, returned)
    BY <2>1, BorrowedGood
  <2>. QED  BY <1>3, <1>4, <2>2
<1>6. Ready(values, Uses, blocks, live, returned, Running)
  <2>1. (returned \/ FALSE) = returned /\ (Running /\ ~ FALSE) = Running
    BY <1>2, ReadyReturned
  <2>. QED  BY <2>1, ReadyReturned
<1>7. /\ Ready(values', UsesAndNew, blocks, live, returned, Running)
      /\ Len(values') = id /\ StillUncounted(values, values')
  BY <1>1, <1>3, <1>4, <1>5, <1>6, CreatedReady
<1>8. values' \in Seq(VariantType) /\ AllGood(values', UsesAndNew, blocks, live, returned)
  BY <1>7 DEF Ready
<1>9. operands' \in Seq(Int) /\ \A i \in 1 .. Len(operands') : operands'[i] <= id
  BY <1>1, <1>2, <1>3
<1>10. ASSUME NEW v \in 1 .. id
       PROVE  Cardinality(OpsIn(operands', v)) = UsesAndNew[v]
  <2>1. Cardinality(OpsIn(Append(operands, id), v)) =
           Cardinality(OpsIn(operands, v)) + IF id = v THEN 1 ELSE 0
    BY <1>2, OpsAppend
  <2>2. Cardinality(OpsIn(operands, id)) = 0 /\ Cardinality(OpsIn(operands, v)) \in Nat
    BY <1>2, <1>3, Unused, OpsCount
  <2>3. UsesAndNew[v] = IF v = id THEN 1 ELSE Uses[v]
    BY <1>3 DEF UsesAndNew
  <2>4. v # id => Uses[v] = Cardinality(OpsIn(operands, v))
    BY <1>3 DEF Uses
  <2>. QED  BY <1>1, <1>3, <2>1, <2>2, <2>3, <2>4
<1>11. \A v \in 1 .. Len(values') :
          Good(values'[v], v, Cardinality(OpsIn(operands', v)), blocks, live, returned)
  BY <1>7, <1>8, <1>10 DEF AllGood
<1>12. Len(values) <= Len(values')
  BY <1>2, <1>3, <1>7
<1>. QED  BY <1>1, <1>2, <1>7, <1>8, <1>9, <1>11, <1>12, WithinBlock

\* A variable of a loop: the key has one use more, the value is not counted.
LEMMA LoopVariableCountInv ==
    ASSUME CountInv, NEW v \in 1 .. MaxValues, LoopVariable(v)
    PROVE  CountInv'
<1>1. /\ values' = [values EXCEPT ![v].count = IF @ = UNCOUNTED THEN @ ELSE @ + 1]
      /\ operands' = Append(operands, v)
      /\ UNCHANGED <<blocks, live, returned, finished>> /\ ~ finished
  BY DEF LoopVariable, CanPush, Compiling
<1>2. /\ values \in Seq(VariantType) /\ operands \in Seq(Int) /\ blocks \in Seq(BlockType)
      /\ Len(values) \in Nat
      /\ \A i \in 1 .. Len(operands) : operands[i] <= Len(values)
      /\ finished \in BOOLEAN /\ returned \in BOOLEAN
  BY DEF CountInv, Types
<1>3. PICK i \in 1 .. Len(blocks) : blocks[i].arm = "body" /\ v \in {blocks[i].key, blocks[i].value}
  <2>1. \E i \in DOMAIN blocks :
           blocks[i].arm = "body" /\ v \in {blocks[i].key, blocks[i].value}
    BY DEF LoopVariable
  <2>. QED  BY <1>2, <2>1
<1>4. v \in Int /\ v \in 1 .. Len(values) /\ values[v] \in VariantType
  <2>1. v \in Int /\ v >= 1
    <3>1. v \in Int
      BY <1>2, <1>3 DEF BlockType
    <3>. QED  BY <3>1
  <2>2. v <= Len(values)
    BY <1>3 DEF CountInv, BlocksOK
  <2>3. v \in 1 .. Len(values)
    BY <1>2, <2>1, <2>2
  <2>. QED  BY <1>2, <2>1, <2>3
<1>5. values[v].count = UNCOUNTED \/ KeysIn(blocks, v) # {}
  <2>1. CASE v = blocks[i].key
    BY <1>3, <2>1 DEF KeysIn
  <2>2. CASE v = blocks[i].value
    BY <1>3, <1>4, <2>2 DEF CountInv, BlocksOK
  <2>. QED  BY <1>3, <2>1, <2>2
<1>6. PICK r : r = [values[v] EXCEPT !.count = IF @ = UNCOUNTED THEN @ ELSE @ + 1]
  OBVIOUS
<1>7. /\ r.count = IF values[v].count = UNCOUNTED THEN UNCOUNTED ELSE values[v].count + 1
      /\ r.root = values[v].root /\ r.refs = values[v].refs /\ r.home = values[v].home
      /\ r.gone = values[v].gone /\ r.passed = values[v].passed
      /\ r \in VariantType
  <2>1. values[v].count \in Nat \cup {UNCOUNTED}
    BY <1>4 DEF VariantType
  <2>2. PICK count : count = IF values[v].count = UNCOUNTED THEN UNCOUNTED
                             ELSE values[v].count + 1
    OBVIOUS
  <2>3. r = [values[v] EXCEPT !.count = count]
    BY <1>6, <2>2
  <2>4. count \in Nat \cup {UNCOUNTED}
    BY <2>1, <2>2
  <2>. QED  BY <1>4, <2>2, <2>3, <2>4 DEF VariantType
<1>8. /\ values' \in Seq(VariantType) /\ Len(values') = Len(values)
      /\ \A w \in 1 .. Len(values) : values'[w] = IF w = v THEN r ELSE values[w]
  <2>1. values' = [values EXCEPT ![v] = r]
    BY <1>1, <1>6
  <2>. QED  BY <1>2, <1>4, <1>7, <2>1
<1>9. StillUncounted(values, values')
  BY <1>7, <1>8 DEF StillUncounted
<1>10. operands' \in Seq(Int) /\ \A j \in 1 .. Len(operands') : operands'[j] <= Len(values)
  BY <1>1, <1>2, <1>4
<1>11. ASSUME NEW w \in 1 .. Len(values)
       PROVE  Good(values'[w], w, Cardinality(OpsIn(operands', w)), blocks, live, returned)
  <2>1. PICK n \in Nat : n = Cardinality(OpsIn(operands, w))
    BY <1>2, OpsCount
  <2>2. Cardinality(OpsIn(operands', w)) = n + IF v = w THEN 1 ELSE 0
    BY <1>1, <1>2, <1>4, <2>1, OpsAppend
  <2>3. Good(values[w], w, n, blocks, live, returned)
    BY <2>1 DEF CountInv
  <2>4. CASE w # v
    BY <1>8, <2>1, <2>2, <2>3, <2>4
  <2>5. CASE w = v
    <3>1. values'[w] = r /\ Cardinality(OpsIn(operands', w)) = n + 1
      BY <1>8, <2>2, <2>5
    <3>2. CASE values[v].count = UNCOUNTED
      <4>1. Good(r, w, n + 1, blocks, live, returned)
        BY <1>7, <2>3, <2>5, <3>2 DEF Good
      <4>. QED  BY <3>1, <4>1
    <3>3. CASE values[v].count # UNCOUNTED
      <4>1. KeysIn(blocks, w) # {}
        BY <1>5, <2>5, <3>3
      <4>2. values[w].count \in Nat
        BY <1>4, <2>5, <3>3 DEF VariantType
      <4>3. CountOK(r, w, n + 1, blocks)
        <5>1. CountOK(values[w], w, n, blocks)
          BY <2>3, <2>5, <3>3 DEF Good
        <5>2. /\ Cardinality(KeysIn(blocks, w)) \in Nat /\ Cardinality(ItsIn(blocks, w)) \in Nat
              /\ values[w].passed \in Nat
          BY <1>2, <1>4, <2>5, Counts DEF VariantType
        <5>. QED  BY <1>7, <2>5, <3>3, <5>1, <5>2, SMTT(60) DEF CountOK
      <4>4. HomeOK(r, w, n + 1, blocks)
        BY <1>7, <2>3, <2>5, <3>3, <4>1 DEF Good, HomeOK
      <4>5. RefsOK(r, w, n + 1, blocks, live, returned)
        BY <1>7, <2>3, <2>5, <3>3, <4>1, <4>2 DEF Good, RefsOK, NeededIn
      <4>6. Good(r, w, n + 1, blocks, live, returned)
        BY <1>7, <2>3, <2>5, <3>3, <4>2, <4>3, <4>4, <4>5 DEF Good, UNCOUNTED
      <4>. QED  BY <3>1, <4>6
    <3>. QED  BY <3>2, <3>3
  <2>. QED  BY <2>4, <2>5
<1>12. /\ values' \in Seq(VariantType) /\ Len(values) <= Len(values')
       /\ operands' \in Seq(Int)
       /\ \A j \in 1 .. Len(operands') : operands'[j] <= Len(values')
       /\ \A w \in 1 .. Len(values') :
             Good(values'[w], w, Cardinality(OpsIn(operands', w)), blocks, live, returned')
  <2>1. returned' = returned /\ Len(values) \in Nat
    BY <1>1, <1>2
  <2>2. values' \in Seq(VariantType) /\ Len(values') = Len(values)
    BY <1>8
  <2>. QED  BY <1>10, <1>11, <2>1, <2>2
<1>13. UNCHANGED <<blocks, live>> /\ ~ finished' /\ finished' \in BOOLEAN /\ returned' \in BOOLEAN
  BY <1>1, <1>2
<1>. QED  BY <1>9, <1>12, <1>13, WithinBlock

\* Operands that are no variants are used by nobody.
LEMMA NativeUnused ==
    ASSUME CountInv, NEW n \in {1, 2}, Len(operands) >= n, Native(Used(n)),
           NEW v \in 1 .. Len(values)
    PROVE  Cardinality(OpsIn(operands, v)) = Cardinality(OpsIn(Before(n), v))
<1>1. /\ Types /\ operands \in Seq(Int) /\ Len(operands) \in Nat /\ n \in 0 .. Len(operands)
      /\ v >= 1
  BY DEF CountInv, Types
<1>2. PICK b \in Seq(Int) : b = Before(n)
  BY <1>1, OperandsBefore
<1>3. Cardinality(OpsIn(b, v)) \in Nat
  BY <1>2, OpsCount
<1>4. \A i \in 1 .. Len(Used(n)) : Used(n)[i] < 1
  <2>1. DOMAIN Used(n) = 1 .. Len(Used(n))
    <3>1. \A i \in Len(operands) - n + 1 .. Len(operands) : operands[i] \in Int
      BY <1>1
    <3>2. Used(n) \in Seq(Int)
      BY <1>1, <3>1, SubSeqProperties DEF Used
    <3>. QED  BY <3>2
  <2>. QED  BY <2>1 DEF Native
<1>5. CASE n = 1
  <2>1. operands[Len(operands)] < 1
    BY <1>1, <1>4, <1>5, TheUsed
  <2>. QED  BY <1>1, <1>2, <1>3, <1>5, <2>1, OpsLast DEF Before
<1>6. CASE n = 2
  <2>1. operands[Len(operands) - 1] < 1 /\ operands[Len(operands)] < 1
    BY <1>1, <1>4, <1>6, TheUsed, SMTT(60)
  <2>2. operands[Len(operands) - 1] # v /\ operands[Len(operands)] # v
    BY <1>1, <2>1
  <2>. QED  BY <1>1, <1>2, <1>3, <1>6, <2>2, OpsLastTwo, SMTT(60) DEF Before
<1>. QED  BY <1>5, <1>6

\* An operand that is no variant is pushed on some of those there are.
LEMMA NativePushed ==
    ASSUME NEW b \in Seq(Int), NEW k \in Nat, \A i \in 1 .. Len(b) : b[i] <= k,
           NEW e \in Int, e < 1
    PROVE  /\ Append(b, e) \in Seq(Int)
           /\ \A i \in 1 .. Len(Append(b, e)) : Append(b, e)[i] <= k
           /\ \A v \in 1 .. k : Cardinality(OpsIn(Append(b, e), v)) = Cardinality(OpsIn(b, v))
<1>1. ASSUME NEW v \in 1 .. k
      PROVE  Cardinality(OpsIn(Append(b, e), v)) = Cardinality(OpsIn(b, v))
  <2>1. Cardinality(OpsIn(Append(b, e), v)) =
           Cardinality(OpsIn(b, v)) + IF e = v THEN 1 ELSE 0
    BY OpsAppend
  <2>2. e # v /\ Cardinality(OpsIn(b, v)) \in Nat
    BY OpsCount
  <2>. QED  BY <2>1, <2>2
<1>2. /\ Append(b, e) \in Seq(Int)
      /\ \A i \in 1 .. Len(Append(b, e)) : Append(b, e)[i] <= k
  OBVIOUS
<1>. QED  BY <1>1, <1>2

LEMMA BeforeType ==
    ASSUME CountInv, NEW n \in 0 .. Len(operands)
    PROVE  /\ Before(n) \in Seq(Int) /\ Len(values) \in Nat
           /\ \A i \in 1 .. Len(Before(n)) : Before(n)[i] <= Len(values)
<1>1. /\ Types /\ Len(values) \in Nat /\ Len(operands) \in Nat
      /\ \A i \in 1 .. Len(operands) : operands[i] <= Len(values)
  BY DEF CountInv, Types
<1>2. /\ Before(n) \in Seq(Int) /\ Len(Before(n)) = Len(operands) - n
      /\ \A i \in 1 .. Len(operands) - n : Before(n)[i] = operands[i]
  BY <1>1, OperandsBefore
<1>3. \A i \in 1 .. Len(operands) - n : i \in 1 .. Len(operands)
  BY <1>1
<1>. QED  BY <1>1, <1>2, <1>3

LEMMA NativeOperationCountInv ==
    ASSUME CountInv, NEW n \in {1, 2}, NativeOperation(n)
    PROVE  CountInv'
<1>1. PICK e : e = IF ToSet(Used(n)) = {BOOL} THEN BOOL ELSE NATIVE
  OBVIOUS
<1>2. /\ operands' = Append(Before(n), e) /\ e \in Int /\ e < 1
      /\ Len(operands) >= n /\ Native(Used(n))
      /\ UNCHANGED <<values, blocks, live, returned, finished>> /\ ~ finished
  BY <1>1 DEF NativeOperation, Compiling, NATIVE, BOOL
<1>3. /\ values \in Seq(VariantType) /\ Len(values) \in Nat
      /\ finished \in BOOLEAN /\ returned \in BOOLEAN /\ n \in 0 .. Len(operands)
  BY <1>2 DEF CountInv, Types
<1>4. PICK b \in Seq(Int) : b = Before(n) /\ \A i \in 1 .. Len(b) : b[i] <= Len(values)
  BY <1>3, BeforeType
<1>5. /\ operands' \in Seq(Int) /\ \A i \in 1 .. Len(operands') : operands'[i] <= Len(values)
      /\ \A v \in 1 .. Len(values) :
            Cardinality(OpsIn(operands', v)) = Cardinality(OpsIn(b, v))
  BY <1>2, <1>3, <1>4, NativePushed
<1>6. \A v \in 1 .. Len(values) :
         Good(values[v], v, Cardinality(OpsIn(operands', v)), blocks, live, returned)
  BY <1>2, <1>4, <1>5, NativeUnused DEF CountInv
<1>7. StillUncounted(values, values)
  BY DEF StillUncounted
<1>. QED  BY <1>2, <1>3, <1>5, <1>6, <1>7, WithinBlock

LEMMA VariantOperationCountInv ==
    ASSUME CountInv, NEW n \in {1, 2}, NEW fails \in BOOLEAN, VariantOperation(n, fails)
    PROVE  CountInv'
<1>1. /\ values' = AllOutOfScope(Append(values, Result(n)), Used(n), Running /\ ~ fails)
      /\ operands' = Append(Before(n), NewId)
      /\ returned' = (returned \/ fails)
      /\ UNCHANGED <<blocks, live, finished>> /\ ~ finished
      /\ fails => Running
      /\ Len(operands) >= n
  BY DEF VariantOperation, CanCreate, Compiling
<1>2. /\ Ready(values, Uses, blocks, live, returned \/ fails, Running /\ ~ fails)
      /\ Running \in BOOLEAN /\ (returned \/ fails) \in BOOLEAN
      /\ ~ (returned \/ fails) => Running = live
  BY <1>1, ReadyReturned
<1>3. PICK ret \in BOOLEAN : ret = (returned \/ fails)
  OBVIOUS
<1>4. PICK runs : runs = (Running /\ ~ fails)
  OBVIOUS
<1>5. PICK x : x = Result(n)
  OBVIOUS
<1>6. x \in VariantType /\ Good(x, NewId, 1, blocks, live, ret)
  <2>1. PICK table \in BOOLEAN :
           table = (n = 2 /\ \A v \in ToSet(Used(n)) : v >= 1 /\ values[v].table)
    OBVIOUS
  <2>2. PICK call \in BOOLEAN : call = \E v \in ToSet(Used(n)) : v >= 1 /\ values[v].call
    OBVIOUS
  <2>3. x = Temporary(Running, table, call, Here)
    BY <1>5, <2>1, <2>2, Zenon DEF Result
  <2>. QED  BY <1>2, <1>3, <2>3, TemporaryGood
<1>7. /\ values' = AllOutOfScope(Append(values, x), Used(n), runs)
      /\ Ready(values, Uses, blocks, live, ret, runs) /\ returned' = ret
  BY <1>1, <1>2, <1>3, <1>4, <1>5
<1>8. /\ values' \in Seq(VariantType) /\ Len(values) <= Len(values')
      /\ StillUncounted(values, values')
      /\ operands' \in Seq(Int) /\ \A i \in 1 .. Len(operands') : operands'[i] <= Len(values')
      /\ \A v \in 1 .. Len(values') :
            Good(values'[v], v, Cardinality(OpsIn(operands', v)), blocks, live, ret)
  <2>1. PICK new : new = AllOutOfScope(Append(values, x), Used(n), runs)
    OBVIOUS
  <2>2. PICK ops : ops = Append(Before(n), NewId)
    OBVIOUS
  <2>3. Ready(values, Uses, blocks, live, ret, runs) /\ Len(operands) >= n
    BY <1>1, <1>7
  <2>4. /\ new \in Seq(VariantType) /\ Len(values) <= Len(new)
        /\ StillUncounted(values, new)
        /\ ops \in Seq(Int) /\ \A i \in 1 .. Len(ops) : ops[i] <= Len(new)
        /\ \A v \in 1 .. Len(new) :
              Good(new[v], v, Cardinality(OpsIn(ops, v)), blocks, live, ret)
    BY <1>6, <2>1, <2>2, <2>3, ResultPushed
  <2>5. values' = new /\ operands' = ops
    BY <1>1, <1>7, <2>1, <2>2
  <2>. QED  BY <2>4, <2>5
<1>9. UNCHANGED <<blocks, live>> /\ ~ finished' /\ finished' \in BOOLEAN
  BY <1>1 DEF CountInv, Types
<1>. QED  BY <1>7, <1>8, <1>9, WithinBlock
LEMMA UsesAre ==
    ASSUME CountInv, NEW u, u = Uses, NEW n \in {1, 2}, Len(operands) >= n
    PROVE  /\ Types /\ Len(values) \in Nat /\ n \in 0 .. Len(operands)
           /\ \A v \in 1 .. Len(values) : u[v] = Cardinality(OpsIn(operands, v))
           /\ \A v \in 1 .. Len(values) : /\ Cardinality(OpsIn(operands, v)) \in Nat
                                          /\ Cardinality(OpsIn(Before(n), v)) \in Nat
<1>1. /\ Types /\ Len(values) \in Nat /\ operands \in Seq(Int) /\ n \in 0 .. Len(operands)
  BY DEF CountInv, Types
<1>2. Before(n) \in Seq(Int)
  BY <1>1, OperandsBefore
<1>. QED  BY <1>1, <1>2, OpsCount DEF Uses

\* The last operands are used, and the expression goes on.
LEMMA LastUsed ==
    ASSUME CountInv, NEW n \in {1, 2}, Len(operands) >= n, NEW ret, NEW runs,
           Ready(values, Uses, blocks, live, ret, runs),
           NEW new, new = AllOutOfScope(values, Used(n), runs)
    PROVE  /\ new \in Seq(VariantType) /\ Len(new) = Len(values)
           /\ StillUncounted(values, new)
           /\ \A v \in 1 .. Len(values) :
                 Good(new[v], v, Cardinality(OpsIn(Before(n), v)), blocks, live, ret)
<1>1. PICK u : u = Uses
  OBVIOUS
<1>2. /\ Types /\ Len(values) \in Nat
      /\ \A v \in 1 .. Len(values) : u[v] = Cardinality(OpsIn(operands, v))
      /\ \A v \in 1 .. Len(values) : /\ Cardinality(OpsIn(operands, v)) \in Nat
                                     /\ Cardinality(OpsIn(Before(n), v)) \in Nat
  BY <1>1, UsesAre
<1>3. /\ Ready(values, u, blocks, live, ret, runs) /\ Len(values) <= Len(values)
      /\ \A v \in 1 .. Len(values) : u[v] >= Cardinality(OpsIn(operands, v))
  BY <1>1, <1>2
<1>4. /\ new \in Seq(VariantType) /\ Len(new) = Len(values) /\ StillUncounted(values, new)
      /\ \A v \in 1 .. Len(values) :
            Good(new[v], v, u[v] - Cardinality(OpsIn(operands, v))
                            + Cardinality(OpsIn(Before(n), v)), blocks, live, ret)
  BY <1>2, <1>3, OperandsUsed
<1>5. \A v \in 1 .. Len(values) :
         u[v] - Cardinality(OpsIn(operands, v)) + Cardinality(OpsIn(Before(n), v))
         = Cardinality(OpsIn(Before(n), v))
  BY <1>2
<1>. QED  BY <1>4, <1>5

LEMMA ComparisonCountInv ==
    ASSUME CountInv, NEW fails \in BOOLEAN, Comparison(fails)
    PROVE  CountInv'
<1>1. /\ values' = AllOutOfScope(values, Used(2), Running /\ ~ fails)
      /\ operands' = Append(Before(2), BOOL) /\ BOOL \in Int /\ BOOL < 1
      /\ returned' = (returned \/ fails)
      /\ UNCHANGED <<blocks, live, finished>> /\ ~ finished
      /\ fails => Running
      /\ Len(operands) >= 2
  BY DEF Comparison, Compiling, BOOL
<1>2. /\ Ready(values, Uses, blocks, live, returned \/ fails, Running /\ ~ fails)
      /\ (returned \/ fails) \in BOOLEAN
  BY <1>1, ReadyReturned
<1>3. PICK ret \in BOOLEAN : ret = (returned \/ fails)
  OBVIOUS
<1>4. PICK runs : runs = (Running /\ ~ fails)
  OBVIOUS
<1>5. PICK new : new = AllOutOfScope(values, Used(2), runs)
  OBVIOUS
<1>6. values' = new /\ returned' = ret
  BY <1>1, <1>3, <1>4, <1>5
<1>7. Ready(values, Uses, blocks, live, ret, runs)
  BY <1>2, <1>3, <1>4
<1>8. /\ new \in Seq(VariantType) /\ Len(new) = Len(values) /\ StillUncounted(values, new)
      /\ \A v \in 1 .. Len(values) :
            Good(new[v], v, Cardinality(OpsIn(Before(2), v)), blocks, live, ret)
  BY <1>1, <1>5, <1>7, LastUsed
<1>9. PICK b \in Seq(Int) : /\ b = Before(2) /\ Len(values) \in Nat
                            /\ \A i \in 1 .. Len(b) : b[i] <= Len(values)
  <2>1. 2 \in 0 .. Len(operands)
    BY <1>1 DEF CountInv, Types
  <2>. QED  BY <2>1, BeforeType
<1>10. /\ operands' \in Seq(Int) /\ \A i \in 1 .. Len(operands') : operands'[i] <= Len(values)
       /\ \A v \in 1 .. Len(values) :
             Cardinality(OpsIn(operands', v)) = Cardinality(OpsIn(b, v))
  BY <1>1, <1>9, NativePushed
<1>11. /\ values' \in Seq(VariantType) /\ Len(values) <= Len(values')
       /\ StillUncounted(values, values')
       /\ \A i \in 1 .. Len(operands') : operands'[i] <= Len(values')
       /\ \A v \in 1 .. Len(values') :
             Good(values'[v], v, Cardinality(OpsIn(operands', v)), blocks, live, ret)
  BY <1>6, <1>8, <1>9, <1>10
<1>12. UNCHANGED <<blocks, live>> /\ ~ finished' /\ finished' \in BOOLEAN
  BY <1>1 DEF CountInv, Types
<1>. QED  BY <1>6, <1>10, <1>11, <1>12, WithinBlock

LEMMA PrintBlockCountInv ==
    ASSUME CountInv, NEW array \in BOOLEAN, PrintBlock(array)
    PROVE  CountInv'
<1>1. /\ values' = OutOfScope(values, operands[1], Here, Running)
      /\ operands' = <<>> /\ Len(operands) = 1
      /\ UNCHANGED <<blocks, live, returned, finished>> /\ ~ finished
  BY DEF PrintBlock, Complete, Compiling
<1>2. Ready(values, Uses, blocks, live, returned, Running)
  <2>1. (returned \/ FALSE) = returned /\ (Running /\ ~ FALSE) = Running
    BY ReadyReturned DEF CountInv, Types
  <2>. QED  BY <2>1, ReadyReturned
<1>3. Types /\ Len(values) \in Nat
  BY DEF CountInv, Types
<1>4. PICK new : new = AllOutOfScope(values, Used(1), Running)
  OBVIOUS
<1>5. values' = new
  <2>1. Len(Used(1)) = 1 /\ Used(1)[1] = operands[1]
    BY <1>1, <1>3, TheUsed
  <2>. QED  BY <1>1, <1>4, <2>1 DEF AllOutOfScope
<1>6. /\ new \in Seq(VariantType) /\ Len(new) = Len(values) /\ StillUncounted(values, new)
      /\ \A v \in 1 .. Len(values) :
            Good(new[v], v, Cardinality(OpsIn(Before(1), v)), blocks, live, returned)
  BY <1>1, <1>2, <1>4, LastUsed
<1>7. Before(1) = <<>>
  <2>1. Before(1) \in Seq(Int) /\ Len(Before(1)) = 0
    BY <1>1, <1>3, OperandsBefore
  <2>. QED  BY <2>1
<1>8. /\ values' \in Seq(VariantType) /\ Len(values) <= Len(values')
      /\ StillUncounted(values, values')
      /\ operands' \in Seq(Int) /\ \A i \in 1 .. Len(operands') : operands'[i] <= Len(values')
      /\ \A v \in 1 .. Len(values') :
            Good(values'[v], v, Cardinality(OpsIn(operands', v)), blocks, live, returned)
  BY <1>1, <1>3, <1>5, <1>6, <1>7
<1>9. /\ UNCHANGED <<blocks, live>> /\ ~ finished' /\ finished' \in BOOLEAN
      /\ returned' = returned /\ returned \in BOOLEAN
  BY <1>1 DEF CountInv, Types
<1>. QED  BY <1>8, <1>9, WithinBlock

LEMMA GetAttributeCountInv ==
    ASSUME CountInv, NEW found \in BOOLEAN, GetAttribute(found)
    PROVE  CountInv'
<1>1. PICK a : a = operands[Len(operands)]
  OBVIOUS
<1>2. /\ values' = OutOfScope(Append(values, Attribute(found)), a, Here, Running)
      /\ operands' = Append(Before(1), NewId)
      /\ UNCHANGED <<blocks, live, returned, finished>> /\ ~ finished
      /\ Len(operands) >= 1 /\ a >= 1
  BY <1>1 DEF GetAttribute, StandsForVariable, CanCreate, Compiling
<1>3. Types /\ Len(values) \in Nat /\ returned \in BOOLEAN /\ finished \in BOOLEAN
  BY DEF CountInv, Types
<1>4. a \in 1 .. Len(values)
  <2>1. operands \in Seq(Int) /\ \A i \in 1 .. Len(operands) : operands[i] <= Len(values)
    BY <1>3 DEF Types
  <2>2. Len(operands) \in 1 .. Len(operands)
    BY <1>2, <2>1
  <2>. QED  BY <1>1, <1>2, <1>3, <2>1, <2>2
<1>5. PICK x : x = Attribute(found)
  OBVIOUS
<1>6. x \in VariantType /\ Good(x, NewId, 1, blocks, live, returned)
  <2>1. PICK id \in Nat : id = NewId /\ 0 < id
    BY <1>3 DEF NewId
  <2>2. x = Borrowed(found)
    BY <1>5 DEF Attribute
  <2>. QED  BY <2>1, <2>2, BorrowedGood
<1>7. Ready(values, Uses, blocks, live, returned, Running)
  <2>1. (returned \/ FALSE) = returned /\ (Running /\ ~ FALSE) = Running
    BY ReadyReturned DEF CountInv, Types
  <2>. QED  BY <2>1, ReadyReturned
<1>8. PICK new : new = AllOutOfScope(Append(values, x), Used(1), Running)
  OBVIOUS
<1>9. PICK ops : ops = Append(Before(1), NewId)
  OBVIOUS
<1>10. values' = new /\ operands' = ops
  <2>1. Len(Used(1)) = 1 /\ Used(1)[1] = a
    BY <1>1, <1>2, <1>3, TheUsed
  <2>. QED  BY <1>2, <1>5, <1>8, <1>9, <2>1 DEF AllOutOfScope
<1>11. /\ new \in Seq(VariantType) /\ Len(values) <= Len(new) /\ StillUncounted(values, new)
       /\ ops \in Seq(Int) /\ \A i \in 1 .. Len(ops) : ops[i] <= Len(new)
       /\ \A v \in 1 .. Len(new) :
             Good(new[v], v, Cardinality(OpsIn(ops, v)), blocks, live, returned)
  BY <1>2, <1>6, <1>7, <1>8, <1>9, ResultPushed
<1>12. /\ UNCHANGED <<blocks, live>> /\ ~ finished' /\ finished' \in BOOLEAN
       /\ returned' = returned /\ returned' \in BOOLEAN
  BY <1>2, <1>3
<1>. QED  BY <1>10, <1>11, <1>12, WithinBlock

\* The operands of a value are those used and those before them.
LEMMA ArgumentsUsed ==
    ASSUME CountInv, NEW n \in 0 .. Len(operands), NEW v
    PROVE  /\ Arguments(n, v) \in Nat
           /\ Cardinality(OpsIn(operands, v)) = Cardinality(OpsIn(Before(n), v)) + Arguments(n, v)
<1>1. operands \in Seq(Int) /\ Len(operands) \in Nat /\ Types
  BY DEF CountInv, Types
<1>2. PICK b \in Seq(Int) : /\ b = Before(n) /\ Len(b) = Len(operands) - n
                            /\ \A i \in 1 .. Len(operands) - n : b[i] = operands[i]
  BY <1>1, OperandsBefore
<1>3. PICK A : A = {i \in DOMAIN operands : i > Len(operands) - n /\ operands[i] = v}
  OBVIOUS
<1>4. PICK B : B = OpsIn(b, v)
  OBVIOUS
<1>5. A \subseteq 1 .. Len(operands)
  BY <1>1, <1>3
<1>6. B \subseteq 1 .. Len(operands)
  BY <1>1, <1>2, <1>4 DEF OpsIn
<1>7. /\ IsFiniteSet(A) /\ Cardinality(A) \in Nat
      /\ IsFiniteSet(B) /\ Cardinality(B) \in Nat
  BY <1>1, <1>5, <1>6, FiniteIndices
<1>8. A \cap B = {}
  BY <1>1, <1>2, <1>3, <1>4 DEF OpsIn
<1>9. OpsIn(operands, v) = B \cup A
  <2>1. \A i \in 1 .. Len(operands) :
           /\ i \in B <=> i <= Len(operands) - n /\ operands[i] = v
           /\ i \in A <=> i > Len(operands) - n /\ operands[i] = v
    BY <1>1, <1>2, <1>3, <1>4, SMTT(60) DEF OpsIn
  <2>2. \A i \in 1 .. Len(operands) : i <= Len(operands) - n \/ i > Len(operands) - n
    BY <1>1
  <2>3. \A i \in 1 .. Len(operands) : operands[i] = v <=> i \in B \/ i \in A
    BY <2>1, <2>2
  <2>. QED  BY <1>5, <1>6, <2>3 DEF OpsIn
<1>10. Cardinality(B \cup A) = Cardinality(B) + Cardinality(A)
  <2>1. Cardinality(B \cup A) = Cardinality(B) + Cardinality(A) - Cardinality(B \cap A)
    BY <1>7, FS_Union
  <2>2. Cardinality(B \cap A) = 0
    BY <1>8, FS_EmptySet
  <2>3. PICK c, d, e : c = Cardinality(B \cup A) /\ d = Cardinality(B) /\ e = Cardinality(A)
    OBVIOUS
  <2>4. c = d + e - 0 /\ d \in Nat /\ e \in Nat
    BY <1>7, <2>1, <2>2, <2>3
  <2>5. c = d + e
    BY <2>4
  <2>. QED  BY <2>3, <2>5
<1>11. Arguments(n, v) = Cardinality(A)
  BY <1>3 DEF Arguments
<1>. QED  BY <1>2, <1>4, <1>7, <1>9, <1>10, <1>11

Passed(r, k) == [r EXCEPT !.passed = @ + k]

\* What was passed to a function stays counted.
LEMMA PassedGood ==
    ASSUME NEW r \in VariantType, NEW v \in Nat, NEW bs \in Seq(BlockType),
           NEW lv, NEW ret, NEW n \in Nat, NEW k \in Nat,
           Good(r, v, n + k, bs, lv, ret),
           NEW p, p = Passed(r, k)
    PROVE  /\ p \in VariantType /\ (r.count = UNCOUNTED => p.count = UNCOUNTED)
           /\ Good(p, v, n, bs, lv, ret)
<1>1. r.passed \in Nat /\ r.count \in Nat \cup {UNCOUNTED}
  BY DEF VariantType
<1>2. PICK passed \in Nat : passed = r.passed + k
  BY <1>1
<1>3. p = [r EXCEPT !.passed = passed]
  BY <1>2 DEF Passed
<1>4. /\ p.count = r.count /\ p.root = r.root /\ p.refs = r.refs /\ p.home = r.home
      /\ p.gone = r.gone /\ p.passed = passed /\ p \in VariantType
  BY <1>2, <1>3 DEF VariantType
<1>5. CASE r.count = UNCOUNTED
  BY <1>4, <1>5 DEF Good
<1>6. CASE r.count # UNCOUNTED
  <2>1. CountOK(r, v, n + k, bs) /\ HomeOK(r, v, n + k, bs) /\ RefsOK(r, v, n + k, bs, lv, ret)
    BY <1>6 DEF Good
  <2>2. CountOK(p, v, n, bs)
    <3>1. Cardinality(KeysIn(bs, v)) \in Nat /\ Cardinality(ItsIn(bs, v)) \in Nat
      BY Counts
    <3>. QED  BY <1>1, <1>2, <1>4, <2>1, <3>1, SMTT(60) DEF CountOK
  <2>3. HomeOK(p, v, n, bs)
    BY <1>4, <2>1 DEF HomeOK
  <2>4. RefsOK(p, v, n, bs, lv, ret)
    BY <1>4, <2>1 DEF RefsOK, NeededIn
  <2>. QED  BY <1>4, <1>6, <2>2, <2>3, <2>4 DEF Good
<1>. QED  BY <1>4, <1>5, <1>6

LEMMA MethodCallCountInv ==
    ASSUME CountInv, NEW n \in 1 .. MaxOperands, NEW fails \in BOOLEAN, MethodCall(n, fails)
    PROVE  CountInv'
<1>1. /\ values' = Append([v \in DOMAIN values |->
                             [values[v] EXCEPT !.passed = @ + Arguments(n, v)]],
                          Temporary(Running, TRUE, TRUE, Here))
      /\ operands' = Append(Before(n), NewId)
      /\ returned' = (returned \/ fails)
      /\ UNCHANGED <<blocks, live, finished>> /\ ~ finished
      /\ fails => Running
      /\ Len(operands) >= n
  BY DEF MethodCall, CanCreate, Compiling
<1>2. /\ values \in Seq(VariantType) /\ Len(values) \in Nat /\ DOMAIN values = 1 .. Len(values)
      /\ operands \in Seq(Int) /\ blocks \in Seq(BlockType) /\ n \in 0 .. Len(operands)
      /\ finished \in BOOLEAN
  BY <1>1 DEF CountInv, Types
<1>3. PICK ret \in BOOLEAN : ret = (returned \/ fails)
  BY <1>1, ReadyReturned
<1>4. PICK x : x = Temporary(Running, TRUE, TRUE, Here)
  OBVIOUS
<1>5. x \in VariantType /\ Good(x, NewId, 1, blocks, live, ret)
  BY <1>1, <1>3, <1>4, ReadyReturned, TemporaryGood
<1>6. PICK vs : vs = [v \in DOMAIN values |-> [values[v] EXCEPT !.passed = @ + Arguments(n, v)]]
  OBVIOUS
<1>7. PICK id \in Nat : id = NewId /\ id = Len(values) + 1
  BY <1>2 DEF NewId
<1>8. PICK b \in Seq(Int) : b = Before(n) /\ \A i \in 1 .. Len(b) : b[i] <= Len(values)
  BY <1>2, BeforeType
<1>9. ASSUME NEW v \in 1 .. Len(values)
      PROVE  /\ vs[v] \in VariantType
             /\ values[v].count = UNCOUNTED => vs[v].count = UNCOUNTED
             /\ Good(vs[v], v, Cardinality(OpsIn(b, v)), blocks, live, ret)
  <2>1. PICK k \in Nat : /\ k = Arguments(n, v)
                         /\ Cardinality(OpsIn(operands, v)) = Cardinality(OpsIn(b, v)) + k
    BY <1>2, <1>8, ArgumentsUsed
  <2>2. PICK m \in Nat : m = Cardinality(OpsIn(b, v))
    BY OpsCount
  <2>3. PICK r : r = values[v]
    OBVIOUS
  <2>4. r \in VariantType /\ v \in Nat
    BY <1>2, <2>3
  <2>5. Good(r, v, m + k, blocks, live, ret)
    <3>1. Good(r, v, m + k, blocks, live, returned)
      BY <2>1, <2>2, <2>3 DEF CountInv
    <3>2. returned \in BOOLEAN
      BY DEF CountInv, Types
    <3>. QED  BY <1>3, <3>1, <3>2, GoodReturned
  <2>6. vs[v] = [r EXCEPT !.passed = @ + k]
    <3>1. v \in DOMAIN values
      BY <1>2
    <3>2. vs[v] = [values[v] EXCEPT !.passed = @ + Arguments(n, v)]
      BY <1>6, <3>1, Zenon
    <3>. QED  BY <2>1, <2>3, <3>2, Zenon
  <2>7. PICK p : p = vs[v]
    OBVIOUS
  <2>8. /\ p \in VariantType /\ (r.count = UNCOUNTED => p.count = UNCOUNTED)
        /\ Good(p, v, m, blocks, live, ret)
    <3>1. p = Passed(r, k)
      BY <2>6, <2>7, Zenon DEF Passed
    <3>2. blocks \in Seq(BlockType)
      BY <1>2
    <3>. QED  BY <2>4, <2>5, <3>1, <3>2, PassedGood
  <2>. QED  BY <2>2, <2>3, <2>7, <2>8
<1>10. vs \in Seq(VariantType) /\ Len(vs) = Len(values) /\ StillUncounted(values, vs)
  <2>1. vs \in [1 .. Len(values) -> VariantType]
    BY <1>2, <1>6, <1>9
  <2>2. vs \in Seq(VariantType) /\ Len(vs) = Len(values)
    BY <1>2, <2>1, SMTT(60)
  <2>. QED  BY <1>9, <2>2 DEF StillUncounted
<1>11. values' = Append(vs, x) /\ operands' = Append(b, id)
  <2>1. values' = Append([v \in DOMAIN values |->
                            [values[v] EXCEPT !.passed = @ + Arguments(n, v)]],
                         Temporary(Running, TRUE, TRUE, Here))
    BY <1>1
  <2>2. operands' = Append(Before(n), NewId)
    BY <1>1
  <2>. QED  BY <1>4, <1>6, <1>7, <1>8, <2>1, <2>2, Zenon
<1>12. /\ values' \in Seq(VariantType) /\ Len(values') = id /\ values'[id] = x
       /\ \A v \in 1 .. Len(values) : values'[v] = vs[v]
  <2>1. PICK new : new = values' /\ new = Append(vs, x)
    BY <1>11
  <2>2. /\ new \in Seq(VariantType) /\ Len(new) = Len(vs) + 1 /\ new[Len(vs) + 1] = x
        /\ \A v \in 1 .. Len(vs) : new[v] = vs[v]
    BY <1>5, <1>10, <2>1
  <2>. QED  BY <1>7, <1>10, <2>1, <2>2
<1>13. StillUncounted(values, values')
  BY <1>10, <1>12 DEF StillUncounted
<1>14. operands' \in Seq(Int) /\ \A i \in 1 .. Len(operands') : operands'[i] <= id
  BY <1>2, <1>7, <1>8, <1>11, SMTT(60)
<1>15. ASSUME NEW v \in 1 .. id
       PROVE  Good(values'[v], v, Cardinality(OpsIn(operands', v)), blocks, live, ret)
  <2>1. Cardinality(OpsIn(Append(b, id), v)) = Cardinality(OpsIn(b, v)) + IF id = v THEN 1 ELSE 0
    BY OpsAppend
  <2>2. Cardinality(OpsIn(b, v)) \in Nat
    BY OpsCount
  <2>3. CASE v = id
    <3>1. \A i \in 1 .. Len(b) : b[i] # v
      BY <1>2, <1>7, <1>8, <2>3, SMTT(60)
    <3>2. OpsIn(b, v) = {}
      BY <3>1 DEF OpsIn
    <3>3. Cardinality(OpsIn(b, v)) = 0
      BY <3>2, FS_EmptySet
    <3>. QED  BY <1>5, <1>7, <1>11, <1>12, <2>1, <2>3, <3>3
  <2>4. CASE v \in 1 .. Len(values)
    <3>1. v # id
      BY <1>2, <1>7, <2>4
    <3>. QED  BY <1>9, <1>11, <1>12, <2>1, <2>2, <2>4, <3>1
  <2>. QED  BY <1>2, <1>7, <2>3, <2>4
<1>16. /\ Len(values) <= Len(values') /\ returned' = ret
       /\ \A i \in 1 .. Len(operands') : operands'[i] <= Len(values')
       /\ \A v \in 1 .. Len(values') :
             Good(values'[v], v, Cardinality(OpsIn(operands', v)), blocks, live, ret)
  <2>1. returned' = ret
    BY <1>1, <1>3
  <2>2. Len(values) <= Len(values')
    BY <1>2, <1>7, <1>12
  <2>3. Len(values') = id
    BY <1>12
  <2>. QED  BY <1>14, <1>15, <2>1, <2>2, <2>3
<1>17. UNCHANGED <<blocks, live>> /\ ~ finished' /\ finished' \in BOOLEAN
  BY <1>1, <1>2
<1>. QED  BY <1>12, <1>13, <1>14, <1>16, <1>17, WithinBlock

-----------------------------------------------------------------------------
(***************************************************************************)
(* Blocks.  To be good inside a block that it is not the key of, without   *)
(* operands, a variant is good around it; as an operand, if the block      *)
(* iterates over it.                                                       *)
(***************************************************************************)
LEMMA OneMoreBlock ==
    ASSUME NEW c \in Seq(BlockType), NEW b \in BlockType, NEW v
    PROVE  /\ Append(c, b) \in Seq(BlockType) /\ Len(Append(c, b)) = Len(c) + 1
           /\ Len(c) \in Nat /\ Append(c, b)[Len(c) + 1] = b
           /\ \A i \in 1 .. Len(c) : Append(c, b)[i] = c[i]
           /\ KeysIn(Append(c, b), v) =
                 KeysIn(c, v) \cup IF b.arm = "body" /\ b.key = v THEN {Len(c) + 1} ELSE {}
           /\ ItsIn(Append(c, b), v) =
                 ItsIn(c, v) \cup IF b.iterable = v THEN {Len(c) + 1} ELSE {}
           /\ KeysIn(c, v) \subseteq 1 .. Len(c) /\ ItsIn(c, v) \subseteq 1 .. Len(c)
<1>1. PICK bs : bs = Append(c, b)
  OBVIOUS
<1>2. PICK m \in Nat : m = Len(c)
  OBVIOUS
<1>3. /\ bs \in Seq(BlockType) /\ Len(bs) = m + 1 /\ bs[m + 1] = b
      /\ \A i \in 1 .. m : bs[i] = c[i]
      /\ \A i \in 1 .. m + 1 : i \in 1 .. m \/ i = m + 1
      /\ m + 1 \notin 1 .. m
  BY <1>1, <1>2
<1>4. KeysIn(bs, v) = KeysIn(c, v) \cup IF b.arm = "body" /\ b.key = v THEN {m + 1} ELSE {}
  BY <1>2, <1>3 DEF KeysIn
<1>5. ItsIn(bs, v) = ItsIn(c, v) \cup IF b.iterable = v THEN {m + 1} ELSE {}
  BY <1>2, <1>3 DEF ItsIn
<1>6. KeysIn(c, v) \subseteq 1 .. Len(c) /\ ItsIn(c, v) \subseteq 1 .. Len(c)
  BY DEF KeysIn, ItsIn
<1>. QED  BY <1>1, <1>2, <1>3, <1>4, <1>5, <1>6

LEMMA GoodAroundIsInside ==
    ASSUME NEW c \in Seq(BlockType), NEW b \in BlockType, NEW v \in Nat, NEW r,
           ~ (b.arm = "body" /\ b.key = v), NEW n, n = IF b.iterable = v THEN 1 ELSE 0,
           NEW bs, bs = Append(c, b), NEW lv, NEW ret
    PROVE  Good(r, v, n, c, b.around, ret) <=> Good(r, v, 0, bs, lv, ret)
<1>1. PICK m \in Nat : m = Len(c)
  OBVIOUS
<1>2. PICK K : K = KeysIn(c, v)
  OBVIOUS
<1>3. PICK I : I = ItsIn(c, v)
  OBVIOUS
<1>4. /\ bs \in Seq(BlockType) /\ Len(bs) = m + 1 /\ bs[m + 1] = b
      /\ \A i \in 1 .. m : bs[i] = c[i]
      /\ K \subseteq 1 .. m /\ I \subseteq 1 .. m
      /\ KeysIn(bs, v) = K
  <2>1. /\ bs \in Seq(BlockType) /\ Len(bs) = m + 1 /\ bs[m + 1] = b
        /\ \A i \in 1 .. m : bs[i] = c[i]
    BY <1>1, OneMoreBlock
  <2>2. K \subseteq 1 .. m /\ I \subseteq 1 .. m
    BY <1>1, <1>2, <1>3, OneMoreBlock
  <2>3. KeysIn(bs, v) = K \cup IF b.arm = "body" /\ b.key = v THEN {m + 1} ELSE {}
    BY <1>1, <1>2, OneMoreBlock
  <2>4. KeysIn(bs, v) = K
    BY <2>3
  <2>. QED  BY <2>1, <2>2, <2>4
<1>5. ItsIn(bs, v) = I \cup IF b.iterable = v THEN {m + 1} ELSE {}
  BY <1>1, <1>3, OneMoreBlock
<1>6. Cardinality(K) \in Nat /\ Cardinality(I) \in Nat
  BY <1>2, <1>3, Counts
<1>7. Cardinality(ItsIn(bs, v)) = Cardinality(I) + n
  <2>1. CASE b.iterable = v
    <3>1. Cardinality(I \cup {m + 1}) = Cardinality(I) + 1
      BY <1>4, OneMore
    <3>. QED  BY <1>5, <2>1, <3>1
  <2>2. CASE b.iterable # v
    BY <1>5, <1>6, <2>2
  <2>. QED  BY <2>1, <2>2
<1>8. CountOK(r, v, n, c) <=> CountOK(r, v, 0, bs)
  <2>1. PICK x, y \in Nat : x = Cardinality(K) /\ y = Cardinality(I)
    BY <1>6
  <2>2. n + x + y = 0 + x + (y + n)
    BY <2>1
  <2>. QED  BY <1>2, <1>3, <1>4, <1>7, <2>1, <2>2 DEF CountOK
<1>9. \A k \in 0 .. m : PlaceAt(c, k) = PlaceAt(bs, k)
  BY <1>1, <1>4 DEF PlaceAt
<1>10. HomeOK(r, v, n, c) <=> HomeOK(r, v, 0, bs)
  <2>1. \A j \in I : j - 1 \in 0 .. m
    BY <1>4
  <2>2. \A i \in K : m + 1 > i
    BY <1>4
  <2>3. \A j \in I : PlaceAt(c, j - 1) = PlaceAt(bs, j - 1)
    BY <1>9, <2>1
  <2>4. PlaceAt(c, m) = PlaceAt(bs, m + 1 - 1)
    BY <1>9
  <2>5. CASE b.iterable = v
    <3>1. n > 0 /\ ~ (0 > 0) /\ ItsIn(bs, v) = I \cup {m + 1}
      BY <1>5, <2>5
    <3>. QED  BY <1>1, <1>2, <1>3, <1>4, <2>2, <2>3, <2>4, <3>1, SMTT(60) DEF HomeOK
  <2>6. CASE b.iterable # v
    <3>1. ~ (n > 0) /\ ~ (0 > 0) /\ ItsIn(bs, v) = I
      BY <1>5, <2>6
    <3>. QED  BY <1>1, <1>2, <1>3, <1>4, <2>3, <3>1 DEF HomeOK
  <2>. QED  BY <2>5, <2>6
<1>11. NeededIn(v, n, c) <=> NeededIn(v, 0, bs)
  BY <1>2, <1>3, <1>4, <1>5 DEF NeededIn
<1>12. ASSUME HomeOK(r, v, n, c), NeededIn(v, n, c)
       PROVE  LiveAt(c, b.around, r.home[1]) = LiveAt(bs, lv, r.home[1])
  <2>1. r.home[1] \in 0 .. m
    <3>1. CASE K # {}
      BY <1>2, <1>4, <1>12, <3>1 DEF HomeOK
    <3>2. CASE K = {} /\ n > 0
      BY <1>1, <1>2, <1>12, <3>2 DEF HomeOK, PlaceAt
    <3>3. CASE K = {} /\ I # {}
      <4>1. PICK j \in I : TRUE
        BY <3>3
      <4>2. r.home = PlaceAt(c, j - 1)
        BY <1>2, <1>3, <1>12, <3>3, <4>1 DEF HomeOK
      <4>3. j - 1 \in 0 .. m
        BY <1>4, <4>1
      <4>. QED  BY <4>2, <4>3 DEF PlaceAt
    <3>. QED  BY <1>2, <1>3, <1>12, <3>1, <3>2, <3>3 DEF NeededIn
  <2>2. PICK k \in 0 .. m : k = r.home[1]
    BY <2>1
  <2>3. CASE k = m
    BY <1>1, <1>4, <2>2, <2>3 DEF LiveAt
  <2>4. CASE k # m
    <3>1. k + 1 \in 1 .. m /\ k # m + 1
      BY <2>2, <2>4
    <3>. QED  BY <1>1, <1>4, <2>2, <2>4, <3>1 DEF LiveAt
  <2>. QED  BY <2>3, <2>4
<1>13. HomeOK(r, v, n, c) =>
          (RefsOK(r, v, n, c, b.around, ret) <=> RefsOK(r, v, 0, bs, lv, ret))
  BY <1>11, <1>12 DEF RefsOK
<1>. QED  BY <1>8, <1>10, <1>13 DEF Good

LEMMA BlocksOpened ==
    ASSUME NEW c \in Seq(BlockType), NEW b \in BlockType, NEW vs, NEW lv,
           BlocksOK(vs, c, b.around),
           b.key <= Len(vs), b.value <= Len(vs), b.iterable <= Len(vs),
           b.value >= 1 => vs[b.value].count = UNCOUNTED,
           lv => b.around, b.arm \in {"then", "else"} => b.iterable = 0,
           NEW bs, bs = Append(c, b)
    PROVE  BlocksOK(vs, bs, lv)
<1>1. PICK m \in Nat : m = Len(c)
  OBVIOUS
<1>2. /\ Len(bs) = m + 1 /\ bs[m + 1] = b
      /\ \A i \in 1 .. m : bs[i] = c[i]
  BY <1>1
<1>3. ASSUME NEW i \in 1 .. m
      PROVE  LiveAt(bs, lv, i) = LiveAt(c, b.around, i)
  <2>1. CASE i = m
    BY <1>1, <1>2, <2>1 DEF LiveAt
  <2>2. CASE i # m
    <3>1. i + 1 \in 1 .. m /\ i # m + 1
      BY <2>2
    <3>. QED  BY <1>1, <1>2, <2>2, <3>1 DEF LiveAt
  <2>. QED  BY <2>1, <2>2
<1>4. ASSUME NEW i \in 1 .. m, LiveAt(bs, lv, i), NEW j \in 1 .. i
      PROVE  bs[j].around
  <2>1. LiveAt(c, b.around, i) /\ j \in 1 .. m
    BY <1>3, <1>4
  <2>2. c[j].around
    BY <1>1, <1>4, <2>1 DEF BlocksOK
  <2>. QED  BY <1>2, <2>1, <2>2
<1>5. ASSUME LiveAt(bs, lv, m + 1), NEW j \in 1 .. m + 1
      PROVE  bs[j].around
  <2>1. b.around
    BY <1>2, <1>5 DEF LiveAt
  <2>2. CASE j = m + 1
    BY <1>2, <2>1, <2>2
  <2>3. CASE j # m + 1
    <3>1. m \in 1 .. m /\ j \in 1 .. m
      BY <2>3
    <3>2. LiveAt(bs, lv, m)
      BY <1>2, <2>1 DEF LiveAt
    <3>. QED  BY <1>4, <3>1, <3>2
  <2>. QED  BY <2>2, <2>3
<1>6. ASSUME NEW i \in 1 .. m + 1
      PROVE  /\ bs[i].key <= Len(vs) /\ bs[i].value <= Len(vs) /\ bs[i].iterable <= Len(vs)
             /\ bs[i].value >= 1 => vs[bs[i].value].count = UNCOUNTED
             /\ bs[i].arm \in {"then", "else"} => bs[i].iterable = 0
  <2>1. CASE i = m + 1
    BY <1>2, <2>1
  <2>2. CASE i # m + 1
    <3>1. i \in 1 .. m
      BY <2>2
    <3>. QED  BY <1>1, <1>2, <3>1 DEF BlocksOK
  <2>. QED  BY <2>1, <2>2
<1>7. \A i \in 1 .. m + 1 : LiveAt(bs, lv, i) => \A j \in 1 .. i : bs[j].around
  <2>1. \A i \in 1 .. m + 1 : i = m + 1 \/ i \in 1 .. m
    OBVIOUS
  <2>. QED  BY <1>4, <1>5, <2>1
<1>. QED  BY <1>2, <1>6, <1>7 DEF BlocksOK

LEMMA BlocksClosed ==
    ASSUME NEW c \in Seq(BlockType), NEW b \in BlockType, NEW vs, NEW lv,
           NEW bs, bs = Append(c, b), BlocksOK(vs, bs, lv)
    PROVE  /\ BlocksOK(vs, c, b.around)
           /\ b.key <= Len(vs) /\ b.value <= Len(vs) /\ b.iterable <= Len(vs)
           /\ b.value >= 1 => vs[b.value].count = UNCOUNTED
           /\ b.arm \in {"then", "else"} => b.iterable = 0
<1>1. PICK m \in Nat : m = Len(c)
  OBVIOUS
<1>2. /\ Len(bs) = m + 1 /\ bs[m + 1] = b /\ m + 1 \in 1 .. m + 1
      /\ \A i \in 1 .. m : i \in 1 .. m + 1 /\ bs[i] = c[i]
  BY <1>1
<1>3. ASSUME NEW i \in 1 .. m
      PROVE  LiveAt(bs, lv, i) = LiveAt(c, b.around, i)
  <2>1. CASE i = m
    BY <1>1, <1>2, <2>1 DEF LiveAt
  <2>2. CASE i # m
    <3>1. i + 1 \in 1 .. m /\ i # m + 1
      BY <2>2
    <3>. QED  BY <1>1, <1>2, <2>2, <3>1 DEF LiveAt
  <2>. QED  BY <2>1, <2>2
<1>4. ASSUME NEW i \in 1 .. m, LiveAt(c, b.around, i), NEW j \in 1 .. i
      PROVE  c[j].around
  <2>1. LiveAt(bs, lv, i) /\ j \in 1 .. m /\ i \in 1 .. m + 1
    BY <1>3, <1>4
  <2>2. bs[j].around
    BY <1>2, <1>4, <2>1 DEF BlocksOK
  <2>. QED  BY <1>2, <2>1, <2>2
<1>5. ASSUME NEW i \in 1 .. m
      PROVE  /\ c[i].key <= Len(vs) /\ c[i].value <= Len(vs) /\ c[i].iterable <= Len(vs)
             /\ c[i].value >= 1 => vs[c[i].value].count = UNCOUNTED
             /\ c[i].arm \in {"then", "else"} => c[i].iterable = 0
  BY <1>2 DEF BlocksOK
<1>6. BlocksOK(vs, c, b.around)
  BY <1>1, <1>4, <1>5 DEF BlocksOK
<1>. QED  BY <1>2, <1>6 DEF BlocksOK

\* The block that is compiled and those around it.
LEMMA TheTop ==
    ASSUME CountInv, blocks # <<>>
    PROVE  /\ Pop(blocks) \in Seq(BlockType) /\ Top \in BlockType
           /\ blocks = Append(Pop(blocks), Top)
           /\ Len(blocks) = Len(Pop(blocks)) + 1
<1>1. blocks \in Seq(BlockType) /\ Len(blocks) >= 1
  BY DEF CountInv, Types
<1>2. PICK c, b : c = Pop(blocks) /\ b = Top
  OBVIOUS
<1>3. c \in Seq(BlockType) /\ b \in BlockType /\ blocks = Append(c, b)
  BY <1>1, <1>2, Rejoined DEF Pop, Front, Top
<1>4. Len(blocks) = Len(c) + 1
  BY <1>3
<1>. QED  BY <1>2, <1>3, <1>4

WithArm(b, arm) == [b EXCEPT !.arm = arm]

Put(s, k, e) == [s EXCEPT ![k] = e]

LEMMA Appended ==
    ASSUME NEW S, NEW c \in Seq(S), NEW d \in S, NEW new \in Seq(S),
           Len(new) = Len(c) + 1, new[Len(c) + 1] = d,
           \A i \in 1 .. Len(c) : new[i] = c[i]
    PROVE  new = Append(c, d)
OBVIOUS

LEMMA LastReplaced ==
    ASSUME NEW S, NEW c \in Seq(S), NEW d \in S, NEW bs \in Seq(S), NEW k \in 1 .. Len(bs),
           Len(bs) = k, k = Len(c) + 1, \A i \in 1 .. Len(c) : bs[i] = c[i]
    PROVE  Put(bs, k, d) = Append(c, d)
<1>1. /\ Put(bs, k, d) \in Seq(S) /\ Len(Put(bs, k, d)) = Len(bs)
      /\ Put(bs, k, d)[k] = d
      /\ \A i \in 1 .. Len(bs) : i # k => Put(bs, k, d)[i] = bs[i]
  BY DEF Put
<1>2. PICK new \in Seq(S) : new = Put(bs, k, d)
  BY <1>1
<1>3. Len(new) = Len(c) + 1 /\ new[Len(c) + 1] = d
  BY <1>1, <1>2
<1>4. ASSUME NEW i \in 1 .. Len(c)
      PROVE  new[i] = c[i]
  <2>1. i \in 1 .. Len(bs) /\ i # k
    OBVIOUS
  <2>. QED  BY <1>1, <1>2, <2>1
<1>5. new = Append(c, d)
  BY <1>3, <1>4, Appended
<1>. QED  BY <1>2, <1>5

LEMMA AnotherArm ==
    ASSUME CountInv, blocks # <<>>, NEW arm \in Arm,
           NEW new, new = [blocks EXCEPT ![Len(blocks)].arm = arm]
    PROVE  /\ new = Append(Pop(blocks), WithArm(Top, arm))
           /\ WithArm(Top, arm) \in BlockType
           /\ WithArm(Top, arm).arm = arm /\ WithArm(Top, arm).key = Top.key
           /\ WithArm(Top, arm).value = Top.value /\ WithArm(Top, arm).iterable = Top.iterable
           /\ WithArm(Top, arm).around = Top.around
<1>1. PICK c, b : c = Pop(blocks) /\ b = Top
  OBVIOUS
<1>2. c \in Seq(BlockType) /\ b \in BlockType /\ blocks = Append(c, b) /\ Len(blocks) = Len(c) + 1
  BY <1>1, TheTop
<1>3. PICK d : d = WithArm(b, arm)
  OBVIOUS
<1>4. /\ d \in BlockType /\ d.arm = arm /\ d.key = b.key /\ d.value = b.value
      /\ d.iterable = b.iterable /\ d.around = b.around
  BY <1>2, <1>3 DEF BlockType, WithArm
<1>5. new = [blocks EXCEPT ![Len(blocks)] = d]
  <2>1. blocks[Len(blocks)] = b
    BY <1>1 DEF Top
  <2>. QED  BY <1>3, <2>1 DEF WithArm
<1>6. new = Append(c, d)
  <2>1. PICK k, bs : k = Len(blocks) /\ bs = blocks
    OBVIOUS
  <2>2. new = Put(bs, k, d)
    BY <1>5, <2>1, Zenon DEF Put
  <2>3. /\ bs \in Seq(BlockType) /\ c \in Seq(BlockType) /\ d \in BlockType
        /\ k \in 1 .. Len(bs) /\ Len(bs) = k /\ k = Len(c) + 1
        /\ \A i \in 1 .. Len(c) : bs[i] = c[i]
    BY <1>2, <1>4, <2>1
  <2>4. Put(bs, k, d) = Append(c, d)
    BY <2>3, LastReplaced
  <2>. QED  BY <2>2, <2>4
<1>. QED  BY <1>1, <1>3, <1>4, <1>6

\* Between statements no operand is left.
LEMMA NoOperands ==
    ASSUME NEW v
    PROVE  OpsIn(<<>>, v) = {} /\ Cardinality(OpsIn(<<>>, v)) = 0
<1>1. OpsIn(<<>>, v) = {}
  BY DEF OpsIn
<1>. QED  BY <1>1, FS_EmptySet

\* A step from one statement to the next.
LEMMA BetweenStatements ==
    ASSUME CountInv, ~ finished', finished' \in BOOLEAN, operands' = <<>>,
           returned' \in BOOLEAN, live' \in BOOLEAN,
           values' \in Seq(VariantType), blocks' \in Seq(BlockType),
           BlocksOK(values', blocks', live'),
           \A v \in 1 .. Len(values') : Good(values'[v], v, 0, blocks', live', returned')
    PROVE  CountInv'
<1>1. \A v : Cardinality(OpsIn(operands', v)) = 0
  BY NoOperands
<1>2. Types'
  <2>1. operands' \in Seq(Int) /\ \A i \in 1 .. Len(operands') : operands'[i] <= Len(values')
    OBVIOUS
  <2>. QED  BY <2>1 DEF Types
<1>. QED  BY <1>1, <1>2 DEF CountInv

\* The arm of the innermost block ends: for the other arm, ...
LEMMA BeginElseCountInv ==
    ASSUME CountInv, BeginElse
    PROVE  CountInv'
<1>1. /\ blocks # <<>> /\ Top.arm = "then" /\ operands = <<>> /\ ~ finished
      /\ blocks' = [blocks EXCEPT ![Len(blocks)].arm = "else"]
      /\ live' = (Top.around /\ ~ Top.taken)
      /\ UNCHANGED <<values, operands, returned, finished>>
  BY DEF BeginElse, AtStatement, Compiling
<1>2. PICK c, b : c = Pop(blocks) /\ b = Top
  OBVIOUS
<1>3. PICK d : d = WithArm(b, "else")
  OBVIOUS
<1>4. /\ c \in Seq(BlockType) /\ b \in BlockType /\ blocks = Append(c, b) /\ b.arm = "then"
  BY <1>1, <1>2, TheTop
<1>5. /\ blocks' = Append(c, d) /\ d \in BlockType /\ d.arm = "else" /\ d.key = b.key
      /\ d.value = b.value /\ d.iterable = b.iterable /\ d.around = b.around
  <2>1. "else" \in Arm
    BY DEF Arm
  <2>. QED  BY <1>1, <1>2, <1>3, <2>1, AnotherArm
<1>6. live' \in BOOLEAN /\ (live' => d.around)
  BY <1>1, <1>2, <1>5 DEF BlockType
<1>7. /\ values \in Seq(VariantType) /\ returned \in BOOLEAN /\ finished \in BOOLEAN
      /\ Len(values) \in Nat /\ BlocksOK(values, blocks, live)
  BY DEF CountInv, Types
<1>8. BlocksOK(values, blocks', live')
  <2>1. /\ BlocksOK(values, c, b.around)
        /\ b.key <= Len(values) /\ b.value <= Len(values) /\ b.iterable <= Len(values)
        /\ b.value >= 1 => values[b.value].count = UNCOUNTED
        /\ b.arm \in {"then", "else"} => b.iterable = 0
    BY <1>4, <1>7, BlocksClosed
  <2>2. /\ BlocksOK(values, c, d.around)
        /\ d.key <= Len(values) /\ d.value <= Len(values) /\ d.iterable <= Len(values)
        /\ d.value >= 1 => values[d.value].count = UNCOUNTED
        /\ d.arm \in {"then", "else"} => d.iterable = 0
    BY <1>4, <1>5, <2>1
  <2>. QED  BY <1>4, <1>5, <1>6, <2>2, BlocksOpened
<1>9. ASSUME NEW v \in 1 .. Len(values)
      PROVE  Good(values[v], v, 0, blocks', live', returned)
  <2>1. Good(values[v], v, 0, blocks, live, returned)
    BY <1>1, NoOperands DEF CountInv
  <2>2. PICK n : n = IF b.iterable = v THEN 1 ELSE 0
    OBVIOUS
  <2>3. v \in Nat
    OBVIOUS
  <2>4. Good(values[v], v, n, c, b.around, returned)
    BY <1>4, <2>1, <2>2, <2>3, GoodAroundIsInside
  <2>5. /\ ~ (d.arm = "body" /\ d.key = v) /\ n = (IF d.iterable = v THEN 1 ELSE 0)
        /\ Good(values[v], v, n, c, d.around, returned)
    BY <1>5, <2>2, <2>4
  <2>. QED  BY <1>4, <1>5, <2>3, <2>5, GoodAroundIsInside
<1>10. values' = values /\ operands' = <<>> /\ returned' = returned /\ finished' = finished
  BY <1>1
<1>11. blocks' \in Seq(BlockType)
  BY <1>4, <1>5
<1>12. /\ values' \in Seq(VariantType) /\ BlocksOK(values', blocks', live')
       /\ \A v \in 1 .. Len(values') : Good(values'[v], v, 0, blocks', live', returned')
       /\ ~ finished' /\ finished' \in BOOLEAN /\ returned' \in BOOLEAN
  <2>1. ~ finished
    BY <1>1
  <2>. QED  BY <1>7, <1>8, <1>9, <1>10, <2>1
<1>. QED  BY <1>6, <1>10, <1>11, <1>12, BetweenStatements

\* ... or for what is around it.
LEMMA TopClosed ==
    ASSUME CountInv, operands = <<>>, blocks # <<>>, Top.arm # "body",
           NEW c, c = Pop(blocks)
    PROVE  /\ c \in Seq(BlockType) /\ Top.around \in BOOLEAN
           /\ BlocksOK(values, c, Top.around)
           /\ \A v \in 1 .. Len(values) :
                 Good(values[v], v, IF Top.iterable = v THEN 1 ELSE 0, c, Top.around, returned)
           /\ Top.iterable \in Nat /\ Top.iterable <= Len(values)
           /\ Top.arm = "else" => Top.iterable = 0
<1>1. PICK b : b = Top
  OBVIOUS
<1>2. /\ c \in Seq(BlockType) /\ b \in BlockType /\ blocks = Append(c, b) /\ b.arm # "body"
  BY <1>1, TheTop
<1>3. b.around \in BOOLEAN /\ b.iterable \in Nat
  BY <1>2 DEF BlockType
<1>4. /\ BlocksOK(values, c, b.around)
      /\ b.iterable <= Len(values)
      /\ b.arm \in {"then", "else"} => b.iterable = 0
  <2>1. BlocksOK(values, blocks, live)
    BY DEF CountInv
  <2>. QED  BY <1>2, <2>1, BlocksClosed
<1>5. ASSUME NEW v \in 1 .. Len(values)
      PROVE  Good(values[v], v, IF b.iterable = v THEN 1 ELSE 0, c, b.around, returned)
  <2>1. Good(values[v], v, 0, blocks, live, returned)
    BY NoOperands DEF CountInv
  <2>2. PICK n : n = IF b.iterable = v THEN 1 ELSE 0
    OBVIOUS
  <2>3. v \in Nat
    BY DEF CountInv, Types
  <2>4. Good(values[v], v, n, c, b.around, returned)
    BY <1>2, <2>1, <2>2, <2>3, GoodAroundIsInside
  <2>. QED  BY <2>2, <2>4
<1>. QED  BY <1>1, <1>2, <1>3, <1>4, <1>5

LEMMA EndIfCountInv ==
    ASSUME CountInv, EndIf
    PROVE  CountInv'
<1>1. /\ blocks # <<>> /\ Top.arm = "else" /\ operands = <<>> /\ ~ finished
      /\ blocks' = Pop(blocks) /\ live' = Top.around
      /\ UNCHANGED <<values, operands, returned, finished>>
  BY DEF EndIf, AtStatement, Compiling
<1>2. PICK c, around : c = Pop(blocks) /\ around = Top.around
  OBVIOUS
<1>3. /\ c \in Seq(BlockType) /\ around \in BOOLEAN
      /\ BlocksOK(values, c, around)
      /\ \A v \in 1 .. Len(values) :
            Good(values[v], v, IF Top.iterable = v THEN 1 ELSE 0, c, around, returned)
      /\ Top.iterable = 0
  BY <1>1, <1>2, TopClosed
<1>4. \A v \in 1 .. Len(values) : Good(values[v], v, 0, c, around, returned)
  <2>1. \A v \in 1 .. Len(values) : Top.iterable # v
    BY <1>3
  <2>. QED  BY <1>3, <2>1
<1>5. values \in Seq(VariantType) /\ returned \in BOOLEAN /\ finished \in BOOLEAN
  BY DEF CountInv, Types
<1>6. blocks' = c /\ live' = around /\ values' = values /\ operands' = <<>>
      /\ returned' = returned /\ finished' = finished
  BY <1>1, <1>2
<1>. QED  BY <1>1, <1>3, <1>4, <1>5, <1>6, BetweenStatements

\* What a loop iterates over goes out of scope around the loop.
LEMMA EndForCountInv ==
    ASSUME CountInv, EndFor
    PROVE  CountInv'
<1>1. /\ blocks # <<>> /\ Top.arm = "elsefor" /\ operands = <<>> /\ ~ finished
      /\ blocks' = Pop(blocks) /\ live' = Top.around
      /\ values' = OutOfScope(values, Top.iterable, Around, Top.around /\ ~ returned)
      /\ UNCHANGED <<operands, returned, finished>>
  BY DEF EndFor, AtStatement, Compiling
<1>2. PICK c, around, a : c = Pop(blocks) /\ around = Top.around /\ a = Top.iterable
  OBVIOUS
<1>3. PICK runs : runs = (around /\ ~ returned)
  OBVIOUS
<1>4. /\ c \in Seq(BlockType) /\ around \in BOOLEAN /\ a \in Nat /\ a <= Len(values)
      /\ BlocksOK(values, c, around)
      /\ \A v \in 1 .. Len(values) :
            Good(values[v], v, IF a = v THEN 1 ELSE 0, c, around, returned)
  BY <1>1, <1>2, TopClosed
<1>5. /\ values \in Seq(VariantType) /\ Len(values) \in Nat
      /\ returned \in BOOLEAN /\ finished \in BOOLEAN
  BY DEF CountInv, Types
<1>6. PICK u : u = [v \in 1 .. Len(values) |-> IF a = v THEN 1 ELSE 0]
  OBVIOUS
<1>7. Ready(values, u, c, around, returned, runs)
  <2>1. u \in [1 .. Len(values) -> Nat]
    BY <1>6
  <2>2. AllGood(values, u, c, around, returned)
    BY <1>4, <1>6 DEF AllGood
  <2>. QED  BY <1>3, <1>4, <1>5, <2>1, <2>2 DEF Ready
<1>8. PICK new : new = OutOfScope(values, a, PlaceAt(c, Len(c)), runs)
  OBVIOUS
<1>9. values' = new
  <2>1. c = <<>> <=> Len(c) = 0
    BY <1>4
  <2>2. Around = PlaceAt(c, Len(c))
    BY <1>2, <2>1 DEF Around, Place, PlaceAt
  <2>. QED  BY <1>1, <1>2, <1>3, <1>8, <2>2
<1>10. a >= 1 => u[a] >= 1
  BY <1>4, <1>5, <1>6
<1>11. /\ Ready(new, Without(u, a), c, around, returned, runs)
       /\ Len(new) = Len(values) /\ StillUncounted(values, new)
  BY <1>4, <1>7, <1>8, <1>10, UsedOne
<1>12. /\ new \in Seq(VariantType)
       /\ \A v \in 1 .. Len(new) : Good(new[v], v, 0, c, around, returned)
  <2>1. \A v \in 1 .. Len(values) : Without(u, a)[v] = 0
    BY <1>6 DEF Without
  <2>. QED  BY <1>11, <2>1 DEF Ready, AllGood
<1>13. BlocksOK(new, c, around)
  BY <1>4, <1>5, <1>11, BlocksKept
<1>14. blocks' = c /\ live' = around /\ operands' = <<>>
       /\ returned' = returned /\ finished' = finished
  BY <1>1, <1>2
<1>. QED  BY <1>1, <1>4, <1>5, <1>9, <1>12, <1>13, <1>14, BetweenStatements

LEMMA OneOperand ==
    ASSUME NEW s \in Seq(Int), Len(s) = 1, NEW v
    PROVE  Cardinality(OpsIn(s, v)) = IF s[1] = v THEN 1 ELSE 0
<1>1. OpsIn(s, v) = IF s[1] = v THEN {1} ELSE {}
  BY DEF OpsIn
<1>2. Cardinality({1}) = 1 /\ Cardinality({}) = 0
  BY FS_Singleton, FS_EmptySet
<1>. QED  BY <1>1, <1>2

\* A block begins with what this run does where it is.
LEMMA Opening ==
    ASSUME CountInv, Len(operands) = 1, NEW b \in BlockType, b.around = live,
           b.iterable = IF operands[1] >= 1 THEN operands[1] ELSE 0,
           NEW v \in 1 .. Len(values), ~ (b.arm = "body" /\ b.key = v), NEW lv,
           NEW bs, bs = Append(blocks, b)
    PROVE  Good(values[v], v, 0, bs, lv, returned)
<1>1. operands \in Seq(Int) /\ blocks \in Seq(BlockType) /\ v \in Nat /\ v >= 1
  BY DEF CountInv, Types
<1>2. PICK n \in Nat : n = Cardinality(OpsIn(operands, v))
  BY <1>1, OpsCount
<1>3. n = IF b.iterable = v THEN 1 ELSE 0
  <2>1. PICK o : o = operands[1]
    OBVIOUS
  <2>2. n = IF o = v THEN 1 ELSE 0
    BY <1>1, <1>2, <2>1, OneOperand
  <2>. QED  BY <1>1, <2>1, <2>2
<1>4. Good(values[v], v, n, blocks, b.around, returned)
  BY <1>2 DEF CountInv
<1>. QED  BY <1>1, <1>3, <1>4, GoodAroundIsInside

LEMMA BeginIfCountInv ==
    ASSUME CountInv, NEW taken \in BOOLEAN, BeginIf(taken)
    PROVE  CountInv'
<1>1. PICK b : b = Block("then", None, None, None, taken)
  OBVIOUS
<1>2. /\ blocks' = Append(blocks, b) /\ operands' = <<>> /\ live' = (live /\ taken)
      /\ Len(operands) = 1 /\ operands[1] = BOOL /\ ~ finished
      /\ UNCHANGED <<values, returned, finished>>
  BY <1>1 DEF BeginIf, Complete, Compiling
<1>3. /\ values \in Seq(VariantType) /\ blocks \in Seq(BlockType) /\ Len(values) \in Nat
      /\ live \in BOOLEAN /\ returned \in BOOLEAN /\ finished \in BOOLEAN
      /\ BlocksOK(values, blocks, live)
  BY DEF CountInv, Types
<1>4. /\ b \in BlockType /\ b.around = live /\ b.arm = "then" /\ b.iterable = 0
      /\ b.key = 0 /\ b.value = 0
  BY <1>1, <1>3 DEF Block, BlockType, None, Arm
<1>5. BlocksOK(values, blocks', live')
  <2>1. PICK lv \in BOOLEAN : lv = (live /\ taken)
    BY <1>3
  <2>2. /\ BlocksOK(values, blocks, b.around) /\ (lv => b.around)
        /\ b.key <= Len(values) /\ b.value <= Len(values) /\ b.iterable <= Len(values)
        /\ b.value >= 1 => values[b.value].count = UNCOUNTED
    <3>1. BlocksOK(values, blocks, b.around)
      BY <1>3, <1>4
    <3>2. lv => b.around
      BY <1>4, <2>1
    <3>. QED  BY <1>3, <1>4, <3>1, <3>2
  <2>3. BlocksOK(values, Append(blocks, b), lv)
    BY <1>3, <1>4, <2>2, BlocksOpened
  <2>. QED  BY <1>2, <2>1, <2>3
<1>6. ASSUME NEW v \in 1 .. Len(values)
      PROVE  Good(values[v], v, 0, blocks', live', returned)
  <2>1. b.iterable = IF operands[1] >= 1 THEN operands[1] ELSE 0
    BY <1>2, <1>4 DEF BOOL
  <2>2. ~ (b.arm = "body" /\ b.key = v)
    BY <1>4
  <2>. QED  BY <1>2, <1>4, <2>1, <2>2, Opening
<1>7. /\ values' = values /\ returned' = returned /\ finished' = finished
      /\ operands' = <<>> /\ ~ finished
  BY <1>2
<1>8. blocks' \in Seq(BlockType) /\ live' \in BOOLEAN
  BY <1>2, <1>3, <1>4
<1>. QED  BY <1>3, <1>5, <1>6, <1>7, <1>8, BetweenStatements

LEMMA TemporaryType ==
    ASSUME NEW runs \in BOOLEAN, NEW table \in BOOLEAN, NEW call \in BOOLEAN,
           NEW home \in Where, NewId \in Nat
    PROVE  LET r == Temporary(runs, table, call, home)
           IN  /\ r \in VariantType /\ r.count = 1 /\ r.root = NewId /\ r.home = home
               /\ r.refs = (IF runs THEN 1 ELSE 0) /\ r.gone = Nowhere /\ r.passed = 0
<1>1. PICK id \in Nat : id = NewId
  OBVIOUS
<1>2. PICK refs \in Nat : refs = IF runs THEN 1 ELSE 0
  OBVIOUS
<1>3. PICK gone \in Where : gone = Nowhere
  <2>1. Nowhere \in Where
    BY DEF Nowhere, Where
  <2>. QED  BY <2>1
<1>4. PICK r : r = Temporary(runs, table, call, home)
  OBVIOUS
<1>5. r = [count |-> 1, root |-> id, refs |-> refs, table |-> table,
           call |-> call, home |-> home, gone |-> gone, passed |-> 0]
  BY <1>1, <1>2, <1>3, <1>4 DEF Temporary, Variant
<1>6. r \in VariantType
  BY <1>5 DEF VariantType
<1>7. /\ r.count = 1 /\ r.root = NewId /\ r.home = home
      /\ r.refs = (IF runs THEN 1 ELSE 0) /\ r.gone = Nowhere /\ r.passed = 0
  BY <1>1, <1>2, <1>3, <1>5
<1>. QED  BY <1>4, <1>6, <1>7

\* The zval of a key is made in the body of its loop.
LEMMA KeyGood ==
    ASSUME CountInv, NEW id \in Nat, id > Len(values), id = NewId,
           NEW b \in BlockType, b.arm = "body", b.key = id, b.iterable # id,
           NEW bs, bs = Append(blocks, b),
           NEW lv \in BOOLEAN, NEW runs \in BOOLEAN, ~ returned => runs = lv,
           NEW r \in VariantType, r.count = 1, r.root = id, r.home = Inside,
           r.refs = (IF runs THEN 1 ELSE 0), r.gone = Nowhere, r.passed = 0
    PROVE  Good(r, id, 0, bs, lv, returned)
<1>1. PICK m \in Nat : m = Len(blocks) /\ blocks \in Seq(BlockType)
  BY DEF CountInv, Types
<1>2. r.home = <<m + 1, "body">>
  BY <1>1 DEF Inside
<1>3. /\ Len(bs) = m + 1
      /\ KeysIn(bs, id) = KeysIn(blocks, id) \cup {m + 1}
      /\ ItsIn(bs, id) = ItsIn(blocks, id)
  <2>1. Len(bs) = m + 1
    BY <1>1, OneMoreBlock
  <2>2. KeysIn(bs, id) =
           KeysIn(blocks, id) \cup IF b.arm = "body" /\ b.key = id THEN {m + 1} ELSE {}
    BY <1>1, OneMoreBlock
  <2>3. ItsIn(bs, id) = ItsIn(blocks, id) \cup IF b.iterable = id THEN {m + 1} ELSE {}
    BY <1>1, OneMoreBlock
  <2>. QED  BY <2>1, <2>2, <2>3
<1>4. KeysIn(bs, id) = {m + 1} /\ ItsIn(bs, id) = {}
  BY <1>3, Unused
<1>5. Cardinality(KeysIn(bs, id)) = 1 /\ Cardinality(ItsIn(bs, id)) = 0
  BY <1>4, FS_EmptySet, FS_Singleton
<1>6. CountOK(r, id, 0, bs)
  BY <1>5 DEF CountOK
<1>7. HomeOK(r, id, 0, bs)
  BY <1>2, <1>4 DEF HomeOK
<1>8. RefsOK(r, id, 0, bs, lv, returned)
  <2>1. r.home[1] = m + 1
    BY <1>2
  <2>2. LiveAt(bs, lv, m + 1) = lv
    BY <1>3 DEF LiveAt
  <2>3. ~ returned => r.refs = IF lv THEN 1 ELSE 0
    OBVIOUS
  <2>4. r.refs >= 0 /\ r.count # 0
    OBVIOUS
  <2>. QED  BY <2>1, <2>2, <2>3, <2>4 DEF RefsOK
<1>9. r.root \in 0 .. id /\ r.root = id /\ r.count # UNCOUNTED /\ r.gone \in {Nowhere, r.home}
  BY DEF UNCOUNTED
<1>. QED  BY <1>6, <1>7, <1>8, <1>9 DEF Good

\* A loop begins: it needs what it iterates over, and has new variables.
LEMMA LoopOpened ==
    ASSUME CountInv, Len(operands) = 1, operands[1] >= 1,
           NEW b \in BlockType, b.arm = "body", b.around = live, b.iterable = operands[1],
           b.key = 0 \/ b.key > Len(values),
           NEW new \in Seq(VariantType), Len(new) >= Len(values),
           b.key <= Len(new), b.value <= Len(new),
           b.value >= 1 => new[b.value].count = UNCOUNTED,
           \A v \in 1 .. Len(values) : new[v] = values[v],
           NEW bs, bs = Append(blocks, b), NEW lv \in BOOLEAN, lv => live,
           \A v \in 1 .. Len(new) :
              v > Len(values) => Good(new[v], v, 0, bs, lv, returned)
    PROVE  /\ bs \in Seq(BlockType) /\ BlocksOK(new, bs, lv)
           /\ \A v \in 1 .. Len(new) : Good(new[v], v, 0, bs, lv, returned)
<1>1. /\ blocks \in Seq(BlockType) /\ Len(values) \in Nat /\ Len(new) \in Nat
      /\ b.iterable <= Len(values) /\ BlocksOK(values, blocks, live)
      /\ operands \in Seq(Int)
  BY DEF CountInv, Types
<1>2. bs \in Seq(BlockType)
  BY <1>1
<1>3. StillUncounted(values, new)
  BY DEF StillUncounted
<1>4. BlocksOK(new, blocks, b.around)
  <2>1. BlocksOK(new, blocks, live)
    BY <1>1, <1>3, BlocksKept
  <2>. QED  BY <2>1
<1>5. b.iterable <= Len(new) /\ (lv => b.around) /\ ~ (b.arm \in {"then", "else"})
  <2>1. b.iterable \in Nat
    BY DEF BlockType
  <2>2. b.iterable <= Len(new)
    BY <1>1, <2>1
  <2>3. lv => b.around
    OBVIOUS
  <2>4. ~ (b.arm \in {"then", "else"})
    OBVIOUS
  <2>. QED  BY <2>2, <2>3, <2>4
<1>6. BlocksOK(new, bs, lv)
  BY <1>1, <1>4, <1>5, BlocksOpened
<1>7. ASSUME NEW v \in 1 .. Len(values)
      PROVE  Good(new[v], v, 0, bs, lv, returned)
  <2>1. b.iterable = IF operands[1] >= 1 THEN operands[1] ELSE 0
    OBVIOUS
  <2>2. ~ (b.arm = "body" /\ b.key = v)
    BY <1>1
  <2>3. Good(values[v], v, 0, bs, lv, returned)
    BY <2>1, <2>2, Opening
  <2>. QED  BY <2>3
<1>8. \A v \in 1 .. Len(new) : v \in 1 .. Len(values) \/ v > Len(values)
  BY <1>1
<1>. QED  BY <1>2, <1>6, <1>7, <1>8

LEMMA Extended ==
    ASSUME NEW S, NEW s \in Seq(S), NEW t \in Seq(S), NEW new, new = s \o t
    PROVE  /\ new \in Seq(S) /\ Len(new) = Len(s) + Len(t)
           /\ \A i \in 1 .. Len(s) : new[i] = s[i]
           /\ \A i \in 1 .. Len(t) : new[Len(s) + i] = t[i]
OBVIOUS

LEMMA BeginForCountInv ==
    ASSUME CountInv, NEW hasKey \in BOOLEAN, NEW taken \in BOOLEAN, BeginFor(hasKey, taken)
    PROVE  CountInv'
<1>1. PICK it, id, key, value, k, x :
         /\ it = operands[1] /\ id = NewId
         /\ key = (IF hasKey THEN NewId ELSE None)
         /\ value = (IF hasKey THEN NewId + 1 ELSE NewId)
         /\ k = Temporary(Running /\ taken, FALSE, FALSE, Inside)
         /\ x = Borrowed(TRUE)
  OBVIOUS
<1>2. PICK b : b = Block("body", key, value, it, taken)
  OBVIOUS
<1>3. /\ values' = values \o IF hasKey THEN <<k, x>> ELSE <<x>>
      /\ blocks' = Append(blocks, b)
      /\ operands' = <<>> /\ live' = (live /\ taken)
      /\ Len(operands) = 1 /\ it >= 1 /\ ~ finished
      /\ UNCHANGED <<returned, finished>>
  BY <1>1, <1>2 DEF BeginFor, StandsForVariable, Complete, Compiling
<1>4. /\ values \in Seq(VariantType) /\ Len(values) \in Nat /\ blocks \in Seq(BlockType)
      /\ operands \in Seq(Int) /\ \A i \in 1 .. Len(operands) : operands[i] <= Len(values)
      /\ live \in BOOLEAN /\ returned \in BOOLEAN /\ finished \in BOOLEAN
      /\ BlocksOK(values, blocks, live)
  BY DEF CountInv, Types
<1>5. /\ id \in Nat /\ id = Len(values) + 1 /\ id = NewId
      /\ it \in 1 .. Len(values) /\ it = operands[1]
  <2>1. it = operands[1] /\ id = NewId
    BY <1>1
  <2>2. Len(operands) = 1 /\ it >= 1
    BY <1>3
  <2>3. it \in Int /\ it <= Len(values)
    <3>1. 1 \in 1 .. Len(operands)
      BY <2>2
    <3>2. operands[1] \in Int /\ operands[1] <= Len(values)
      BY <1>4, <3>1
    <3>. QED  BY <2>1, <3>2
  <2>4. id = Len(values) + 1 /\ id \in Nat
    BY <1>4, <2>1 DEF NewId
  <2>. QED  BY <1>4, <2>1, <2>2, <2>3, <2>4
<1>6. /\ key = (IF hasKey THEN id ELSE 0) /\ value = (IF hasKey THEN id + 1 ELSE id)
      /\ key \in Nat /\ value \in Nat
  BY <1>1, <1>5 DEF None
<1>7. /\ b \in BlockType /\ b.around = live /\ b.arm = "body" /\ b.iterable = it
      /\ b.key = key /\ b.value = value
  <2>1. b = [arm |-> "body", key |-> key, value |-> value, iterable |-> it,
             taken |-> taken, around |-> live]
    BY <1>2 DEF Block
  <2>. QED  BY <1>4, <1>5, <1>6, <2>1 DEF BlockType, Arm
<1>9. PICK bs, lv : bs = blocks' /\ lv = live' /\ bs = Append(blocks, b) /\ lv = (live /\ taken)
  BY <1>3
<1>10. lv \in BOOLEAN /\ (lv => live)
  BY <1>4, <1>9
<1>11. ASSUME NEW i \in Nat, i >= id
       PROVE  x \in VariantType /\ x.count = UNCOUNTED /\ Good(x, i, 0, bs, lv, returned)
  <2>1. 0 < i
    BY <1>5, <1>11
  <2>. QED  BY <1>1, <2>1, BorrowedGood
<1>12. k \in VariantType /\ (hasKey => Good(k, id, 0, bs, lv, returned))
  <2>1. PICK runs : runs = (Running /\ taken)
    OBVIOUS
  <2>2. runs \in BOOLEAN /\ (~ returned => runs = lv)
    BY <1>4, <1>9, <2>1 DEF Running
  <2>3. Inside \in Where
    BY <1>4 DEF Inside, Where, Arm
  <2>4. /\ k \in VariantType /\ k.count = 1 /\ k.root = id /\ k.home = Inside
        /\ k.refs = (IF runs THEN 1 ELSE 0) /\ k.gone = Nowhere /\ k.passed = 0
    <3>1. k = Temporary(runs, FALSE, FALSE, Inside)
      BY <1>1, <2>1
    <3>2. PICK home \in Where : home = Inside
      BY <2>3
    <3>3. PICK f \in BOOLEAN : f = FALSE
      OBVIOUS
    <3>4. NewId \in Nat /\ runs \in BOOLEAN /\ k = Temporary(runs, f, f, home)
      BY <1>5, <2>2, <3>1, <3>2, <3>3
    <3>5. /\ k \in VariantType /\ k.count = 1 /\ k.root = NewId /\ k.home = home
          /\ k.refs = (IF runs THEN 1 ELSE 0) /\ k.gone = Nowhere /\ k.passed = 0
      BY <3>4, TemporaryType
    <3>. QED  BY <1>5, <3>2, <3>5
  <2>5. ASSUME hasKey
        PROVE  Good(k, id, 0, bs, lv, returned)
    <3>1. b.key = id /\ b.iterable # id /\ id > Len(values)
      BY <1>4, <1>5, <1>6, <1>7, <2>5
    <3>. QED  BY <1>5, <1>7, <1>9, <1>10, <2>2, <2>4, <3>1, KeyGood, ZenonT(60)
  <2>. QED  BY <2>4, <2>5
<1>13. /\ values' \in Seq(VariantType) /\ Len(values') = value
       /\ \A v \in 1 .. Len(values) : values'[v] = values[v]
       /\ values'[value] = x /\ (hasKey => values'[id] = k)
  <2>1. x \in VariantType
    BY <1>5, <1>11
  <2>2. PICK new : new = values' /\ new = values \o IF hasKey THEN <<k, x>> ELSE <<x>>
    BY <1>3
  <2>3. CASE hasKey
    <3>1. PICK t \in Seq(VariantType) : t = <<k, x>> /\ Len(t) = 2 /\ t[1] = k /\ t[2] = x
      <4>1. <<k, x>> \in Seq(VariantType)
        BY <1>12, <2>1
      <4>. QED  BY <4>1
    <3>2. new = values \o t
      BY <2>2, <2>3, <3>1
    <3>3. /\ new \in Seq(VariantType) /\ Len(new) = Len(values) + 2
          /\ \A v \in 1 .. Len(values) : new[v] = values[v]
          /\ new[Len(values) + 1] = k /\ new[Len(values) + 2] = x
      BY <1>4, <3>1, <3>2, Extended
    <3>4. value = Len(values) + 2 /\ id = Len(values) + 1 /\ value \in Nat
      BY <1>5, <1>6, <2>3
    <3>5. new = values'
      BY <2>2
    <3>. QED  BY <3>3, <3>4, <3>5
  <2>4. CASE ~ hasKey
    <3>1. PICK t \in Seq(VariantType) : t = <<x>> /\ Len(t) = 1 /\ t[1] = x
      <4>1. <<x>> \in Seq(VariantType)
        BY <2>1
      <4>. QED  BY <4>1
    <3>2. new = values \o t
      BY <2>2, <2>4, <3>1
    <3>3. /\ new \in Seq(VariantType) /\ Len(new) = Len(values) + 1
          /\ \A v \in 1 .. Len(values) : new[v] = values[v]
          /\ new[Len(values) + 1] = x
      BY <1>4, <3>1, <3>2, Extended
    <3>. QED  BY <1>4, <1>5, <1>6, <2>2, <2>4, <3>3
  <2>. QED  BY <2>3, <2>4
<1>14. ASSUME NEW v \in 1 .. Len(values'), v > Len(values)
       PROVE  Good(values'[v], v, 0, bs, lv, returned)
  <2>1. CASE v = value
    BY <1>5, <1>11, <1>13, <1>14, <2>1, <1>4
  <2>2. CASE v # value
    <3>1. hasKey /\ v = id
      BY <1>4, <1>5, <1>6, <1>13, <1>14, <2>2
    <3>. QED  BY <1>12, <1>13, <3>1
  <2>. QED  BY <2>1, <2>2
<1>15. /\ bs \in Seq(BlockType) /\ BlocksOK(values', bs, lv)
       /\ \A v \in 1 .. Len(values') : Good(values'[v], v, 0, bs, lv, returned)
  <2>1. PICK new \in Seq(VariantType) : new = values'
    BY <1>13
  <2>2. /\ Len(new) >= Len(values) /\ b.key <= Len(new) /\ b.value <= Len(new)
        /\ b.key = 0 \/ b.key > Len(values)
    BY <1>4, <1>5, <1>6, <1>7, <1>13, <2>1
  <2>3. new[b.value].count = UNCOUNTED
    BY <1>5, <1>7, <1>11, <1>13, <2>1
  <2>4. /\ \A v \in 1 .. Len(values) : new[v] = values[v]
        /\ \A v \in 1 .. Len(new) :
              v > Len(values) => Good(new[v], v, 0, bs, lv, returned)
    BY <1>13, <1>14, <2>1
  <2>5. Len(operands) = 1 /\ operands[1] >= 1 /\ b.iterable = operands[1]
    BY <1>3, <1>5, <1>7
  <2>6. /\ bs \in Seq(BlockType) /\ BlocksOK(new, bs, lv)
        /\ \A v \in 1 .. Len(new) : Good(new[v], v, 0, bs, lv, returned)
    BY <1>7, <1>9, <1>10, <2>2, <2>3, <2>4, <2>5, LoopOpened
  <2>. QED  BY <2>1, <2>6
<1>16. blocks' = bs /\ live' = lv /\ operands' = <<>> /\ ~ finished
       /\ returned' = returned /\ finished' = finished
  BY <1>3, <1>9
<1>. QED  BY <1>4, <1>10, <1>13, <1>15, <1>16, BetweenStatements

\* The key of a loop is destroyed at the end of its body, if no function has it.
LEMMA KeyReleased ==
    ASSUME NEW bs \in Seq(BlockType), NEW v \in Nat, NEW r \in VariantType,
           NEW lv \in BOOLEAN, NEW ret \in BOOLEAN, Good(r, v, 0, bs, lv, ret),
           Len(bs) \in KeysIn(bs, v),
           NEW ds, KeysIn(ds, v) = KeysIn(bs, v) \ {Len(bs)}, ItsIn(ds, v) = ItsIn(bs, v),
           NEW after, NEW place \in Where, place[1] = Len(bs), place[2] = "body"
    PROVE  /\ Good(Released(r, place, lv /\ ~ ret), v, 0, ds, after, ret)
           /\ r.count # 0
<1>1. PICK m : m = Len(bs) /\ m \in Nat
  OBVIOUS
<1>. DEFINE runs == lv /\ ~ ret
<1>0. place = <<m, "body">>
  BY <1>1 DEF Where
<1>2. PICK new : new = Released(r, place, runs)
  OBVIOUS
<1>3. /\ r.count \in Nat \cup {UNCOUNTED} /\ r.passed \in Nat /\ r.refs \in Int
      /\ DOMAIN r = {"count", "root", "refs", "table", "call", "home", "gone", "passed"}
  BY DEF VariantType
<1>4. CASE r.count = UNCOUNTED
  <2>1. new = r
    BY <1>2, <1>4 DEF Released
  <2>2. Good(r, v, 0, ds, after, ret)
    BY <1>4 DEF Good
  <2>. QED  BY <1>2, <1>4, <2>1, <2>2 DEF UNCOUNTED
<1>5. CASE r.count # UNCOUNTED
  <2>1. CountOK(r, v, 0, bs) /\ HomeOK(r, v, 0, bs) /\ RefsOK(r, v, 0, bs, lv, ret)
    BY <1>5 DEF Good
  <2>2. KeysIn(bs, v) \subseteq 1 .. m /\ ItsIn(bs, v) \subseteq 1 .. m
    BY <1>1 DEF KeysIn, ItsIn
  <2>3. /\ m \in KeysIn(bs, v)
        /\ \A i \in KeysIn(bs, v) : r.home = <<i, "body">> /\ \A j \in ItsIn(bs, v) : j > i
    BY <1>1, <2>1 DEF HomeOK
  <2>4. KeysIn(bs, v) = {m}
    <3>. SUFFICES ASSUME NEW i \in KeysIn(bs, v) PROVE i = m
      BY <2>3
    <3>1. r.home = <<i, "body">>
      BY <2>3
    <3>2. r.home = <<m, "body">>
      BY <2>3
    <3>. QED  BY <3>1, <3>2
  <2>6. ItsIn(bs, v) = {}
    BY <2>2, <2>3
  <2>7. KeysIn(ds, v) = {} /\ ItsIn(ds, v) = {}
    BY <1>1, <2>4, <2>6
  <2>8. /\ Cardinality(KeysIn(bs, v)) = 1 /\ Cardinality(ItsIn(bs, v)) = 0
        /\ Cardinality(KeysIn(ds, v)) = 0 /\ Cardinality(ItsIn(ds, v)) = 0
    BY <2>4, <2>6, <2>7, FS_EmptySet, FS_Singleton
  <2>9. r.count = 1 + r.passed
    BY <1>3, <2>1, <2>8 DEF CountOK
  <2>10. HomeOK(new, v, 0, ds)
    BY <2>7 DEF HomeOK
  <2>11. r.home = <<m, "body">> /\ r.refs >= 0
         /\ (~ ret => r.refs = IF lv THEN 1 ELSE 0)
    <3>1. r.home = <<m, "body">>
      BY <2>3
    <3>2. LiveAt(bs, lv, m) = lv
      BY <1>1 DEF LiveAt
    <3>3. NeededIn(v, 0, bs) /\ r.home[1] = m
      BY <2>3, <3>1 DEF NeededIn
    <3>. QED  BY <2>1, <3>1, <3>2, <3>3 DEF RefsOK
  <2>12. ~ NeededIn(v, 0, ds)
    BY <2>7 DEF NeededIn
  <2>13. r.root = v /\ r.gone \in {Nowhere, r.home}
    BY <1>5 DEF Good
  <2>14. CASE r.count = 1
    <3>1. /\ new.count = 0 /\ new.root = r.root /\ new.home = r.home /\ new.gone = place
          /\ new.passed = r.passed
          /\ new.refs = IF runs THEN r.refs - 1 ELSE r.refs
      <4>1. PICK refs : refs = IF runs THEN r.refs - 1 ELSE r.refs
        OBVIOUS
      <4>2. new = [r EXCEPT !.count = 0, !.gone = place, !.refs = refs]
        BY <1>2, <1>5, <2>14, <4>1 DEF Released, Destroyed
      <4>. QED  BY <1>3, <4>1, <4>2
    <3>2. CountOK(new, v, 0, ds)
      BY <1>3, <2>8, <2>9, <2>14, <3>1 DEF CountOK
    <3>3. RefsOK(new, v, 0, ds, after, ret)
      <4>1. CASE runs
        <5>1. lv /\ ~ ret
          BY <4>1
        <5>2. r.refs = 1
          BY <2>11, <5>1
        <5>3. new.refs = r.refs - 1
          BY <3>1, <4>1
        <5>. QED  BY <2>12, <5>2, <5>3 DEF RefsOK
      <4>2. CASE ~ runs
        <5>1. ~ ret => ~ lv
          BY <4>2
        <5>2. new.refs = r.refs
          BY <3>1, <4>2
        <5>3. r.refs >= 0 /\ (~ ret => r.refs = 0)
          BY <2>11, <5>1
        <5>. QED  BY <2>12, <5>2, <5>3 DEF RefsOK
      <4>. QED  BY <4>1, <4>2
    <3>4. new.root \in 0 .. v /\ new.root = v /\ new.gone \in {Nowhere, new.home}
      BY <1>0, <2>11, <2>13, <3>1
    <3>5. Good(new, v, 0, ds, after, ret)
      BY <2>10, <3>1, <3>2, <3>3, <3>4 DEF Good, UNCOUNTED
    <3>. QED  BY <1>2, <2>14, <3>5
  <2>15. CASE r.count # 1
    <3>1. /\ new.count = r.count - 1 /\ new.root = r.root /\ new.home = r.home
          /\ new.gone = r.gone /\ new.passed = r.passed /\ new.refs = r.refs
      BY <1>2, <1>3, <1>5, <2>15 DEF Released
    <3>2. r.count > 1
      BY <1>3, <2>9, <2>15
    <3>3. CountOK(new, v, 0, ds)
      BY <1>3, <2>8, <2>9, <3>1 DEF CountOK
    <3>4. RefsOK(new, v, 0, ds, after, ret)
      BY <1>3, <2>11, <2>12, <3>1, <3>2, <2>9 DEF RefsOK
    <3>5. new.root \in 0 .. v /\ new.root = v /\ new.gone \in {Nowhere, new.home}
          /\ new.count # UNCOUNTED
      BY <1>3, <2>9, <2>13, <3>1, <3>2 DEF UNCOUNTED
    <3>6. Good(new, v, 0, ds, after, ret)
      BY <1>3, <2>9, <2>10, <3>1, <3>2, <3>3, <3>4, <3>5 DEF Good, UNCOUNTED
    <3>. QED  BY <1>2, <3>2, <3>6
  <2>. QED  BY <2>14, <2>15
<1>. QED  BY <1>4, <1>5

\* When a body ends, the loop no longer needs its key.
LEMMA BodyEnded ==
    ASSUME NEW c \in Seq(BlockType), NEW b \in BlockType, NEW d \in BlockType,
           b.arm = "body", d.arm # "body", d.iterable = b.iterable
    PROVE  /\ Len(c) + 1 \in KeysIn(Append(c, b), b.key)
           /\ KeysIn(Append(c, d), b.key) = KeysIn(Append(c, b), b.key) \ {Len(c) + 1}
           /\ ItsIn(Append(c, d), b.key) = ItsIn(Append(c, b), b.key)
<1>0. PICK m \in Nat : m = Len(c)
  OBVIOUS
<1>1. PICK v, x, y : v = b.key /\ x = Append(c, b) /\ y = Append(c, d)
  OBVIOUS
<1>2. /\ Len(x) = m + 1 /\ x[m + 1] = b /\ \A i \in 1 .. m : x[i] = c[i]
      /\ Len(y) = m + 1 /\ y[m + 1] = d /\ \A i \in 1 .. m : y[i] = c[i]
  BY <1>0, <1>1
<1>3. m + 1 \in 1 .. m + 1 /\ \A i \in 1 .. m + 1 : i # m + 1 => i \in 1 .. m
  OBVIOUS
<1>4. KeysIn(y, v) = KeysIn(x, v) \ {m + 1}
  BY <1>2, <1>3 DEF KeysIn
<1>5. ItsIn(y, v) = ItsIn(x, v)
  BY <1>2, <1>3 DEF ItsIn
<1>6. m + 1 \in KeysIn(x, v)
  BY <1>1, <1>2, <1>3 DEF KeysIn
<1>. QED  BY <1>0, <1>1, <1>4, <1>5, <1>6

LEMMA UncountedStays ==
    ASSUME NEW vs, NEW v, NEW place, NEW runs, v >= 1 => vs[v].count = UNCOUNTED
    PROVE  OutOfScope(vs, v, place, runs) = vs
BY DEF OutOfScope, Counted

LEMMA EndBodyCountInv ==
    ASSUME CountInv, EndBody
    PROVE  CountInv'
<1>1. /\ blocks # <<>> /\ Top.arm = "body" /\ operands = <<>> /\ ~ finished
      /\ values' = AllOutOfScope(values, <<Top.key, Top.value>>, Running)
      /\ blocks' = [blocks EXCEPT ![Len(blocks)].arm = "elsefor"]
      /\ live' = (Top.around /\ ~ Top.taken)
      /\ UNCHANGED <<operands, returned, finished>>
  BY DEF EndBody, AtStatement, Compiling
<1>2. PICK c, b, d : c = Pop(blocks) /\ b = Top /\ d = WithArm(b, "elsefor")
  OBVIOUS
<1>3. /\ c \in Seq(BlockType) /\ b \in BlockType /\ blocks = Append(c, b) /\ b.arm = "body"
      /\ Len(blocks) = Len(c) + 1
  BY <1>1, <1>2, TheTop
<1>4. PICK ds : ds = blocks'
  OBVIOUS
<1>5. /\ ds = Append(c, d) /\ d \in BlockType /\ d.arm = "elsefor" /\ d.key = b.key
      /\ d.value = b.value /\ d.iterable = b.iterable /\ d.around = b.around
  <2>1. "elsefor" \in Arm
    BY DEF Arm
  <2>. QED  BY <1>1, <1>2, <1>4, <2>1, AnotherArm
<1>6. PICK after : after = live' /\ after \in BOOLEAN /\ (after => d.around)
  BY <1>1, <1>2, <1>3, <1>5 DEF BlockType
<1>7. /\ values \in Seq(VariantType) /\ Len(values) \in Nat /\ BlocksOK(values, blocks, live)
      /\ live \in BOOLEAN /\ returned \in BOOLEAN /\ finished \in BOOLEAN
  BY DEF CountInv, Types
<1>8. /\ BlocksOK(values, c, b.around)
      /\ b.key <= Len(values) /\ b.value <= Len(values) /\ b.iterable <= Len(values)
      /\ b.value >= 1 => values[b.value].count = UNCOUNTED
  BY <1>3, <1>7, BlocksClosed
<1>9. /\ b.key \in Nat /\ b.value \in Nat /\ b.iterable \in Nat
  BY <1>3 DEF BlockType
<1>10. PICK a, place, runs :
          /\ a = b.key /\ place = Here /\ place = <<Len(c) + 1, "body">>
          /\ runs = Running
  <2>1. Here = <<Len(c) + 1, "body">>
    <3>1. Here = PlaceAt(blocks, Len(blocks)) /\ Len(blocks) # 0
      BY <1>3, HereIs DEF CountInv
    <3>2. blocks[Len(blocks)].arm = "body"
      BY <1>1 DEF Top
    <3>. QED  BY <1>3, <3>1, <3>2 DEF PlaceAt
  <2>. QED  BY <2>1
<1>11. place \in Where /\ runs \in BOOLEAN /\ runs = (live /\ ~ returned)
  <2>1. place \in Where
    BY <1>10, HereIs DEF CountInv
  <2>2. runs = (live /\ ~ returned)
    BY <1>10 DEF Running
  <2>. QED  BY <1>7, <2>1, <2>2
<1>12. PICK new : new = OutOfScope(values, a, place, runs)
  OBVIOUS
<1>13. \A v \in 1 .. Len(values) : Good(values[v], v, 0, blocks, live, returned)
  BY <1>1, NoOperands DEF CountInv
<1>14. a >= 1 => /\ Good(Released(values[a], place, runs), a, 0, ds, after, returned)
                 /\ values[a].count # 0
  <2>. SUFFICES ASSUME a >= 1
                PROVE  /\ Good(Released(values[a], place, runs), a, 0, ds, after, returned)
                       /\ values[a].count # 0
    OBVIOUS
  <2>1. a \in 1 .. Len(values) /\ a \in Nat /\ b.key = a
    BY <1>7, <1>8, <1>9, <1>10
  <2>2. values[a] \in VariantType /\ Good(values[a], a, 0, blocks, live, returned)
    BY <1>7, <1>13, <2>1
  <2>3. PICK bs, r : bs = blocks /\ r = values[a]
    OBVIOUS
  <2>4. bs \in Seq(BlockType) /\ r \in VariantType /\ Good(r, a, 0, bs, live, returned)
    <3>1. blocks \in Seq(BlockType)
      BY DEF CountInv, Types
    <3>. QED  BY <2>2, <2>3, <3>1
  <2>5. /\ Len(bs) \in KeysIn(bs, a) /\ KeysIn(ds, a) = KeysIn(bs, a) \ {Len(bs)}
        /\ ItsIn(ds, a) = ItsIn(bs, a)
    <3>1. /\ bs = Append(c, b) /\ ds = Append(c, d) /\ Len(bs) = Len(c) + 1
      BY <1>3, <1>5, <2>3
    <3>2. b.arm = "body" /\ d.arm # "body" /\ d.iterable = b.iterable
      BY <1>3, <1>5
    <3>3. /\ Len(c) + 1 \in KeysIn(Append(c, b), b.key)
          /\ KeysIn(Append(c, d), b.key) = KeysIn(Append(c, b), b.key) \ {Len(c) + 1}
          /\ ItsIn(Append(c, d), b.key) = ItsIn(Append(c, b), b.key)
      BY <1>3, <1>5, <3>2, BodyEnded
    <3>. QED  BY <2>1, <3>1, <3>3
  <2>6. place \in Where /\ place[1] = Len(bs) /\ place[2] = "body"
    BY <1>3, <1>10, <1>11, <2>3
  <2>7. /\ Good(Released(r, place, live /\ ~ returned), a, 0, ds, after, returned)
        /\ r.count # 0
    <3>1. live \in BOOLEAN /\ returned \in BOOLEAN /\ a \in Nat
      BY <1>7, <2>1
    <3>. QED  BY <2>4, <2>5, <2>6, <3>1, KeyReleased
  <2>8. PICK goes : goes = (live /\ ~ returned)
    OBVIOUS
  <2>9. goes = runs
    BY <1>11, <2>8
  <2>10. Good(Released(r, place, goes), a, 0, ds, after, returned)
    BY <2>7, <2>8, Zenon
  <2>. QED  BY <2>3, <2>7, <2>9, <2>10
<1>15. /\ new \in Seq(VariantType) /\ Len(new) = Len(values) /\ StillUncounted(values, new)
       /\ \A v \in 1 .. Len(values) :
             new[v] = IF v = a THEN Released(values[a], place, runs) ELSE values[v]
  <2>1. a \in Int /\ a <= Len(values) /\ (a >= 1 => values[a].count # 0)
    BY <1>8, <1>9, <1>10, <1>14
  <2>2. values \in Seq(VariantType) /\ place \in Where /\ runs \in BOOLEAN
    BY <1>7, <1>11
  <2>. QED  BY <1>12, <2>1, <2>2, OutOfScopeIs
<1>16. values' = new
  <2>1. values' = OutOfScope(OutOfScope(values, b.key, Here, Running), b.value, Here, Running)
    BY <1>1, <1>2 DEF AllOutOfScope
  <2>2. values' = OutOfScope(new, b.value, place, runs)
    BY <1>10, <1>12, <2>1, Zenon
  <2>3. b.value >= 1 => new[b.value].count = UNCOUNTED
    BY <1>7, <1>8, <1>9, <1>15 DEF StillUncounted
  <2>. QED  BY <2>2, <2>3, UncountedStays
<1>17. ASSUME NEW v \in 1 .. Len(values)
       PROVE  Good(new[v], v, 0, ds, after, returned)
  <2>1. CASE v = a
    BY <1>14, <1>15, <2>1
  <2>2. CASE v # a
    <3>1. v \in Nat /\ new[v] = values[v] /\ ~ (b.arm = "body" /\ b.key = v)
      BY <1>10, <1>15, <2>2
    <3>2. PICK n : n = IF b.iterable = v THEN 1 ELSE 0
      OBVIOUS
    <3>3. Good(values[v], v, 0, blocks, live, returned)
      BY <1>13
    <3>4. Good(values[v], v, n, c, b.around, returned)
      BY <1>3, <3>1, <3>2, <3>3, GoodAroundIsInside
    <3>5. /\ ~ (d.arm = "body" /\ d.key = v) /\ n = (IF d.iterable = v THEN 1 ELSE 0)
          /\ Good(values[v], v, n, c, d.around, returned)
      BY <1>5, <3>2, <3>4
    <3>6. Good(values[v], v, 0, ds, after, returned)
      BY <1>3, <1>5, <3>1, <3>5, GoodAroundIsInside
    <3>. QED  BY <3>1, <3>6
  <2>. QED  BY <2>1, <2>2
<1>18. BlocksOK(new, ds, after)
  <2>1. BlocksOK(new, c, b.around)
    BY <1>3, <1>7, <1>8, <1>15, BlocksKept
  <2>2. b.value >= 1 => new[b.value].count = UNCOUNTED
    BY <1>7, <1>8, <1>9, <1>15 DEF StillUncounted
  <2>3. /\ BlocksOK(new, c, d.around)
        /\ d.key <= Len(new) /\ d.value <= Len(new) /\ d.iterable <= Len(new)
        /\ d.value >= 1 => new[d.value].count = UNCOUNTED
        /\ d.arm \in {"then", "else"} => d.iterable = 0
    BY <1>5, <1>8, <1>15, <2>1, <2>2
  <2>. QED  BY <1>3, <1>5, <1>6, <2>3, BlocksOpened
<1>19. /\ values' = new /\ blocks' = ds /\ live' = after /\ operands' = <<>> /\ ~ finished
       /\ returned' = returned /\ finished' = finished
  <2>1. operands' = <<>> /\ ~ finished /\ returned' = returned /\ finished' = finished
    BY <1>1
  <2>. QED  BY <1>4, <1>6, <1>16, <2>1
<1>20. ds \in Seq(BlockType)
  BY <1>3, <1>5
<1>21. \A v \in 1 .. Len(new) : Good(new[v], v, 0, ds, after, returned)
  BY <1>15, <1>17
<1>. QED  BY <1>6, <1>7, <1>15, <1>18, <1>19, <1>20, <1>21, BetweenStatements

-----------------------------------------------------------------------------
(***************************************************************************)
(* Templates.                                                              *)
(***************************************************************************)
LEMMA FinishTemplateCountInv ==
    ASSUME CountInv, FinishTemplate
    PROVE  CountInv'
<1>1. operands = <<>> /\ blocks = <<>> /\ finished' \in BOOLEAN
  BY DEF FinishTemplate, AtStatement
<1>2. UNCHANGED <<values, operands, blocks, live, returned>>
  BY DEF FinishTemplate
<1>3. Types' /\ BlocksOK(values, blocks, live)'
  BY <1>1, <1>2 DEF CountInv, Types, BlocksOK, LiveAt
<1>4. (finished => operands = <<>> /\ blocks = <<>>)'
  BY <1>1, <1>2
<1>5. (\A v \in 1 .. Len(values) :
          Good(values[v], v, Cardinality(OpsIn(operands, v)), blocks, live, returned))'
  BY <1>2 DEF CountInv
<1>. QED  BY <1>3, <1>4, <1>5 DEF CountInv

\* Before the first statement of a template.
LEMMA Begun ==
    ASSUME values = <<>>, operands = <<>>, blocks = <<>>,
           live \in BOOLEAN, returned \in BOOLEAN, finished \in BOOLEAN
    PROVE  CountInv
<1>1. /\ values \in Seq(VariantType) /\ operands \in Seq(Int) /\ blocks \in Seq(BlockType)
      /\ Len(values) = 0 /\ Len(operands) = 0 /\ Len(blocks) = 0
  OBVIOUS
<1>2. 1 .. 0 = {}
  OBVIOUS
<1>3. Types
  BY <1>1, <1>2 DEF Types
<1>4. BlocksOK(values, blocks, live)
  BY <1>1, <1>2 DEF BlocksOK
<1>. QED  BY <1>1, <1>2, <1>3, <1>4 DEF CountInv

LEMMA InitCountInv ==
    ASSUME Init
    PROVE  CountInv
BY Begun DEF Init

LEMMA BeginTemplateCountInv ==
    ASSUME CountInv, BeginTemplate
    PROVE  CountInv'
<1>1. /\ operands' = <<>> /\ blocks' = <<>> /\ values' = <<>>
      /\ live' \in BOOLEAN /\ returned' \in BOOLEAN /\ finished' \in BOOLEAN
  BY DEF BeginTemplate, CountInv
<1>2. /\ values' \in Seq(VariantType) /\ operands' \in Seq(Int)
      /\ blocks' \in Seq(BlockType)
      /\ Len(values') = 0 /\ Len(operands') = 0 /\ Len(blocks') = 0
  BY <1>1
<1>3. 1 .. 0 = {}
  OBVIOUS
<1>4. Types'
  BY <1>1, <1>2, <1>3 DEF Types
<1>5. BlocksOK(values, blocks, live)'
  BY <1>2, <1>3 DEF BlocksOK
<1>. QED  BY <1>1, <1>2, <1>3, <1>4, <1>5 DEF CountInv

-----------------------------------------------------------------------------
(***************************************************************************)
(* The invariant, and what it means.                                       *)
(***************************************************************************)
LEMMA StutterCountInv ==
    ASSUME CountInv, UNCHANGED vars
    PROVE  CountInv'
<1>1. UNCHANGED <<values, operands, blocks, live, returned, finished>>
  BY DEF vars
<1>2. Types' /\ BlocksOK(values, blocks, live)'
  BY <1>1 DEF CountInv, Types, BlocksOK, LiveAt
<1>3. (finished => operands = <<>> /\ blocks = <<>>)'
  BY <1>1 DEF CountInv
<1>4. (\A v \in 1 .. Len(values) :
          Good(values[v], v, Cardinality(OpsIn(operands, v)), blocks, live, returned))'
  BY <1>1 DEF CountInv
<1>. QED  BY <1>2, <1>3, <1>4 DEF CountInv

\* In every state of every compilation, each variant is accounted for.
THEOREM VariantsAccountedFor == Spec => []CountInv
<1>1. CountInv /\ [Next]_vars => CountInv'
  <2>. SUFFICES ASSUME CountInv, [Next]_vars
                PROVE  CountInv'
    OBVIOUS
  <2>1. ASSUME NEW type \in {NATIVE, BOOL}, Literal(type)
        PROVE  CountInv'
    BY <2>1, LiteralCountInv
  <2>2. CASE Lookup
    BY <2>2, LookupCountInv
  <2>3. ASSUME NEW v \in 1 .. MaxValues, LoopVariable(v)
        PROVE  CountInv'
    BY <2>3, LoopVariableCountInv
  <2>4. ASSUME NEW n \in {1, 2}, NativeOperation(n)
        PROVE  CountInv'
    BY <2>4, NativeOperationCountInv
  <2>5. ASSUME NEW n \in {1, 2}, NEW fails \in BOOLEAN, VariantOperation(n, fails)
        PROVE  CountInv'
    BY <2>5, VariantOperationCountInv
  <2>6. ASSUME NEW fails \in BOOLEAN, Comparison(fails)
        PROVE  CountInv'
    BY <2>6, ComparisonCountInv
  <2>7. ASSUME NEW n \in 1 .. MaxOperands, NEW fails \in BOOLEAN, MethodCall(n, fails)
        PROVE  CountInv'
    BY <2>7, MethodCallCountInv
  <2>8. ASSUME NEW found \in BOOLEAN, GetAttribute(found)
        PROVE  CountInv'
    BY <2>8, GetAttributeCountInv
  <2>9. ASSUME NEW array \in BOOLEAN, PrintBlock(array)
        PROVE  CountInv'
    BY <2>9, PrintBlockCountInv
  <2>10. ASSUME NEW taken \in BOOLEAN, BeginIf(taken)
         PROVE  CountInv'
    BY <2>10, BeginIfCountInv
  <2>11. CASE BeginElse
    BY <2>11, BeginElseCountInv
  <2>12. CASE EndIf
    BY <2>12, EndIfCountInv
  <2>13. ASSUME NEW hasKey \in BOOLEAN, NEW taken \in BOOLEAN, BeginFor(hasKey, taken)
         PROVE  CountInv'
    BY <2>13, BeginForCountInv
  <2>14. CASE EndBody
    BY <2>14, EndBodyCountInv
  <2>15. CASE EndFor
    BY <2>15, EndForCountInv
  <2>16. CASE FinishTemplate
    BY <2>16, FinishTemplateCountInv
  <2>17. CASE BeginTemplate
    BY <2>17, BeginTemplateCountInv
  <2>18. CASE UNCHANGED vars
    BY <2>18, StutterCountInv
  <2>. QED
    BY <2>1, <2>2, <2>3, <2>4, <2>5, <2>6, <2>7, <2>8, <2>9, <2>10, <2>11, <2>12,
       <2>13, <2>14, <2>15, <2>16, <2>17, <2>18 DEF Next
<1>. QED  BY <1>1, InitCountInv, PTL DEF Spec

LEMMA Domains ==
    ASSUME CountInv
    PROVE  /\ DOMAIN values = 1 .. Len(values) /\ Len(values) \in Nat
           /\ \A v \in 1 .. Len(values) : values[v] \in VariantType
           /\ \A v : /\ OperandsOf(v) = OpsIn(operands, v)
                     /\ KeysOf(v) = KeysIn(blocks, v)
                     /\ IterablesOf(v) = ItsIn(blocks, v)
<1>1. /\ DOMAIN values = 1 .. Len(values) /\ Len(values) \in Nat
      /\ \A v \in 1 .. Len(values) : values[v] \in VariantType
  BY DEF CountInv, Types
<1>2. DOMAIN operands = 1 .. Len(operands) /\ DOMAIN blocks = 1 .. Len(blocks)
  BY DEF CountInv, Types
<1>. QED  BY <1>1, <1>2 DEF OperandsOf, KeysOf, IterablesOf, OpsIn, KeysIn, ItsIn

\* m_variablesRefCount has one for each place a value is still needed at, and
\* one for each time it was passed to a function.
THEOREM EveryUseIsCounted == Spec => []CountsReferences
<1>1. CountInv => CountsReferences
  <2>. SUFFICES ASSUME CountInv, NEW v \in DOMAIN values, values[v].count # UNCOUNTED
                PROVE  values[v].count = Cardinality(OperandsOf(v))
                                         + Cardinality(KeysOf(v))
                                         + Cardinality(IterablesOf(v)) + values[v].passed
    BY DEF CountsReferences
  <2>1. Good(values[v], v, Cardinality(OpsIn(operands, v)), blocks, live, returned)
    BY Domains DEF CountInv
  <2>2. CountOK(values[v], v, Cardinality(OpsIn(operands, v)), blocks)
    BY <2>1 DEF Good
  <2>. QED  BY <2>2, Domains DEF CountOK
<1>. QED  BY <1>1, VariantsAccountedFor, PTL

\* No run destroys a zval more often than it made it, whichever branches it
\* takes and wherever a call fails.
THEOREM NothingFreedTwice == Spec => []NoDoubleFree
<1>1. CountInv => NoDoubleFree
  <2>. SUFFICES ASSUME CountInv, NEW v \in DOMAIN values
                PROVE  values[v].refs >= 0
    BY DEF NoDoubleFree
  <2>1. Good(values[v], v, Cardinality(OpsIn(operands, v)), blocks, live, returned)
    BY Domains DEF CountInv
  <2>. QED  BY <2>1 DEF Good, RefsOK
<1>. QED  BY <1>1, VariantsAccountedFor, PTL

\* The call that destroys a zval is in the block, and the arm of it, that makes
\* the zval.
THEOREM MadeAndDestroyedTogether == Spec => []DestroyedWhereCreated
<1>1. CountInv => DestroyedWhereCreated
  <2>. SUFFICES ASSUME CountInv, NEW v \in DOMAIN values
                PROVE  values[v].gone \in {Nowhere, values[v].home}
    BY DEF DestroyedWhereCreated
  <2>1. Good(values[v], v, Cardinality(OpsIn(operands, v)), blocks, live, returned)
    BY Domains DEF CountInv
  <2>. QED  BY <2>1 DEF Good
<1>. QED  BY <1>1, VariantsAccountedFor, PTL

\* A run that no failing call cuts short destroys every temporary that was not
\* passed to a function.
THEOREM TemporariesReleased == Spec => []NothingLeaks
<1>1. CountInv => NothingLeaks
  <2>. SUFFICES ASSUME CountInv, finished, ~ returned,
                       NEW v \in DOMAIN values, values[v].refs > 0
                PROVE  values[v].passed > 0
    BY DEF NothingLeaks
  <2>1. PICK n, r : n = Cardinality(OpsIn(operands, v)) /\ r = values[v]
    OBVIOUS
  <2>2. Good(r, v, n, blocks, live, returned) /\ r \in VariantType
    BY <2>1, Domains DEF CountInv
  <2>3. operands = <<>> /\ blocks = <<>>
    BY DEF CountInv
  <2>4. n = 0
    BY <2>1, <2>3, NoOperands
  <2>5. KeysIn(blocks, v) = {} /\ ItsIn(blocks, v) = {}
    BY <2>3 DEF KeysIn, ItsIn
  <2>6. Cardinality(KeysIn(blocks, v)) = 0 /\ Cardinality(ItsIn(blocks, v)) = 0
    BY <2>5, FS_EmptySet
  <2>7. r.passed \in Nat /\ r.refs > 0
    BY <2>1, <2>2 DEF VariantType
  <2>8. r.count # UNCOUNTED
    BY <2>2, <2>7 DEF Good
  <2>9. r.count = r.passed
    BY <2>2, <2>4, <2>6, <2>7, <2>8 DEF Good, CountOK
  <2>10. r.count # 0
    BY <2>2, <2>7, <2>8 DEF Good, RefsOK
  <2>. QED  BY <2>1, <2>7, <2>9, <2>10
<1>. QED  BY <1>1, VariantsAccountedFor, PTL

\* While this run needs a temporary it has not been destroyed.
THEOREM NeededAreAlive == Spec => []TemporariesLive
<1>1. CountInv => TemporariesLive
  <2>. SUFFICES ASSUME CountInv, Running, NEW v \in Needed, values[v].root = v
                PROVE  values[v].refs > 0
    BY DEF TemporariesLive
  <2>0. PICK m \in Nat : m = Len(blocks)
    BY DEF CountInv, Types
  <2>1. PICK n, r : n = Cardinality(OpsIn(operands, v)) /\ r = values[v]
    OBVIOUS
  <2>2. v \in 1 .. Len(values) /\ (OpsIn(operands, v) # {} \/ KeysIn(blocks, v) # {}
                                   \/ ItsIn(blocks, v) # {})
    BY Domains DEF Needed
  <2>3. Good(r, v, n, blocks, live, returned) /\ r.root = v
    BY <2>1, <2>2 DEF CountInv
  <2>4. HomeOK(r, v, n, blocks) /\ RefsOK(r, v, n, blocks, live, returned)
    BY <2>3 DEF Good
  <2>5. n \in Nat /\ (n = 0 <=> OpsIn(operands, v) = {})
    BY <2>1, OpsCount DEF CountInv, Types
  <2>6. live /\ ~ returned
    BY DEF Running
  <2>7. r.refs = IF LiveAt(blocks, live, r.home[1]) THEN 1 ELSE 0
    <3>1. n > 0 \/ KeysIn(blocks, v) # {} \/ ItsIn(blocks, v) # {}
      BY <2>2, <2>5
    <3>2. NeededIn(v, n, blocks)
      BY <3>1 DEF NeededIn
    <3>3. ~ returned
      BY <2>6
    <3>. QED  BY <2>4, <3>2, <3>3 DEF RefsOK
  <2>8. ASSUME NEW k \in 0 .. m
        PROVE  LiveAt(blocks, live, k)
    <3>1. CASE k = m
      BY <2>0, <2>6, <3>1 DEF LiveAt
    <3>2. CASE k # m
      <4>1. m \in 1 .. Len(blocks) /\ k + 1 \in 1 .. m
        BY <2>0, <3>2
      <4>2. LiveAt(blocks, live, m)
        BY <2>0, <2>6 DEF LiveAt
      <4>3. \A j \in 1 .. m : blocks[j].around
        BY <4>1, <4>2 DEF CountInv, BlocksOK
      <4>4. blocks[k + 1].around
        BY <4>1, <4>3
      <4>. QED  BY <2>0, <3>2, <4>4 DEF LiveAt
    <3>. QED  BY <3>1, <3>2
  <2>9. r.home[1] \in 0 .. m
    <3>1. ASSUME NEW i \in KeysIn(blocks, v)
          PROVE  r.home[1] \in 0 .. m
      <4>1. r.home = <<i, "body">>
        BY <2>4 DEF HomeOK
      <4>2. i \in 1 .. m
        BY <2>0 DEF KeysIn
      <4>. QED  BY <4>1, <4>2
    <3>2. CASE KeysIn(blocks, v) = {} /\ n > 0
      <4>1. r.home = PlaceAt(blocks, Len(blocks))
        BY <2>4, <3>2 DEF HomeOK
      <4>2. r.home[1] = m
        BY <2>0, <4>1 DEF PlaceAt
      <4>. QED  BY <2>0, <4>2
    <3>3. ASSUME KeysIn(blocks, v) = {}, NEW j \in ItsIn(blocks, v)
          PROVE  r.home[1] \in 0 .. m
      <4>1. r.home = PlaceAt(blocks, j - 1)
        BY <2>4, <3>3 DEF HomeOK
      <4>2. j \in 1 .. m
        BY <2>0 DEF ItsIn
      <4>3. r.home[1] = j - 1
        BY <4>1 DEF PlaceAt
      <4>. QED  BY <4>2, <4>3
    <3>. QED  BY <2>2, <2>5, <3>1, <3>2, <3>3
  <2>10. LiveAt(blocks, live, r.home[1])
    BY <2>8, <2>9
  <2>. QED  BY <2>1, <2>7, <2>10
<1>. QED  BY <1>1, VariantsAccountedFor, PTL
=============================================================================
