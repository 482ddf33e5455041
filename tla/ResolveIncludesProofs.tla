----------------------- MODULE ResolveIncludesProofs -----------------------
(***************************************************************************)
(* Proofs about ResolveIncludes, for any files that include one another in *)
(* any way, at any depth.                                                  *)
(*                                                                         *)
(* What the activations own is told apart by the structure of the heap     *)
(* alone, and so stays so while an exception unwinds them; what was        *)
(* deleted is related to it by Accounted.                                  *)
(*                                                                         *)
(* What the template reads in the end is known from what each activation's *)
(* AST reads on the way (InlInv): the part that was walked over is what    *)
(* the files are inlined to at a depth, the rest is what was parsed.  A    *)
(* text without include blocks is the same at every greater depth, so that *)
(* the depth can grow with the heap.                                       *)
(***************************************************************************)
EXTENDS ResolveIncludes, Induction, SequenceTheorems, TLAPS

IsSeq(s) == s \in Seq(ToSet(s))

Settled(n) == heap[n].kind \in {"raw", "print"}

\* The node says what the statement (or another node) says.
Verbatim(n, stmt) == n.kind = stmt.kind /\ n.expr = stmt.expr /\ n.inc = stmt.inc

\* A StatementsAST has different children, none of which is one; other nodes have none.
NodeOK(n) ==
    LET kids == heap[n].kids
    IN  /\ DOMAIN heap[n] = {"kind", "expr", "inc", "kids"}
        /\ heap[n].kind \in Kinds
        /\ heap[n].kind = "include" => /\ heap[n].inc # None
                                       /\ heap[n].inc.file \in File
        /\ kids \in Seq(Nat)
        /\ heap[n].kind # "stmts" => kids = <<>>
        /\ \A k \in 1 .. Len(kids) : /\ kids[k] \in 1 .. Len(heap)
                                     /\ heap[kids[k]].kind # "stmts"
        /\ \A k, l \in 1 .. Len(kids) : kids[k] = kids[l] => k = l

HeapOK ==
    /\ IsSeq(heap) /\ IsSeq(deletes) /\ Len(deletes) = Len(heap)
    /\ \A n \in 1 .. Len(heap) : deletes[n] \in Nat /\ NodeOK(n)

\* What an activation walked over is resolved; the activations below the last one are
\* at the include block that the next one resolves.
FrameOK(i) ==
    LET f     == stack[i]
        nodes == Nodes(f.ptr)
    IN  /\ DOMAIN f = {"inc", "ptr", "at", "stage"}
        /\ f.stage \in Stages
        /\ f.inc = None <=> i = 1
        /\ f.inc # None => f.inc.file \in File
        /\ IF f.stage = "parse" THEN f.ptr = NULL /\ f.at = 1
                                ELSE f.ptr \in 1 .. Len(heap)
        /\ f.stage = "walk" => /\ f.at \in 1 .. Len(nodes) + 1
                               /\ \A k \in 1 .. f.at - 1 : Settled(nodes[k])
        /\ f.stage \in {"resolved", "done"} =>
              /\ ~ FoldsToChild(f.ptr)
              /\ \A k \in 1 .. Len(nodes) : Settled(nodes[k])
        /\ f.stage = "done" => i # 1
        /\ i < Len(stack) => /\ f.stage = "walk" /\ f.at <= Len(nodes)
                             /\ heap[nodes[f.at]].kind = "include"

StackOK ==
    /\ files \in Programs
    /\ IsSeq(stack)
    /\ outcome.status \in {"running", "done", "failed"}
    /\ IF Running THEN stack # <<>> ELSE stack = <<>>
    /\ \A i \in 1 .. Len(stack) : FrameOK(i)

\* No node belongs to two activations.
Disjoint ==
    \A i, j \in 1 .. Len(stack) : i # j => Owned(i) \cap Owned(j) = {}

Missing == thrown = "MissingVariableReference"

\* What is owned and what was deleted.
Accounted ==
    /\ Running => \A n \in 1 .. Len(heap) :
          deletes[n] = 0 => \E i \in 1 .. Len(stack) : n \in Owned(i)
    /\ ~ Missing => \A i \in 1 .. Len(stack) : \A n \in Owned(i) : deletes[n] = 0
    /\ ~ Missing => \A n \in 1 .. Len(heap) : deletes[n] <= 1
    /\ outcome.status = "failed" => \A n \in 1 .. Len(heap) : deletes[n] > 0
    /\ outcome.status = "done" =>
          /\ outcome.result \in 1 .. Len(heap)
          /\ \A n \in 1 .. Len(heap) : deletes[n] = 0 <=> n \in Tree(outcome.result)

IncInv == HeapOK /\ StackOK /\ Disjoint /\ Accounted

-----------------------------------------------------------------------------
(***************************************************************************)
(* Sequences, whatever their elements are.                                 *)
(***************************************************************************)
LEMMA SeqElements ==
    ASSUME NEW s, IsSeq(s)
    PROVE  /\ Len(s) \in Nat /\ DOMAIN s = 1 .. Len(s)
           /\ \A i \in 1 .. Len(s) : s[i] \in ToSet(s)
           /\ \A e \in ToSet(s) : \E i \in 1 .. Len(s) : e = s[i]
BY DEF IsSeq, ToSet

LEMMA SeqOfAny ==
    ASSUME NEW S, NEW s \in Seq(S)
    PROVE  IsSeq(s)
<1>1. DOMAIN s = 1 .. Len(s) /\ Len(s) \in Nat /\ s = [i \in 1 .. Len(s) |-> s[i]]
  OBVIOUS
<1>2. \A i \in 1 .. Len(s) : s[i] \in ToSet(s)
  BY <1>1 DEF ToSet
<1>. QED  BY <1>1, <1>2 DEF IsSeq

LEMMA Concatenated ==
    ASSUME NEW s, NEW t, IsSeq(s), IsSeq(t)
    PROVE  /\ IsSeq(s \o t) /\ Len(s \o t) = Len(s) + Len(t)
           /\ \A i \in 1 .. Len(s) : (s \o t)[i] = s[i]
           /\ \A i \in 1 .. Len(t) : (s \o t)[Len(s) + i] = t[i]
<1>. DEFINE S == ToSet(s) \cup ToSet(t)
<1>1. s \in Seq(S) /\ t \in Seq(S)
  BY DEF IsSeq
<1>. HIDE DEF S
<1>2. s \o t \in Seq(S)
  BY <1>1
<1>3. IsSeq(s \o t)
  BY <1>2, SeqOfAny
<1>. QED  BY <1>1, <1>3

LEMMA Appended ==
    ASSUME NEW s, NEW e, IsSeq(s)
    PROVE  /\ IsSeq(Append(s, e)) /\ Len(Append(s, e)) = Len(s) + 1
           /\ \A i \in 1 .. Len(s) : Append(s, e)[i] = s[i]
           /\ Append(s, e)[Len(s) + 1] = e
<1>. DEFINE S == ToSet(s) \cup {e}
<1>1. s \in Seq(S) /\ e \in S
  BY DEF IsSeq
<1>. HIDE DEF S
<1>2. Append(s, e) \in Seq(S)
  BY <1>1
<1>3. IsSeq(Append(s, e))
  BY <1>2, SeqOfAny
<1>. QED  BY <1>1, <1>3

LEMMA SeqOfFunction ==
    ASSUME NEW n \in Nat, NEW s, s = [i \in 1 .. n |-> s[i]]
    PROVE  IsSeq(s) /\ Len(s) = n
<1>. DEFINE S == {s[i] : i \in 1 .. n}
<1>1. \A i \in 1 .. n : s[i] \in S
  OBVIOUS
<1>. HIDE DEF S
<1>2. s \in Seq(S) /\ Len(s) = n
  BY <1>1
<1>. QED  BY <1>2, SeqOfAny

LEMMA Popped ==
    ASSUME NEW s, IsSeq(s), s # <<>>
    PROVE  /\ IsSeq(Pop(s)) /\ Len(Pop(s)) = Len(s) - 1 /\ Len(s) > 0 /\ Len(s) \in Nat
           /\ \A i \in 1 .. Len(s) - 1 : Pop(s)[i] = s[i]
<1>1. s \in Seq(ToSet(s)) /\ Len(s) \in Nat /\ Len(s) > 0
  BY DEF IsSeq
<1>2. Pop(s) = [i \in 1 .. Len(s) - 1 |-> s[i]]
  BY <1>1 DEF Pop, Front
<1>3. Pop(s) \in Seq(ToSet(s)) /\ Len(Pop(s)) = Len(s) - 1
  BY <1>1, <1>2
<1>4. IsSeq(Pop(s))
  BY <1>3, SeqOfAny
<1>. QED  BY <1>1, <1>2, <1>3, <1>4

-----------------------------------------------------------------------------
(***************************************************************************)
(* Trees of the heap and activations.                                      *)
(***************************************************************************)
LEMMA NodesOfTree ==
    ASSUME HeapOK, NEW n \in 1 .. Len(heap)
    PROVE  /\ Nodes(n) \in Seq(Nat)
           /\ \A k \in 1 .. Len(Nodes(n)) :
                 /\ Nodes(n)[k] \in 1 .. Len(heap) /\ Nodes(n)[k] \in Tree(n)
                 /\ heap[Nodes(n)[k]].kind # "stmts"
           /\ \A k, l \in 1 .. Len(Nodes(n)) : Nodes(n)[k] = Nodes(n)[l] => k = l
           /\ \A m \in Tree(n) : \/ heap[n].kind = "stmts" /\ m = n
                                 \/ \E k \in 1 .. Len(Nodes(n)) : m = Nodes(n)[k]
           /\ n \in Tree(n) /\ Tree(n) \subseteq 1 .. Len(heap)
<1>1. NodeOK(n)
  BY DEF HeapOK
<1>2. CASE heap[n].kind = "stmts"
  BY <1>1, <1>2 DEF Nodes, NodeOK, Tree, ToSet
<1>3. CASE heap[n].kind # "stmts"
  <2>1. Nodes(n) = <<n>> /\ Tree(n) = {n}
    BY <1>1, <1>3 DEF Nodes, NodeOK, Tree, ToSet
  <2>. QED  BY <1>3, <2>1
<1>. QED  BY <1>2, <1>3

\* A leaf is a tree.
LEMMA LeafTree ==
    ASSUME HeapOK, NEW n \in 1 .. Len(heap), heap[n].kind # "stmts"
    PROVE  Tree(n) = {n} /\ Nodes(n) = <<n>> /\ ~ FoldsToChild(n)
BY DEF HeapOK, NodeOK, Tree, ToSet, Nodes, FoldsToChild

LEMMA OwnedNodes ==
    ASSUME HeapOK, NEW i \in 1 .. Len(stack), FrameOK(i)
    PROVE  /\ Owned(i) \subseteq 1 .. Len(heap)
           /\ stack[i].ptr # NULL => /\ stack[i].ptr \in 1 .. Len(heap)
                                     /\ Owned(i) = Tree(stack[i].ptr)
           /\ stack[i].ptr = NULL => stack[i].stage = "parse" /\ Owned(i) = {}
           /\ stack[i].stage # "parse" => stack[i].ptr # NULL
<1>1. Len(heap) \in Nat
  BY SeqElements DEF HeapOK
<1>. QED  BY <1>1, NodesOfTree DEF FrameOK, Owned, NULL

LEMMA OwnedPointer ==
    ASSUME HeapOK, NEW i \in 1 .. Len(stack), FrameOK(i)
    PROVE  stack[i].ptr # NULL => stack[i].ptr \in Owned(i) /\ stack[i].ptr \in 1 .. Len(heap)
BY OwnedNodes, NodesOfTree

LEMMA DeletedNodes ==
    ASSUME HeapOK, NEW ns
    PROVE  /\ IsSeq(Delete(ns)) /\ Len(Delete(ns)) = Len(heap)
           /\ \A n \in 1 .. Len(heap) :
                 Delete(ns)[n] = IF n \in ns THEN deletes[n] + 1 ELSE deletes[n]
<1>1. DOMAIN deletes = 1 .. Len(heap) /\ Len(heap) \in Nat
  BY SeqElements DEF HeapOK
<1>2. \A n \in 1 .. Len(heap) : deletes[n] \in Nat
  BY DEF HeapOK
<1>3. Delete(ns) \in [1 .. Len(heap) -> Nat]
  BY <1>1, <1>2 DEF Delete
<1>4. Delete(ns) \in Seq(Nat) /\ Len(Delete(ns)) = Len(heap)
  BY <1>1, <1>3
<1>. QED  BY <1>1, <1>4, SeqOfAny DEF Delete

LEMMA TopFrame ==
    ASSUME IncInv, Running
    PROVE  /\ Len(stack) \in Nat /\ Len(stack) > 0 /\ Len(stack) \in 1 .. Len(stack)
           /\ IsSeq(stack) /\ FrameOK(Len(stack)) /\ Top = stack[Len(stack)]
           /\ Len(heap) \in Nat
<1>1. IsSeq(stack) /\ stack # <<>>
  BY DEF IncInv, StackOK
<1>2. Len(stack) \in Nat /\ Len(stack) > 0
  BY <1>1 DEF IsSeq
<1>. QED  BY <1>1, <1>2, SeqElements DEF IncInv, StackOK, HeapOK, Top

LEMMA TopSet ==
    ASSUME IncInv, Running, NEW f, stack' = SetTop(f)
    PROVE  /\ IsSeq(stack') /\ Len(stack') = Len(stack) /\ stack' # <<>>
           /\ stack'[Len(stack)] = f
           /\ \A i \in 1 .. Len(stack) - 1 : stack'[i] = stack[i]
<1>1. Len(stack) \in Nat /\ Len(stack) \in 1 .. Len(stack) /\ IsSeq(stack)
  BY TopFrame
<1>2. DOMAIN stack = 1 .. Len(stack)
  BY <1>1, SeqElements, SMTT(60)
<1>3. stack' = [i \in 1 .. Len(stack) |-> IF i = Len(stack) THEN f ELSE stack[i]]
  BY <1>2 DEF SetTop
<1>4. /\ stack'[Len(stack)] = f
      /\ \A i \in 1 .. Len(stack) - 1 : stack'[i] = stack[i]
  BY <1>1, <1>3
<1>5. IsSeq(stack') /\ Len(stack') = Len(stack)
  BY <1>1, <1>3, SeqOfFunction
<1>6. stack' # <<>>
  BY <1>1, <1>5
<1>. QED  BY <1>4, <1>5, <1>6

\* The activation walks over these nodes of its AST.
Walks(f, i, h, nodes) ==
    /\ DOMAIN f = {"inc", "ptr", "at", "stage"} /\ f.stage = "walk"
    /\ f.inc = None <=> i = 1
    /\ f.inc # None => f.inc.file \in File
    /\ f.ptr \in 1 .. Len(h) /\ f.at \in 1 .. Len(nodes) + 1
    /\ \A k \in 1 .. f.at - 1 : h[nodes[k]].kind \in {"raw", "print"}

\* What FrameOK says of an activation that waits for another one, ...
LEMMA WaitingFrame ==
    ASSUME NEW i, FrameOK(i), i < Len(stack), NEW f, f = stack[i],
           NEW nodes, nodes = Nodes(f.ptr)
    PROVE  Walks(f, i, heap, nodes) /\ f.at <= Len(nodes) /\ heap[nodes[f.at]].kind = "include"
<1>1. /\ DOMAIN f = {"inc", "ptr", "at", "stage"} /\ f.stage = "walk"
      /\ f.inc = None <=> i = 1
      /\ f.inc # None => f.inc.file \in File
      /\ f.at <= Len(nodes) /\ heap[nodes[f.at]].kind = "include"
  BY Zenon DEF FrameOK
<1>2. f.ptr \in 1 .. Len(heap)
  BY <1>1, Zenon DEF FrameOK
<1>3. /\ f.at \in 1 .. Len(nodes) + 1
      /\ \A k \in 1 .. f.at - 1 : Settled(nodes[k])
  BY <1>1, Zenon DEF FrameOK
<1>. QED  BY <1>1, <1>2, <1>3 DEF Settled, Walks

\* ... of one that has resolved its own AST, ...
LEMMA ResolvedFrame ==
    ASSUME NEW i, FrameOK(i), NEW f, f = stack[i], NEW nodes, nodes = Nodes(f.ptr),
           f.stage \in {"resolved", "done"}
    PROVE  /\ f.ptr \in 1 .. Len(heap) /\ ~ FoldsToChild(f.ptr)
           /\ \A k \in 1 .. Len(nodes) : heap[nodes[k]].kind \in {"raw", "print"}
<1>1. f.stage # "parse"
  OBVIOUS
<1>2. f.ptr \in 1 .. Len(heap)
  BY <1>1, Zenon DEF FrameOK
<1>3. ~ FoldsToChild(f.ptr) /\ \A k \in 1 .. Len(nodes) : Settled(nodes[k])
  BY Zenon DEF FrameOK
<1>. QED  BY <1>2, <1>3 DEF Settled

\* ... and what makes it hold of the last activation while it walks.
LEMMA WalkingFrame ==
    ASSUME NEW i, NEW f, f = stack'[i], NEW nodes, nodes = Nodes(f.ptr)',
           Walks(f, i, heap', nodes), ~ (i < Len(stack'))
    PROVE  FrameOK(i)'
<1>1. f.stage \in Stages /\ f.stage # "parse" /\ f.stage \notin {"resolved", "done"}
  BY DEF Walks, Stages
<1>2. \A k \in 1 .. f.at - 1 : Settled(nodes[k])'
  BY DEF Walks, Settled
<1>3. f.stage # "done"
  BY <1>1
<1>. QED  BY <1>1, <1>2, <1>3, Zenon DEF Walks, FrameOK

\* An activation is not disturbed by a step that leaves it and its tree alone.
LEMMA FrameKept ==
    ASSUME HeapOK, NEW i \in 1 .. Len(stack), FrameOK(i),
           i \in 1 .. Len(stack'), stack'[i] = stack[i],
           Len(heap') \in Nat, Len(heap) <= Len(heap'),
           \A n \in 1 .. Len(heap) : heap'[n].kind = heap[n].kind,
           stack[i].ptr # NULL => heap'[stack[i].ptr].kids = heap[stack[i].ptr].kids,
           i < Len(stack') => i < Len(stack)
    PROVE  FrameOK(i)' /\ Owned(i)' = Owned(i)
<1>0. PICK p : p = stack[i].ptr
  OBVIOUS
<1>1. CASE p = NULL
  <2>1. stack[i].stage = "parse"
    BY <1>0, <1>1, OwnedNodes
  <2>. QED  BY <1>0, <1>1, <2>1 DEF FrameOK, Owned
<1>2. CASE p # NULL
  <2>1. p \in 1 .. Len(heap) /\ Len(heap) \in Nat
    BY <1>0, <1>2, OwnedNodes, SeqElements DEF HeapOK
  <2>2. heap'[p].kind = heap[p].kind /\ heap'[p].kids = heap[p].kids
    BY <1>0, <1>2, <2>1
  <2>3. Nodes(p)' = Nodes(p) /\ Tree(p)' = Tree(p)
    BY <2>2 DEF Nodes, Tree
  <2>4. \A k \in 1 .. Len(Nodes(p)) : heap'[Nodes(p)[k]].kind = heap[Nodes(p)[k]].kind
    BY <2>1, NodesOfTree
  <2>5. Len(Nodes(p)) \in Nat
    BY <2>1, NodesOfTree
  <2>6. Owned(i)' = Owned(i)
    BY <1>0, <2>3 DEF Owned
  <2>7. stack'[i].stage = "walk" =>
           /\ stack'[i].at \in 1 .. Len(Nodes(p)') + 1
           /\ \A k \in 1 .. stack'[i].at - 1 : heap'[Nodes(p)'[k]].kind \in {"raw", "print"}
    <3>1. stack[i].stage = "walk" =>
             /\ stack[i].at \in 1 .. Len(Nodes(p)) + 1
             /\ \A k \in 1 .. stack[i].at - 1 : heap[Nodes(p)[k]].kind \in {"raw", "print"}
      BY <1>0 DEF FrameOK, Settled
    <3>2. \A k : stack[i].at \in 1 .. Len(Nodes(p)) + 1 /\ k \in 1 .. stack[i].at - 1
                  => k \in 1 .. Len(Nodes(p))
      BY <2>5, SMTT(60)
    <3>. QED  BY <2>3, <2>4, <3>1, <3>2
  <2>8. stack'[i].stage \in {"resolved", "done"} =>
           /\ ~ FoldsToChild(p)'
           /\ \A k \in 1 .. Len(Nodes(p)') : heap'[Nodes(p)'[k]].kind \in {"raw", "print"}
    BY <1>0, <2>2, <2>3, <2>4, <2>5, SMTT(60) DEF FrameOK, Settled, FoldsToChild
  <2>9. i < Len(stack') =>
           /\ stack'[i].stage = "walk" /\ stack'[i].at <= Len(Nodes(p)')
           /\ heap'[Nodes(p)'[stack'[i].at]].kind = "include"
    BY <1>0, <2>3, <2>4, <2>5, SMTT(60) DEF FrameOK
  <2>10. FrameOK(i)'
    BY <1>0, <2>1, <2>7, <2>8, <2>9 DEF FrameOK, Settled
  <2>. QED  BY <2>6, <2>10
<1>. QED  BY <1>1, <1>2

LEMMA OwnersKept ==
    ASSUME Disjoint,
           \A i \in 1 .. Len(stack') :
              Owned(i)' = {} \/ (i \in 1 .. Len(stack) /\ Owned(i)' \subseteq Owned(i))
    PROVE  Disjoint'
<1>. SUFFICES ASSUME NEW i \in 1 .. Len(stack'), NEW j \in 1 .. Len(stack'), i # j
              PROVE  Owned(i)' \cap Owned(j)' = {}
  BY DEF Disjoint
<1>1. Owned(i)' = {} \/ (i \in 1 .. Len(stack) /\ Owned(i)' \subseteq Owned(i))
  OBVIOUS
<1>2. Owned(j)' = {} \/ (j \in 1 .. Len(stack) /\ Owned(j)' \subseteq Owned(j))
  OBVIOUS
<1>. QED  BY <1>1, <1>2 DEF Disjoint

\* Steps that leave the heap alone.
LEMMA SameHeap ==
    ASSUME HeapOK, heap' = heap, IsSeq(deletes'), Len(deletes') = Len(heap),
           \A n \in 1 .. Len(heap) : deletes'[n] \in Nat
    PROVE  HeapOK'
<1>1. ASSUME NEW n \in 1 .. Len(heap)
      PROVE  NodeOK(n)'
  <2>1. NodeOK(n)
    BY DEF HeapOK
  <2>. QED  BY <2>1 DEF NodeOK
<1>2. IsSeq(heap')
  BY DEF HeapOK
<1>. QED  BY <1>1, <1>2 DEF HeapOK

LEMMA SameHeapAndDeletes ==
    ASSUME HeapOK, heap' = heap, deletes' = deletes
    PROVE  HeapOK'
<1>1. /\ IsSeq(deletes) /\ Len(deletes) = Len(heap)
      /\ \A n \in 1 .. Len(heap) : deletes[n] \in Nat
  BY DEF HeapOK
<1>2. /\ IsSeq(deletes') /\ Len(deletes') = Len(heap)
      /\ \A n \in 1 .. Len(heap) : deletes'[n] \in Nat
  BY <1>1
<1>. QED  BY <1>2, SameHeap

\* The activations of an unchanged stack over an unchanged heap are as they were.
LEMMA SameFrames ==
    ASSUME heap' = heap, stack' = stack
    PROVE  \A i : (FrameOK(i) => FrameOK(i)') /\ Owned(i)' = Owned(i)
<1>1. \A n : /\ Settled(n)' = Settled(n) /\ FoldsToChild(n)' = FoldsToChild(n)
             /\ Nodes(n)' = Nodes(n) /\ Tree(n)' = Tree(n)
  BY DEF Settled, FoldsToChild, Nodes, Tree
<1>2. ASSUME NEW i PROVE (FrameOK(i) => FrameOK(i)') /\ Owned(i)' = Owned(i)
  <2>1. FrameOK(i)' <=> FrameOK(i)
    BY <1>1, Zenon DEF FrameOK
  <2>2. Owned(i)' = Owned(i)
    BY <1>1, Zenon DEF Owned
  <2>. QED  BY <2>1, <2>2
<1>. QED  BY <1>2

\* Steps of the last activation that leave the heap alone.
LEMMA TopMoves ==
    ASSUME IncInv, Running, UNCHANGED <<files, heap, deletes, thrown, outcome>>,
           NEW f, stack' = SetTop(f), f.ptr = Top.ptr, FrameOK(Len(stack))'
    PROVE  IncInv'
<1>1. /\ Len(stack) \in Nat /\ Len(stack) > 0 /\ Top = stack[Len(stack)]
      /\ Len(heap) \in Nat
  BY TopFrame
<1>2. /\ IsSeq(stack') /\ Len(stack') = Len(stack) /\ stack' # <<>>
      /\ stack'[Len(stack)] = f
      /\ \A i \in 1 .. Len(stack) - 1 : stack'[i] = stack[i]
  BY TopSet
<1>3. \A i \in 1 .. Len(stack) - 1 : FrameOK(i)' /\ Owned(i)' = Owned(i)
  BY <1>1, <1>2, FrameKept DEF IncInv, HeapOK, StackOK
<1>4. Owned(Len(stack))' = Owned(Len(stack))
  BY <1>1, <1>2 DEF Owned, Tree
<1>5. \A i \in 1 .. Len(stack) : FrameOK(i)' /\ Owned(i)' = Owned(i)
  BY <1>1, <1>2, <1>3, <1>4
<1>6. HeapOK'
  BY SameHeap DEF IncInv, HeapOK
<1>7. StackOK'
  BY <1>2, <1>5 DEF IncInv, StackOK, Running
<1>8. Disjoint'
  BY <1>2, <1>5, OwnersKept DEF IncInv
<1>9. Accounted'
  <2>1. /\ \A n : Tree(n)' = Tree(n)
        /\ Running' = Running /\ Missing' = Missing
    BY DEF Tree, Running, Missing
  <2>. QED  BY <1>2, <1>5, <2>1 DEF IncInv, Accounted
<1>. QED  BY <1>6, <1>7, <1>8, <1>9 DEF IncInv

LEMMA InitIncInv == ASSUME IncludeAssumption, Init PROVE IncInv
<1>1. /\ heap = <<>> /\ deletes = <<>> /\ Len(heap) = 0 /\ Len(deletes) = 0
      /\ stack = <<Frame(None)>> /\ Len(stack) = 1 /\ stack[1] = Frame(None)
      /\ Running /\ outcome.status = "running" /\ ~ Missing /\ files \in Programs
  BY DEF Init, Running, Missing, IncludeAssumption
<1>2. IsSeq(heap) /\ IsSeq(deletes) /\ IsSeq(stack) /\ stack # <<>>
  <2>1. heap \in Seq({}) /\ deletes \in Seq({}) /\ stack \in Seq({Frame(None)})
    BY <1>1
  <2>. QED  BY <1>1, <2>1, SeqOfAny
<1>3. HeapOK
  BY <1>1, <1>2 DEF HeapOK
<1>4. FrameOK(1)
  BY <1>1 DEF FrameOK, Frame, Stages
<1>5. Owned(1) = {}
  BY <1>1 DEF Owned, Frame
<1>6. StackOK
  BY <1>1, <1>2, <1>4 DEF StackOK
<1>7. Disjoint
  BY <1>1 DEF Disjoint
<1>8. Accounted
  BY <1>1, <1>5 DEF Accounted
<1>. QED  BY <1>3, <1>6, <1>7, <1>8 DEF IncInv

LEMMA ParseFailsIncInv ==
    ASSUME IncludeAssumption, IncInv, NEW error \in {"NoSuchFile", "SyntaxError"},
           ParseFails(error)
    PROVE  IncInv'
<1>1. UNCHANGED <<files, heap, deletes, stack, outcome>> /\ ~ Missing /\ ~ Missing'
  BY DEF ParseFails, Missing, IncludeAssumption
<1>2. HeapOK'
  BY <1>1, SameHeapAndDeletes DEF IncInv
<1>3. \A i : (FrameOK(i) => FrameOK(i)') /\ Owned(i)' = Owned(i)
  BY <1>1, SameFrames
<1>4. StackOK'
  BY <1>1, <1>3 DEF IncInv, StackOK, Running
<1>5. Disjoint'
  BY <1>1, <1>3 DEF IncInv, Disjoint
<1>6. Accounted'
  BY <1>1, <1>3 DEF IncInv, Accounted, Running, Tree
<1>. QED  BY <1>2, <1>4, <1>5, <1>6 DEF IncInv

\* A raw or print block is passed over.
LEMMA SkipNodeIncInv ==
    ASSUME IncInv, SkipNode
    PROVE  IncInv'
<1>. DEFINE f == [Top EXCEPT !.at = @ + 1]
<1>0. PICK p : p = Top.ptr
  OBVIOUS
<1>1. /\ Running /\ UNCHANGED <<files, heap, deletes, thrown, outcome>>
      /\ stack' = SetTop(f) /\ Top.stage = "walk" /\ Top.at <= Len(Nodes(p))
      /\ heap[Nodes(p)[Top.at]].kind # "include"
  BY <1>0 DEF SkipNode, Walking, AtNode, NodeAt
<1>2. /\ Len(stack) \in Nat /\ Top = stack[Len(stack)] /\ Len(stack) \in 1 .. Len(stack)
      /\ FrameOK(Len(stack))
  BY <1>1, TopFrame
<1>3. Len(stack') = Len(stack) /\ stack'[Len(stack)] = f
  BY <1>1, TopSet
<1>4. p \in 1 .. Len(heap) /\ Top.at \in 1 .. Len(Nodes(p)) + 1
  BY <1>0, <1>1, <1>2 DEF FrameOK
<1>5. Len(Nodes(p)) \in Nat /\ heap[Nodes(p)[Top.at]].kind \in {"raw", "print"}
  <2>1. Nodes(p) \in Seq(Nat) /\ Top.at \in 1 .. Len(Nodes(p))
    BY <1>1, <1>4, NodesOfTree DEF IncInv
  <2>2. Nodes(p)[Top.at] \in 1 .. Len(heap) /\ heap[Nodes(p)[Top.at]].kind # "stmts"
    BY <1>4, <2>1, NodesOfTree DEF IncInv
  <2>3. heap[Nodes(p)[Top.at]].kind \in Kinds
    BY <2>2 DEF IncInv, HeapOK, NodeOK
  <2>. QED  BY <1>1, <2>1, <2>2, <2>3, SMTT(60) DEF Kinds
<1>6. /\ DOMAIN f = {"inc", "ptr", "at", "stage"} /\ f.at = Top.at + 1
      /\ f.ptr = Top.ptr /\ f.inc = Top.inc /\ f.stage = Top.stage
  BY <1>2, SMTT(60) DEF FrameOK
<1>7. FrameOK(Len(stack))'
  <2>1. Nodes(p)' = Nodes(p)
    BY <1>1 DEF Nodes
  <2>2. \A k \in 1 .. Top.at - 1 : heap[Nodes(p)[k]].kind \in {"raw", "print"}
    BY <1>0, <1>1, <1>2 DEF FrameOK, Settled
  <2>3. /\ f.at \in 1 .. Len(Nodes(p)) + 1
        /\ \A k \in 1 .. f.at - 1 : heap[Nodes(p)[k]].kind \in {"raw", "print"}
    BY <1>1, <1>4, <1>5, <1>6, <2>2, SMTT(60)
  <2>. HIDE DEF f
  <2>4. /\ f.inc = None <=> Len(stack) = 1
        /\ f.inc # None => f.inc.file \in File
    BY <1>2, <1>6, Zenon DEF FrameOK
  <2>5. PICK g, i, nodes : g = f /\ i = Len(stack) /\ nodes = Nodes(p)
    OBVIOUS
  <2>6. g = stack'[i] /\ g.ptr = p /\ i = Len(stack')
    BY <1>0, <1>3, <1>6, <2>5
  <2>7. nodes = Nodes(g.ptr)'
    BY <2>1, <2>5, <2>6
  <2>8. Walks(g, i, heap', nodes)
    BY <1>1, <1>4, <1>6, <2>3, <2>4, <2>5, <2>6 DEF Walks
  <2>9. ~ (i < Len(stack'))
    BY <1>2, <2>5, <2>6
  <2>. QED  BY <2>5, <2>6, <2>7, <2>8, <2>9, WalkingFrame, Zenon
<1>. QED  BY <1>1, <1>6, <1>7, TopMoves

\* Nodes that are deleted, each by the activation that owns it.
LEMMA StillAccounted ==
    ASSUME IncInv, Running, Running', Missing' = Missing, Len(heap') = Len(heap), NEW gone,
           \A n \in 1 .. Len(heap) :
              deletes'[n] = IF n \in gone THEN deletes[n] + 1 ELSE deletes[n],
           \A n \in gone : \E i \in 1 .. Len(stack) : n \in Owned(i),
           \A i \in 1 .. Len(stack) : \A n \in Owned(i) :
              n \in gone \/ \E j \in 1 .. Len(stack') : n \in Owned(j)',
           \A j \in 1 .. Len(stack') : \A n \in Owned(j)' :
              n \notin gone /\ \E i \in 1 .. Len(stack) : n \in Owned(i)
    PROVE  Accounted'
<1>1. \A n \in 1 .. Len(heap) : deletes[n] \in Nat
  BY DEF IncInv, HeapOK
<1>2. \A i \in 1 .. Len(stack) : Owned(i) \subseteq 1 .. Len(heap)
  BY OwnedNodes DEF IncInv, StackOK
<1>3. ASSUME NEW n \in 1 .. Len(heap), deletes'[n] = 0
      PROVE  \E j \in 1 .. Len(stack') : n \in Owned(j)'
  <2>1. n \notin gone /\ deletes[n] = 0
    BY <1>1, <1>3
  <2>. QED  BY <2>1 DEF IncInv, Accounted
<1>4. ASSUME ~ Missing, NEW j \in 1 .. Len(stack'), NEW n \in Owned(j)'
      PROVE  deletes'[n] = 0
  BY <1>2, <1>4 DEF IncInv, Accounted
<1>5. ASSUME ~ Missing, NEW n \in 1 .. Len(heap)
      PROVE  deletes'[n] <= 1
  <2>1. n \in gone => deletes[n] = 0
    BY <1>5 DEF IncInv, Accounted
  <2>2. deletes[n] <= 1
    BY <1>5 DEF IncInv, Accounted
  <2>. QED  BY <1>1, <2>1, <2>2
<1>6. outcome'.status = "running"
  BY DEF Running
<1>. QED  BY <1>3, <1>4, <1>5, <1>6 DEF Accounted

\* ASTPass::include_block() is called: a new activation, that owns nothing yet.
LEMMA EnterIncludeIncInv ==
    ASSUME IncInv, EnterInclude
    PROVE  IncInv'
<1>. DEFINE f == Frame(heap[NodeAt].inc)
<1>0. PICK d : d = Len(stack)
  OBVIOUS
<1>1. /\ Running /\ UNCHANGED <<files, heap, deletes, thrown, outcome>>
      /\ stack' = Append(stack, f) /\ Top.stage = "walk" /\ AtNode
      /\ heap[NodeAt].kind = "include"
  BY DEF EnterInclude, Walking
<1>2. /\ d \in Nat /\ d \in 1 .. d /\ Top = stack[d] /\ IsSeq(stack)
      /\ FrameOK(d) /\ Len(heap) \in Nat
  BY <1>0, <1>1, TopFrame
<1>. HIDE DEF f
<1>3. /\ IsSeq(stack') /\ Len(stack') = d + 1 /\ stack'[d + 1] = f
      /\ \A i \in 1 .. d : stack'[i] = stack[i]
  BY <1>0, <1>1, <1>2, Appended
<1>4. f = [inc |-> f.inc, ptr |-> NULL, at |-> 1, stage |-> "parse"]
  BY DEF f, Frame
<1>5. f.inc # None /\ f.inc.file \in File
  <2>0. PICK p : p = Top.ptr
    OBVIOUS
  <2>1. p \in 1 .. Len(heap) /\ Top.at \in 1 .. Len(Nodes(p))
    BY <1>1, <1>2, <2>0, NodesOfTree DEF FrameOK, AtNode, IncInv
  <2>2. NodeAt \in 1 .. Len(heap)
    BY <2>0, <2>1, NodesOfTree DEF IncInv, NodeAt
  <2>3. heap[NodeAt].inc # None /\ heap[NodeAt].inc.file \in File
    BY <1>1, <2>2 DEF IncInv, HeapOK, NodeOK
  <2>. QED  BY <2>3 DEF f, Frame
<1>6. ASSUME NEW i \in 1 .. d - 1
      PROVE  FrameOK(i)' /\ Owned(i)' = Owned(i)
  BY <1>0, <1>1, <1>2, <1>3, FrameKept DEF IncInv, StackOK
<1>7. /\ \A i \in 1 .. d : Owned(i)' = Owned(i)
      /\ Owned(d + 1)' = {}
  <2>1. stack'[d + 1].ptr = NULL
    BY <1>3, <1>4
  <2>2. Owned(d + 1)' = {}
    BY <2>1 DEF Owned
  <2>3. \A i \in 1 .. d : Owned(i)' = Owned(i)
    BY <1>1, <1>3 DEF Owned, Tree
  <2>. QED  BY <2>2, <2>3
<1>8. ASSUME NEW i, i = d
      PROVE  FrameOK(i)'
  <2>0. PICK p : p = stack[i].ptr
    OBVIOUS
  <2>1. Nodes(p)' = Nodes(p)
    BY <1>1 DEF Nodes
  <2>2. stack'[i] = stack[i] /\ stack[i].stage = "walk"
    BY <1>1, <1>2, <1>3, <1>8
  <2>3. stack[i].at <= Len(Nodes(p)) /\ heap[Nodes(p)[stack[i].at]].kind = "include"
    BY <1>1, <1>2, <1>8, <2>0 DEF AtNode, NodeAt
  <2>. QED  BY <1>1, <1>2, <1>3, <1>8, <2>0, <2>1, <2>2, <2>3 DEF FrameOK, Settled
<1>9. ASSUME NEW i, i = d + 1
      PROVE  FrameOK(i)'
  BY <1>2, <1>3, <1>4, <1>5, <1>9 DEF FrameOK, Stages
<1>10. \A i \in 1 .. d + 1 : FrameOK(i)'
  BY <1>2, <1>6, <1>8, <1>9
<1>11. HeapOK'
  BY <1>1, SameHeap DEF IncInv, HeapOK
<1>12. StackOK'
  <2>1. stack' # <<>>
    BY <1>2, <1>3
  <2>. QED  BY <1>1, <1>3, <1>10, <2>1 DEF IncInv, StackOK, Running
<1>13. Disjoint'
  BY <1>0, <1>2, <1>3, <1>7, OwnersKept DEF IncInv
<1>14. Accounted'
  <2>0. PICK gone : gone = {}
    OBVIOUS
  <2>1. /\ \A i \in 1 .. d : \A n \in Owned(i) : \E j \in 1 .. d + 1 : n \in Owned(j)'
        /\ \A j \in 1 .. d + 1 : \A n \in Owned(j)' :
              n \notin gone /\ \E i \in 1 .. d : n \in Owned(i)
    BY <1>2, <1>7, <2>0
  <2>2. Running' /\ Missing' = Missing /\ Len(heap') = Len(heap)
    BY <1>1 DEF Running, Missing
  <2>3. \A n \in 1 .. Len(heap) :
           deletes'[n] = IF n \in gone THEN deletes[n] + 1 ELSE deletes[n]
    BY <1>1, <2>0
  <2>4. \A n \in gone : \E i \in 1 .. Len(stack) : n \in Owned(i)
    BY <2>0
  <2>. QED  BY <1>0, <1>1, <1>3, <2>1, <2>2, <2>3, <2>4, StillAccounted
<1>. QED  BY <1>11, <1>12, <1>13, <1>14 DEF IncInv

\* Nodes that may be the children of a StatementsAST.
Children(kids) ==
    /\ kids \in Seq(Nat)
    /\ \A k \in 1 .. Len(kids) : kids[k] \in 1 .. Len(heap) /\ heap[kids[k]].kind # "stmts"
    /\ \A k, l \in 1 .. Len(kids) : kids[k] = kids[l] => k = l

\* Steps that change the children of StatementsASTs, and expressions.
LEMMA HeapChanged ==
    ASSUME HeapOK, IsSeq(heap'), Len(heap') = Len(heap),
           IsSeq(deletes'), Len(deletes') = Len(heap),
           \A n \in 1 .. Len(heap) : deletes'[n] \in Nat,
           \A n \in 1 .. Len(heap) : /\ DOMAIN heap'[n] = DOMAIN heap[n]
                                     /\ heap'[n].kind = heap[n].kind
                                     /\ heap'[n].inc = heap[n].inc,
           \A n \in 1 .. Len(heap) :
              \/ heap'[n].kids = heap[n].kids
              \/ heap[n].kind = "stmts" /\ Children(heap'[n].kids)
    PROVE  HeapOK'
<1>. SUFFICES ASSUME NEW n \in 1 .. Len(heap) PROVE NodeOK(n)'
  BY DEF HeapOK
<1>1. NodeOK(n)
  BY DEF HeapOK
<1>2. /\ DOMAIN heap'[n] = DOMAIN heap[n] /\ heap'[n].kind = heap[n].kind
      /\ heap'[n].inc = heap[n].inc
  OBVIOUS
<1>3. CASE heap'[n].kids = heap[n].kids
  <2>1. \A k \in 1 .. Len(heap[n].kids) :
           heap'[heap[n].kids[k]].kind = heap[heap[n].kids[k]].kind
    BY <1>1 DEF NodeOK
  <2>. QED  BY <1>1, <1>2, <1>3, <2>1, SMTT(60) DEF NodeOK
<1>4. CASE heap'[n].kids # heap[n].kids
  <2>1. PICK kids : kids = heap'[n].kids
    OBVIOUS
  <2>2. /\ heap[n].kind = "stmts" /\ kids \in Seq(Nat)
        /\ \A k \in 1 .. Len(kids) : /\ kids[k] \in 1 .. Len(heap)
                                     /\ heap[kids[k]].kind # "stmts"
        /\ \A k, l \in 1 .. Len(kids) : kids[k] = kids[l] => k = l
    BY <1>4, <2>1 DEF Children
  <2>. QED  BY <1>1, <1>2, <2>1, <2>2, SMTT(60) DEF NodeOK
<1>. QED  BY <1>3, <1>4

LEMMA WithKids ==
    ASSUME NEW r, NEW v, DOMAIN r = {"kind", "expr", "inc", "kids"}
    PROVE  /\ DOMAIN [r EXCEPT !.kids = v] = DOMAIN r
           /\ [r EXCEPT !.kids = v].kind = r.kind
           /\ [r EXCEPT !.kids = v].inc = r.inc /\ [r EXCEPT !.kids = v].expr = r.expr
           /\ [r EXCEPT !.kids = v].kids = v
OBVIOUS

\* The children of one StatementsAST are released.
LEMMA KidsReleased ==
    ASSUME HeapOK, NEW husk \in 1 .. Len(heap), heap[husk].kind = "stmts",
           heap' = [heap EXCEPT ![husk].kids = <<>>]
    PROVE  /\ IsSeq(heap') /\ Len(heap') = Len(heap)
           /\ \A n \in 1 .. Len(heap) : /\ DOMAIN heap'[n] = DOMAIN heap[n]
                                        /\ heap'[n].kind = heap[n].kind
                                        /\ heap'[n].inc = heap[n].inc
                                        /\ heap'[n].expr = heap[n].expr
           /\ \A n \in 1 .. Len(heap) : n # husk => heap'[n] = heap[n]
           /\ heap'[husk].kids = <<>>
<1>1. DOMAIN heap = 1 .. Len(heap) /\ Len(heap) \in Nat
  BY SeqElements DEF HeapOK
<1>2. PICK r : r = [heap[husk] EXCEPT !.kids = <<>>]
  OBVIOUS
<1>3. heap' = [n \in 1 .. Len(heap) |-> IF n = husk THEN r ELSE heap[n]]
  BY <1>1, <1>2
<1>4. IsSeq(heap') /\ Len(heap') = Len(heap)
  <2>1. heap' = [n \in 1 .. Len(heap) |-> heap'[n]]
    BY <1>3
  <2>. QED  BY <1>1, <2>1, SeqOfFunction
<1>5. /\ DOMAIN r = DOMAIN heap[husk] /\ r.kind = heap[husk].kind
      /\ r.inc = heap[husk].inc /\ r.expr = heap[husk].expr /\ r.kids = <<>>
  <2>1. DOMAIN heap[husk] = {"kind", "expr", "inc", "kids"}
    BY DEF HeapOK, NodeOK
  <2>. QED  BY <1>2, <2>1, WithKids
<1>6. \A n \in 1 .. Len(heap) : heap'[n] = IF n = husk THEN r ELSE heap[n]
  BY <1>3
<1>. QED  BY <1>4, <1>5, <1>6

\* The walk ends; a StatementsAST with one child is replaced by it.
LEMMA FinishWalkIncInv ==
    ASSUME IncInv, FinishWalk
    PROVE  IncInv'
<1>0. PICK d, p : d = Len(stack) /\ p = Top.ptr
  OBVIOUS
<1>1. /\ Running /\ UNCHANGED <<files, thrown, outcome>>
      /\ Top.stage = "walk" /\ ~ (Top.at <= Len(Nodes(p)))
  BY <1>0 DEF FinishWalk, Walking, AtNode
<1>2. /\ d \in Nat /\ d \in 1 .. d /\ Top = stack[d] /\ IsSeq(stack)
      /\ FrameOK(d) /\ Len(heap) \in Nat /\ HeapOK
  BY <1>0, <1>1, TopFrame DEF IncInv
<1>3. p \in 1 .. Len(heap) /\ Top.at \in 1 .. Len(Nodes(p)) + 1
  BY <1>0, <1>1, <1>2 DEF FrameOK
<1>4. Nodes(p) \in Seq(Nat) /\ Len(Nodes(p)) \in Nat
  BY <1>2, <1>3, NodesOfTree
<1>5. \A k \in 1 .. Len(Nodes(p)) : heap[Nodes(p)[k]].kind \in {"raw", "print"}
  <2>1. Top.at = Len(Nodes(p)) + 1
    BY <1>1, <1>3, <1>4
  <2>2. \A k \in 1 .. Top.at - 1 : heap[Nodes(p)[k]].kind \in {"raw", "print"}
    BY <1>0, <1>1, <1>2 DEF FrameOK, Settled
  <2>. QED  BY <1>4, <2>1, <2>2
<1>6. DOMAIN Top = {"inc", "ptr", "at", "stage"} /\ (Top.inc = None <=> d = 1)
      /\ (Top.inc # None => Top.inc.file \in File)
  BY <1>2 DEF FrameOK
<1>7. CASE ~ FoldsToChild(p)
  <2>. DEFINE f == [Top EXCEPT !.stage = "resolved"]
  <2>1. stack' = SetTop(f) /\ UNCHANGED <<heap, deletes>>
    BY <1>0, <1>7 DEF FinishWalk
  <2>2. /\ DOMAIN f = {"inc", "ptr", "at", "stage"} /\ f.ptr = p /\ f.inc = Top.inc
        /\ f.stage = "resolved"
    BY <1>0, <1>6
  <2>. HIDE DEF f
  <2>3. Len(stack') = d /\ stack'[d] = f
    BY <1>0, <1>1, <2>1, TopSet
  <2>4. FrameOK(d)'
    <3>1. Nodes(p)' = Nodes(p) /\ ~ FoldsToChild(p)'
      BY <1>7, <2>1 DEF Nodes, FoldsToChild
    <3>. QED  BY <1>3, <1>5, <1>6, <2>1, <2>2, <2>3, <3>1
              DEF FrameOK, Settled, Stages
  <2>5. FrameOK(Len(stack))'
    BY <2>3, <2>4
  <2>. QED  BY <1>0, <1>1, <2>1, <2>2, <2>5, TopMoves
<1>8. CASE FoldsToChild(p)
  <2>0. PICK kid : kid = heap[p].kids[1]
    OBVIOUS
  <2>. DEFINE f == [Top EXCEPT !.ptr = kid, !.stage = "resolved"]
  <2>1. /\ heap' = [heap EXCEPT ![p].kids = <<>>] /\ deletes' = Delete({p})
        /\ stack' = SetTop(f)
    BY <1>0, <1>8, <2>0 DEF FinishWalk
  <2>2. /\ DOMAIN f = {"inc", "ptr", "at", "stage"} /\ f.ptr = kid /\ f.inc = Top.inc
        /\ f.stage = "resolved"
    BY <1>6
  <2>. HIDE DEF f
  <2>3. /\ IsSeq(stack') /\ Len(stack') = d /\ stack'[d] = f /\ stack' # <<>>
        /\ \A i \in 1 .. d - 1 : stack'[i] = stack[i]
    BY <1>0, <1>1, <2>1, TopSet
  <2>4. heap[p].kind = "stmts" /\ Len(heap[p].kids) = 1 /\ Nodes(p) = heap[p].kids
    BY <1>8 DEF FoldsToChild, Nodes
  <2>5. /\ kid \in 1 .. Len(heap) /\ heap[kid].kind \in {"raw", "print"}
        /\ kid # p /\ kid \in Tree(p) /\ p \in Tree(p)
    BY <1>2, <1>3, <1>5, <2>0, <2>4, NodesOfTree, SMTT(60)
  <2>6. Tree(p) = {p, kid}
    <3>1. \A m \in Tree(p) : m = p \/ \E k \in 1 .. Len(Nodes(p)) : m = Nodes(p)[k]
      BY <1>2, <1>3, NodesOfTree
    <3>2. \A k \in 1 .. Len(Nodes(p)) : Nodes(p)[k] = kid
      BY <2>0, <2>4
    <3>3. Tree(p) \subseteq {p, kid}
      BY <3>1, <3>2
    <3>. QED  BY <2>5, <3>3
  <2>7. /\ IsSeq(heap') /\ Len(heap') = Len(heap)
        /\ \A n \in 1 .. Len(heap) : /\ DOMAIN heap'[n] = DOMAIN heap[n]
                                     /\ heap'[n].kind = heap[n].kind
                                     /\ heap'[n].inc = heap[n].inc
        /\ \A n \in 1 .. Len(heap) : n # p => heap'[n] = heap[n]
        /\ heap'[p].kids = <<>>
    BY <1>2, <1>3, <2>1, <2>4, KidsReleased
  <2>8. /\ IsSeq(deletes') /\ Len(deletes') = Len(heap)
        /\ \A n \in 1 .. Len(heap) :
              deletes'[n] = IF n \in {p} THEN deletes[n] + 1 ELSE deletes[n]
        /\ \A n \in 1 .. Len(heap) : deletes'[n] \in Nat
    <3>1. \A n \in 1 .. Len(heap) : deletes[n] \in Nat
      BY <1>2 DEF HeapOK
    <3>. QED  BY <1>2, <2>1, <3>1, DeletedNodes
  <2>9. HeapOK'
    <3>1. Children(<<>>)
      BY DEF Children
    <3>2. \A n \in 1 .. Len(heap) :
             \/ heap'[n].kids = heap[n].kids
             \/ heap[n].kind = "stmts" /\ Children(heap'[n].kids)
      BY <2>4, <2>7, <3>1
    <3>. QED  BY <1>2, <2>7, <2>8, <3>2, HeapChanged
  <2>10. Owned(d) = {p, kid}
    BY <1>0, <1>1, <1>2, <2>6, OwnedNodes
  <2>11. ASSUME NEW i \in 1 .. d - 1
         PROVE  FrameOK(i)' /\ Owned(i)' = Owned(i)
    <3>1. i \in 1 .. Len(stack) /\ FrameOK(i) /\ i # d
      BY <1>0, <1>2 DEF IncInv, StackOK
    <3>2. stack[i].ptr # NULL => stack[i].ptr \in Owned(i) /\ stack[i].ptr \in 1 .. Len(heap)
      BY <1>2, <3>1, OwnedNodes, NodesOfTree
    <3>3. p \notin Owned(i)
      BY <1>0, <1>2, <2>10, <3>1 DEF IncInv, Disjoint
    <3>4. stack[i].ptr # NULL => heap'[stack[i].ptr].kids = heap[stack[i].ptr].kids
      BY <2>7, <3>2, <3>3
    <3>. QED  BY <1>0, <1>2, <2>3, <2>7, <3>1, <3>4, FrameKept
  <2>12. FrameOK(d)' /\ Owned(d)' = {kid}
    <3>1. heap'[kid].kind = heap[kid].kind /\ kid \in 1 .. Len(heap')
      BY <2>5, <2>7
    <3>2. heap'[kid].kids = <<>>
      BY <1>2, <2>5, <2>7 DEF HeapOK, NodeOK
    <3>3. Tree(kid)' = {kid} /\ Nodes(kid)' = <<kid>> /\ ~ FoldsToChild(kid)'
      BY <2>5, <3>1, <3>2 DEF Tree, ToSet, Nodes, FoldsToChild
    <3>4. FrameOK(d)'
      BY <1>6, <2>2, <2>3, <2>5, <3>1, <3>3 DEF FrameOK, Settled, Stages
    <3>5. Owned(d)' = {kid}
      BY <1>2, <2>2, <2>3, <2>5, <3>3 DEF Owned, NULL
    <3>. QED  BY <3>4, <3>5
  <2>13. StackOK'
    <3>1. \A i \in 1 .. d : FrameOK(i)'
      BY <1>2, <2>11, <2>12
    <3>. QED  BY <1>1, <2>3, <3>1 DEF IncInv, StackOK, Running
  <2>14. Disjoint'
    BY <1>0, <1>2, <2>3, <2>10, <2>11, <2>12, OwnersKept DEF IncInv
  <2>15. Accounted'
    <3>0. PICK gone : gone = {p}
      OBVIOUS
    <3>1. Running' /\ Missing' = Missing
      BY <1>1 DEF Running, Missing
    <3>2. \A n \in gone : \E i \in 1 .. Len(stack) : n \in Owned(i)
      BY <1>0, <1>2, <2>10, <3>0
    <3>3. \A i \in 1 .. d : \A n \in Owned(i) :
              n \in gone \/ \E j \in 1 .. d : n \in Owned(j)'
      BY <1>2, <2>10, <2>11, <2>12, <3>0
    <3>4. \A i \in 1 .. d - 1 : p \notin Owned(i)
      BY <1>0, <1>2, <2>10 DEF IncInv, Disjoint
    <3>5. \A j \in 1 .. d : \A n \in Owned(j)' :
              n \notin gone /\ \E i \in 1 .. d : n \in Owned(i)
      BY <1>2, <2>5, <2>10, <2>11, <2>12, <3>0, <3>4
    <3>. QED  BY <1>0, <1>1, <2>3, <2>7, <2>8, <3>0, <3>1, <3>2, <3>3, <3>5,
                 StillAccounted
  <2>. QED  BY <2>9, <2>13, <2>14, <2>15 DEF IncInv
<1>. QED  BY <1>7, <1>8

\* The inner run() has deleted the AST that the unique_ptr still owns.
LEMMA SubstitutionThrowsIncInv ==
    ASSUME IncInv, SubstitutionThrows
    PROVE  IncInv'
<1>1. /\ Running /\ UNCHANGED <<files, heap, stack, outcome>>
      /\ deletes' = Delete(Tree(Top.ptr)) /\ Missing'
  BY DEF SubstitutionThrows, Substituting, Missing
<1>2. \A n \in 1 .. Len(heap) : deletes[n] \in Nat
  BY DEF IncInv, HeapOK
<1>3. /\ IsSeq(deletes') /\ Len(deletes') = Len(heap)
      /\ \A n \in 1 .. Len(heap) : deletes'[n] \in Nat
      /\ \A n \in 1 .. Len(heap) : deletes'[n] = 0 => deletes[n] = 0
  <2>1. PICK ns : ns = Tree(Top.ptr)
    OBVIOUS
  <2>2. deletes' = Delete(ns) /\ HeapOK
    BY <1>1, <2>1 DEF IncInv
  <2>3. /\ IsSeq(deletes') /\ Len(deletes') = Len(heap)
        /\ \A n \in 1 .. Len(heap) :
              deletes'[n] = IF n \in ns THEN deletes[n] + 1 ELSE deletes[n]
    BY <2>2, DeletedNodes
  <2>. QED  BY <1>2, <2>3
<1>4. HeapOK'
  BY <1>1, <1>3, SameHeap DEF IncInv
<1>5. \A i : (FrameOK(i) => FrameOK(i)') /\ Owned(i)' = Owned(i)
  BY <1>1, SameFrames
<1>6. StackOK'
  BY <1>1, <1>5 DEF IncInv, StackOK, Running
<1>7. Disjoint'
  BY <1>1, <1>5 DEF IncInv, Disjoint
<1>8. Accounted'
  <2>1. outcome'.status = "running" /\ Running'
    BY <1>1 DEF Running
  <2>. QED  BY <1>1, <1>3, <1>5, <2>1 DEF IncInv, Accounted
<1>. QED  BY <1>4, <1>6, <1>7, <1>8 DEF IncInv

\* The inner run() returns: the expressions of the AST are replaced.  The AST is in
\* normal form, so that it is not folded.
LEMMA SubstituteIncInv ==
    ASSUME IncInv, Substitute
    PROVE  IncInv'
<1>0. PICK d, p, prs : d = Len(stack) /\ p = Top.ptr /\ prs = Prints(p)
  OBVIOUS
<1>1. Running /\ UNCHANGED <<files, thrown, outcome>> /\ Top.stage = "resolved"
      /\ Top.inc # None
  BY DEF Substitute, Substituting
<1>2. /\ d \in Nat /\ d \in 1 .. d /\ Top = stack[d] /\ IsSeq(stack)
      /\ FrameOK(d) /\ Len(heap) \in Nat /\ HeapOK
  BY <1>0, <1>1, TopFrame DEF IncInv
<1>3. /\ p \in 1 .. Len(heap) /\ ~ FoldsToChild(p)
      /\ \A k \in 1 .. Len(Nodes(p)) : heap[Nodes(p)[k]].kind \in {"raw", "print"}
  BY <1>0, <1>1, <1>2 DEF FrameOK, Settled
<1>. DEFINE f == [Top EXCEPT !.stage = "done"]
            subd == [n \in DOMAIN heap |->
                        IF n \in prs THEN [heap[n] EXCEPT !.expr = Subst(Top.inc, @)]
                                     ELSE heap[n]]
<1>4. heap' = subd /\ stack' = SetTop(f) /\ UNCHANGED deletes
  BY <1>0, <1>3 DEF Substitute
<1>5. /\ IsSeq(heap') /\ Len(heap') = Len(heap)
      /\ \A n \in 1 .. Len(heap) :
            heap'[n] = IF n \in prs THEN [heap[n] EXCEPT !.expr = Subst(Top.inc, @)]
                                    ELSE heap[n]
  <2>1. DOMAIN heap = 1 .. Len(heap)
    BY <1>2, SeqElements DEF HeapOK
  <2>2. heap' = [n \in 1 .. Len(heap) |-> heap'[n]]
    BY <1>4, <2>1
  <2>. QED  BY <1>2, <1>4, <2>1, <2>2, SeqOfFunction
<1>6. ASSUME NEW n \in 1 .. Len(heap)
      PROVE  /\ DOMAIN heap'[n] = DOMAIN heap[n] /\ heap'[n].kind = heap[n].kind
             /\ heap'[n].inc = heap[n].inc /\ heap'[n].kids = heap[n].kids
  <2>1. DOMAIN heap[n] = {"kind", "expr", "inc", "kids"}
    BY <1>2 DEF HeapOK, NodeOK
  <2>2. PICK e : heap'[n] = heap[n] \/ heap'[n] = [heap[n] EXCEPT !.expr = e]
    BY <1>5
  <2>. QED  BY <2>1, <2>2
<1>7. DOMAIN Top = {"inc", "ptr", "at", "stage"} /\ (Top.inc = None <=> d = 1)
      /\ Top.inc.file \in File
  BY <1>1, <1>2 DEF FrameOK
<1>8. /\ DOMAIN f = {"inc", "ptr", "at", "stage"} /\ f.ptr = p /\ f.inc = Top.inc
      /\ f.stage = "done"
  BY <1>0, <1>7
<1>. HIDE DEF f, subd
<1>9. /\ IsSeq(stack') /\ Len(stack') = d /\ stack'[d] = f /\ stack' # <<>>
      /\ \A i \in 1 .. d - 1 : stack'[i] = stack[i]
  BY <1>0, <1>1, <1>4, TopSet
<1>10. HeapOK'
  <2>1. IsSeq(deletes') /\ Len(deletes') = Len(heap)
        /\ \A n \in 1 .. Len(heap) : deletes'[n] \in Nat
    BY <1>2, <1>4 DEF HeapOK
  <2>. QED  BY <1>2, <1>5, <1>6, <2>1, HeapChanged
<1>11. ASSUME NEW i \in 1 .. d - 1
       PROVE  FrameOK(i)' /\ Owned(i)' = Owned(i)
  <2>1. i \in 1 .. Len(stack) /\ FrameOK(i)
    BY <1>0, <1>2 DEF IncInv, StackOK
  <2>2. stack[i].ptr # NULL => heap'[stack[i].ptr].kids = heap[stack[i].ptr].kids
    BY <1>2, <1>6, <2>1, OwnedNodes
  <2>. QED  BY <1>0, <1>2, <1>5, <1>6, <1>9, <2>1, <2>2, FrameKept
<1>12. FrameOK(d)' /\ Owned(d)' = Owned(d)
  <2>1. Nodes(p)' = Nodes(p) /\ Tree(p)' = Tree(p) /\ ~ FoldsToChild(p)'
    BY <1>3, <1>6 DEF Nodes, Tree, FoldsToChild
  <2>2. \A k \in 1 .. Len(Nodes(p)) : heap'[Nodes(p)[k]].kind \in {"raw", "print"}
    BY <1>2, <1>3, <1>6, NodesOfTree
  <2>3. FrameOK(d)'
    BY <1>1, <1>3, <1>5, <1>7, <1>8, <1>9, <2>1, <2>2 DEF FrameOK, Settled, Stages
  <2>4. Owned(d)' = Owned(d)
    BY <1>0, <1>2, <1>8, <1>9, <2>1 DEF Owned
  <2>. QED  BY <2>3, <2>4
<1>13. \A i \in 1 .. d : FrameOK(i)' /\ Owned(i)' = Owned(i)
  BY <1>2, <1>11, <1>12
<1>14. StackOK'
  BY <1>1, <1>9, <1>13 DEF IncInv, StackOK, Running
<1>15. Disjoint'
  BY <1>0, <1>9, <1>13, OwnersKept DEF IncInv
<1>16. Accounted'
  <2>1. outcome'.status = "running" /\ outcome.status = "running" /\ Missing' = Missing
    BY <1>1 DEF Running, Missing
  <2>. QED  BY <1>0, <1>1, <1>4, <1>5, <1>9, <1>13, <2>1 DEF IncInv, Accounted
<1>. QED  BY <1>10, <1>14, <1>15, <1>16 DEF IncInv

\* An exception leaves an activation, which deletes what it owns.
LEMMA UnwindIncInv ==
    ASSUME IncInv, Unwind
    PROVE  IncInv'
<1>0. PICK d, gone : d = Len(stack) /\ gone = Owned(d)
  OBVIOUS
<1>1. /\ Running /\ UNCHANGED <<files, heap, thrown>> /\ stack' = Pop(stack)
      /\ deletes' = IF Top.ptr = NULL THEN deletes ELSE Delete(Tree(Top.ptr))
      /\ IF d = 1 THEN outcome' = [status |-> "failed", result |-> NULL, error |-> thrown]
                  ELSE UNCHANGED outcome
  BY <1>0 DEF Unwind
<1>2. /\ d \in Nat /\ d > 0 /\ d \in 1 .. d /\ Top = stack[d] /\ IsSeq(stack)
      /\ FrameOK(d) /\ Len(heap) \in Nat /\ HeapOK /\ stack # <<>>
  BY <1>0, <1>1, TopFrame DEF IncInv, StackOK
<1>3. \A n \in 1 .. Len(heap) : deletes[n] \in Nat
  BY <1>2 DEF HeapOK
<1>4. /\ IsSeq(deletes') /\ Len(deletes') = Len(heap)
      /\ \A n \in 1 .. Len(heap) :
            deletes'[n] = IF n \in gone THEN deletes[n] + 1 ELSE deletes[n]
      /\ \A n \in 1 .. Len(heap) : deletes'[n] \in Nat
  <2>1. CASE Top.ptr = NULL
    <3>1. gone = {}
      BY <1>0, <1>2, <2>1 DEF Owned
    <3>. QED  BY <1>1, <1>2, <1>3, <2>1, <3>1 DEF HeapOK
  <2>2. CASE Top.ptr # NULL
    <3>1. gone = Tree(Top.ptr)
      BY <1>0, <1>2, <2>2 DEF Owned
    <3>. QED  BY <1>1, <1>2, <1>3, <2>2, <3>1, DeletedNodes
  <2>. QED  BY <2>1, <2>2
<1>5. /\ IsSeq(stack') /\ Len(stack') = d - 1
      /\ \A i \in 1 .. d - 1 : stack'[i] = stack[i]
  BY <1>0, <1>1, <1>2, Popped
<1>6. HeapOK'
  BY <1>1, <1>2, <1>4, SameHeap
<1>7. ASSUME NEW i \in 1 .. d - 1
      PROVE  FrameOK(i)' /\ Owned(i)' = Owned(i)
  <2>1. i \in 1 .. Len(stack) /\ FrameOK(i)
    BY <1>0, <1>2 DEF IncInv, StackOK
  <2>. QED  BY <1>0, <1>1, <1>2, <1>5, <2>1, FrameKept
<1>8. StackOK'
  <2>1. CASE d = 1
    <3>1. stack' = <<>> /\ ~ Running' /\ outcome'.status = "failed"
      BY <1>1, <1>5, <2>1 DEF Running, IsSeq
    <3>. QED  BY <1>1, <1>5, <2>1, <3>1 DEF IncInv, StackOK
  <2>2. CASE d # 1
    <3>1. stack' # <<>> /\ Running' /\ outcome' = outcome
      BY <1>1, <1>2, <1>5, <2>2 DEF Running
    <3>. QED  BY <1>1, <1>5, <1>7, <3>1 DEF IncInv, StackOK
  <2>. QED  BY <2>1, <2>2
<1>9. Disjoint'
  BY <1>0, <1>2, <1>5, <1>7, OwnersKept DEF IncInv
<1>10. \A i \in 1 .. d - 1 : Owned(i) \cap gone = {}
  BY <1>0, <1>2 DEF IncInv, Disjoint
<1>11. Missing' = Missing
  BY <1>1 DEF Missing
<1>12. Accounted'
  <2>1. CASE d = 1
    <3>1. outcome'.status = "failed" /\ ~ Running' /\ Len(stack') = 0
      BY <1>1, <1>5, <2>1 DEF Running
    <3>2. ASSUME NEW n \in 1 .. Len(heap)
          PROVE  deletes'[n] > 0 /\ (~ Missing => deletes'[n] <= 1)
      <4>1. deletes[n] = 0 => n \in gone
        BY <1>0, <1>1, <1>2, <2>1 DEF IncInv, Accounted
      <4>2. ~ Missing => /\ deletes[n] <= 1
                         /\ n \in gone => deletes[n] = 0
        BY <1>0, <1>2 DEF IncInv, Accounted
      <4>. QED  BY <1>3, <1>4, <4>1, <4>2
    <3>. QED  BY <1>1, <1>11, <3>1, <3>2 DEF Accounted
  <2>2. CASE d # 1
    <3>1. Running'
      BY <1>1, <2>2 DEF Running
    <3>2. \A n \in gone : \E i \in 1 .. d : n \in Owned(i)
      BY <1>0, <1>2
    <3>3. \A i \in 1 .. d : \A n \in Owned(i) :
             n \in gone \/ \E j \in 1 .. d - 1 : n \in Owned(j)'
      BY <1>0, <1>2, <1>7
    <3>4. \A j \in 1 .. d - 1 : \A n \in Owned(j)' :
             n \notin gone /\ \E i \in 1 .. d : n \in Owned(i)
      BY <1>2, <1>7, <1>10
    <3>. QED  BY <1>0, <1>1, <1>4, <1>5, <1>11, <3>1, <3>2, <3>3, <3>4, StillAccounted
  <2>. QED  BY <2>1, <2>2
<1>. QED  BY <1>6, <1>8, <1>9, <1>12 DEF IncInv

\* run() returns the template: only what it owns is left.
LEMMA ReturnTemplateIncInv ==
    ASSUME IncludeAssumption, IncInv, ReturnTemplate
    PROVE  IncInv'
<1>0. PICK p : p = Top.ptr
  OBVIOUS
<1>1. /\ Running /\ UNCHANGED <<files, heap, deletes, thrown>> /\ stack' = <<>>
      /\ outcome' = [status |-> "done", result |-> p, error |-> None]
      /\ Top.inc = None /\ Top.stage = "resolved" /\ ~ Missing /\ ~ Missing'
  BY <1>0 DEF ReturnTemplate, Missing, IncludeAssumption
<1>2. /\ Len(stack) = 1 /\ Top = stack[1] /\ FrameOK(1) /\ HeapOK
      /\ p \in 1 .. Len(heap)
  BY <1>0, <1>1, TopFrame DEF FrameOK, IncInv
<1>3. Owned(1) = Tree(p)
  BY <1>0, <1>1, <1>2, OwnedNodes
<1>4. Tree(p)' = Tree(p)
  BY <1>1 DEF Tree
<1>5. HeapOK'
  BY <1>1, <1>2, SameHeap DEF HeapOK
<1>6. /\ Len(stack') = 0 /\ IsSeq(stack') /\ ~ Running'
      /\ outcome'.status = "done" /\ outcome'.result = p
  BY <1>1 DEF Running, IsSeq
<1>7. StackOK' /\ Disjoint'
  BY <1>1, <1>6 DEF IncInv, StackOK, Disjoint
<1>8. \A n \in 1 .. Len(heap) : deletes[n] = 0 <=> n \in Tree(p)
  BY <1>1, <1>2, <1>3 DEF IncInv, Accounted
<1>9. \A n \in 1 .. Len(heap) : deletes[n] <= 1
  BY <1>1 DEF IncInv, Accounted
<1>10. Accounted'
  BY <1>1, <1>2, <1>4, <1>6, <1>8, <1>9 DEF Accounted
<1>. QED  BY <1>5, <1>7, <1>10 DEF IncInv

\* What Parser::parse() adds to a heap of N nodes: b statements, and the StatementsAST
\* around them unless there is one statement only, together len nodes.
Parsed(N, b, len) ==
    /\ len = IF b = 1 THEN 1 ELSE b + 1
    /\ IsSeq(heap') /\ Len(heap') = N + len
    /\ \A n \in 1 .. N : heap'[n] = heap[n]
    /\ \A i \in 1 .. b : LET leaf == heap'[N + i] IN
          /\ DOMAIN leaf = {"kind", "expr", "inc", "kids"}
          /\ leaf.kind \in {"raw", "print", "include"} /\ leaf.kids = <<>>
          /\ leaf.kind = "include" => leaf.inc # None /\ leaf.inc.file \in File
    /\ b # 1 => LET root == heap'[N + len] IN
          /\ DOMAIN root = {"kind", "expr", "inc", "kids"}
          /\ root.kind = "stmts"
          /\ root.kids = [i \in 1 .. b |-> N + i]
    /\ IsSeq(deletes') /\ Len(deletes') = N + len
    /\ \A n \in 1 .. N : deletes'[n] = deletes[n]
    /\ \A i \in 1 .. len : deletes'[N + i] = 0
    /\ stack' = SetTop([Top EXCEPT !.ptr = N + len, !.stage = "walk"])

LEMMA ParsedNodes ==
    ASSUME IncludeAssumption, IncInv, ParseSucceeds
    PROVE  \E b \in Nat, len \in Nat :
              /\ Parsed(Len(heap), b, len) /\ b = Len(files[FileOf(Top)])
              /\ \A i \in 1 .. b :
                    Verbatim(heap'[Len(heap) + i], files[FileOf(Top)][i])
<1>0. PICK body, N, b : body = files[FileOf(Top)] /\ N = Len(heap) /\ b = Len(body)
  BY Zenon
<1>1. Running /\ FrameOK(Len(stack)) /\ Top = stack[Len(stack)] /\ N \in Nat
  BY <1>0, TopFrame, ZenonT(60) DEF ParseSucceeds
<1>2. FileOf(Top) \in File
  BY <1>1 DEF FileOf, FrameOK, IncludeAssumption
<1>3. /\ IsSeq(body) /\ b \in Nat /\ DOMAIN body = 1 .. b
      /\ \A i \in 1 .. b : /\ body[i].kind \in {"raw", "print", "include"}
                           /\ body[i].kind = "include" => /\ body[i].inc # None
                                                          /\ body[i].inc.file \in File
  <2>1. files \in Programs
    BY DEF IncInv, StackOK
  <2>2. body \in Seq(ToSet(body))
    BY <1>0, <1>2, <2>1 DEF IncludeAssumption
  <2>3. IsSeq(body)
    BY <2>2 DEF IsSeq
  <2>4. b \in Nat /\ DOMAIN body = 1 .. b
    BY <1>0, <2>3, SeqElements
  <2>. QED  BY <1>0, <1>2, <2>1, <2>3, <2>4 DEF IncludeAssumption
<1>4. PICK leafs : leafs = [i \in 1 .. b |->
            [kind |-> body[i].kind, expr |-> body[i].expr, inc |-> body[i].inc,
             kids |-> <<>>]]
  OBVIOUS
<1>5. PICK root : root = [kind |-> "stmts", expr |-> <<>>, inc |-> None,
                          kids |-> [i \in 1 .. b |-> N + i]]
  OBVIOUS
<1>6. PICK new : new = IF b = 1 THEN leafs ELSE Append(leafs, root)
  OBVIOUS
<1>7. PICK zeros : zeros = [i \in DOMAIN new |-> 0]
  OBVIOUS
<1>8. PICK len : len = IF b = 1 THEN 1 ELSE b + 1
  BY SMTT(60)
<1>9. /\ heap' = heap \o new /\ deletes' = deletes \o zeros
      /\ stack' = SetTop([Top EXCEPT !.ptr = N + Len(new), !.stage = "walk"])
  BY <1>0, <1>3, <1>4, <1>5, <1>6, <1>7, ZenonT(60) DEF ParseSucceeds
<1>10. IsSeq(leafs) /\ Len(leafs) = b
  <2>1. leafs = [i \in 1 .. b |-> leafs[i]]
    BY <1>4
  <2>. QED  BY <1>3, <2>1, SeqOfFunction
<1>11. /\ IsSeq(new) /\ Len(new) = len /\ len \in Nat
       /\ \A i \in 1 .. b : new[i] = leafs[i]
       /\ b # 1 => new[len] = root
  BY <1>3, <1>6, <1>8, <1>10, Appended
<1>12. IsSeq(zeros) /\ Len(zeros) = len /\ \A i \in 1 .. len : zeros[i] = 0
  <2>1. DOMAIN new = 1 .. len
    BY <1>11, SeqElements
  <2>2. zeros = [i \in 1 .. len |-> zeros[i]]
    BY <1>7, <2>1
  <2>. QED  BY <1>7, <1>11, <2>1, <2>2, SeqOfFunction
<1>13. /\ IsSeq(heap') /\ Len(heap') = N + len
       /\ \A n \in 1 .. N : heap'[n] = heap[n]
       /\ \A i \in 1 .. len : heap'[N + i] = new[i]
  <2>1. IsSeq(heap)
    BY DEF IncInv, HeapOK
  <2>2. /\ IsSeq(heap \o new) /\ Len(heap \o new) = Len(heap) + Len(new)
        /\ \A i \in 1 .. Len(heap) : (heap \o new)[i] = heap[i]
        /\ \A i \in 1 .. Len(new) : (heap \o new)[Len(heap) + i] = new[i]
    BY <1>11, <2>1, Concatenated
  <2>. QED  BY <1>0, <1>9, <1>11, <2>2
<1>14. /\ IsSeq(deletes') /\ Len(deletes') = N + len
       /\ \A n \in 1 .. N : deletes'[n] = deletes[n]
       /\ \A i \in 1 .. len : deletes'[N + i] = 0
  <2>1. IsSeq(deletes) /\ Len(deletes) = N
    BY <1>0 DEF IncInv, HeapOK
  <2>2. /\ IsSeq(deletes \o zeros) /\ Len(deletes \o zeros) = Len(deletes) + Len(zeros)
        /\ \A i \in 1 .. Len(deletes) : (deletes \o zeros)[i] = deletes[i]
        /\ \A i \in 1 .. Len(zeros) : (deletes \o zeros)[Len(deletes) + i] = zeros[i]
    BY <1>12, <2>1, Concatenated, SMTT(60)
  <2>. QED  BY <1>9, <1>12, <2>1, <2>2
<1>15. ASSUME NEW i \in 1 .. b
       PROVE  LET leaf == heap'[N + i] IN
                 /\ DOMAIN leaf = {"kind", "expr", "inc", "kids"}
                 /\ leaf.kind \in {"raw", "print", "include"} /\ leaf.kids = <<>>
                 /\ leaf.kind = "include" => leaf.inc # None /\ leaf.inc.file \in File
  <2>0. i \in 1 .. len
    BY <1>3, <1>8
  <2>1. heap'[N + i] = leafs[i]
    BY <1>11, <1>13, <2>0
  <2>2. leafs[i] = [kind |-> body[i].kind, expr |-> body[i].expr, inc |-> body[i].inc,
                    kids |-> <<>>]
    BY <1>4
  <2>. QED  BY <1>3, <2>1, <2>2
<1>16. b # 1 => LET r == heap'[N + len] IN
                    /\ DOMAIN r = {"kind", "expr", "inc", "kids"}
                    /\ r.kind = "stmts"
                    /\ r.kids = [i \in 1 .. b |-> N + i]
  <2>1. b # 1 => heap'[N + len] = root
    BY <1>3, <1>8, <1>11, <1>13
  <2>2. /\ DOMAIN root = {"kind", "expr", "inc", "kids"} /\ root.kind = "stmts"
        /\ root.kids = [i \in 1 .. b |-> N + i]
    BY <1>5
  <2>. HIDE <1>5
  <2>. QED  BY <2>1, <2>2
<1>17. stack' = SetTop([Top EXCEPT !.ptr = N + len, !.stage = "walk"])
  BY <1>9, <1>11
<1>18. Parsed(N, b, len)
  BY <1>8, <1>13, <1>14, <1>15, <1>16, <1>17 DEF Parsed
<1>19. ASSUME NEW i \in 1 .. b PROVE Verbatim(heap'[N + i], body[i])
  <2>0. i \in 1 .. len
    BY <1>3, <1>8
  <2>1. heap'[N + i] = leafs[i]
    BY <1>11, <1>13, <2>0
  <2>2. leafs[i] = [kind |-> body[i].kind, expr |-> body[i].expr, inc |-> body[i].inc,
                    kids |-> <<>>]
    BY <1>4
  <2>. QED  BY <2>1, <2>2 DEF Verbatim
<1>. QED  BY <1>0, <1>3, <1>11, <1>18, <1>19

LEMMA ParseSucceedsIncInv ==
    ASSUME IncludeAssumption, IncInv, ParseSucceeds
    PROVE  IncInv'
<1>0. PICK d, N : d = Len(stack) /\ N = Len(heap)
  BY Zenon
<1>1. /\ Running /\ UNCHANGED <<files, thrown, outcome>> /\ ~ Missing
      /\ Top.stage = "parse"
  BY Zenon DEF ParseSucceeds, Missing, IncludeAssumption
<1>2. /\ d \in Nat /\ d > 0 /\ d \in 1 .. d /\ Top = stack[d] /\ IsSeq(stack)
      /\ FrameOK(d) /\ N \in Nat /\ HeapOK
  BY <1>0, <1>1, TopFrame DEF IncInv
<1>3. PICK b \in Nat, len \in Nat : Parsed(N, b, len)
  <2>1. \E b \in Nat, len \in Nat : Parsed(N, b, len)
    BY <1>0, ParsedNodes
  <2>. QED  BY <2>1
<1>4. PICK p : p = N + len
  OBVIOUS
<1>. DEFINE f == [Top EXCEPT !.ptr = p, !.stage = "walk"]
<1>5. /\ DOMAIN Top = {"inc", "ptr", "at", "stage"} /\ (Top.inc = None <=> d = 1)
      /\ (Top.inc # None => Top.inc.file \in File) /\ Top.at = 1
      /\ Owned(d) = {}
  BY <1>0, <1>1, <1>2 DEF FrameOK, Owned
<1>6. /\ DOMAIN f = {"inc", "ptr", "at", "stage"} /\ f.ptr = p /\ f.inc = Top.inc
      /\ f.stage = "walk" /\ f.at = 1
  BY <1>5
<1>7. stack' = SetTop(f)
  BY <1>3, <1>4 DEF Parsed
<1>. HIDE DEF f
<1>8. /\ IsSeq(stack') /\ Len(stack') = d /\ stack'[d] = f /\ stack' # <<>>
      /\ \A i \in 1 .. d - 1 : stack'[i] = stack[i]
  BY <1>0, <1>1, <1>7, TopSet
<1>9. /\ \A i \in 1 .. b : heap'[N + i].kind # "stmts" /\ heap'[N + i].kids = <<>>
      /\ p \in 1 .. N + len /\ Len(heap') = p /\ p \in Nat /\ p > N
  <2>1. len = (IF b = 1 THEN 1 ELSE b + 1) /\ Len(heap') = N + len
    BY <1>3 DEF Parsed
  <2>2. \A i \in 1 .. b : /\ heap'[N + i].kind \in {"raw", "print", "include"}
                           /\ heap'[N + i].kids = <<>>
    BY <1>3, Zenon DEF Parsed
  <2>3. p \in 1 .. N + len /\ Len(heap') = p /\ p \in Nat /\ p > N
    BY <1>2, <1>4, <2>1
  <2>. QED  BY <2>2, <2>3
<1>10. ASSUME NEW n \in 1 .. N + len, n > N
       PROVE  n = p \/ \E i \in 1 .. b : n = N + i
  <2>1. n - N \in 1 .. len /\ n = N + (n - N)
    BY <1>2, <1>10
  <2>2. n - N = len \/ n - N \in 1 .. b
    BY <1>3, <2>1 DEF Parsed
  <2>. QED  BY <1>4, <2>1, <2>2
<1>11. NodeOK(p)'
  <2>1. CASE b = 1
    <3>1. p = N + 1 /\ 1 \in 1 .. b
      BY <1>3, <1>4, <2>1 DEF Parsed
    <3>2. /\ DOMAIN heap'[p] = {"kind", "expr", "inc", "kids"}
          /\ heap'[p].kind \in {"raw", "print", "include"} /\ heap'[p].kids = <<>>
          /\ heap'[p].kind = "include" => heap'[p].inc # None /\ heap'[p].inc.file \in File
      BY <1>3, <3>1 DEF Parsed
    <3>. QED  BY <3>2 DEF NodeOK, Kinds
  <2>2. CASE b # 1
    <3>1. PICK kids : kids = [i \in 1 .. b |-> N + i]
      OBVIOUS
    <3>2. kids \in Seq(Nat) /\ Len(kids) = b /\ \A i \in 1 .. b : kids[i] = N + i
      BY <1>2, <3>1
    <3>3. /\ DOMAIN heap'[p] = {"kind", "expr", "inc", "kids"}
          /\ heap'[p].kind = "stmts" /\ heap'[p].kids = kids
      BY <1>3, <1>4, <2>2, <3>1 DEF Parsed
    <3>4. /\ \A k \in 1 .. b : kids[k] \in 1 .. N + len /\ heap'[kids[k]].kind # "stmts"
          /\ \A k, l \in 1 .. b : kids[k] = kids[l] => k = l
      <4>1. ASSUME NEW k \in 1 .. b
            PROVE  kids[k] \in 1 .. N + len /\ heap'[kids[k]].kind # "stmts"
        <5>1. kids[k] = N + k /\ heap'[N + k].kind # "stmts"
          BY <1>9, <3>2
        <5>2. b \in Nat /\ N \in Nat /\ len = b + 1
          BY <1>2, <1>3, <2>2 DEF Parsed
        <5>. QED  BY <5>1, <5>2
      <4>2. ASSUME NEW k \in 1 .. b, NEW l \in 1 .. b, kids[k] = kids[l] PROVE k = l
        <5>1. N + k = N + l
          BY <3>2, <4>2
        <5>. QED  BY <1>2, <5>1
      <4>. QED  BY <4>1, <4>2
    <3>. QED  BY <1>3, <3>2, <3>3, <3>4, SMTT(60) DEF NodeOK, Kinds, Parsed
  <2>. QED  BY <2>1, <2>2
<1>12. HeapOK'
  <2>1. ASSUME NEW n \in 1 .. N
        PROVE  NodeOK(n)'
    <3>1. NodeOK(n) /\ heap'[n] = heap[n]
      BY <1>0, <1>2, <1>3 DEF HeapOK, Parsed
    <3>2. \A k \in 1 .. Len(heap[n].kids) :
             /\ heap[n].kids[k] \in 1 .. Len(heap')
             /\ heap'[heap[n].kids[k]].kind # "stmts"
      <4>1. \A k \in 1 .. Len(heap[n].kids) : /\ heap[n].kids[k] \in 1 .. Len(heap)
                                               /\ heap[heap[n].kids[k]].kind # "stmts"
        BY <3>1 DEF NodeOK
      <4>2. \A m \in 1 .. N : heap'[m] = heap[m]
        BY <1>3, Zenon DEF Parsed
      <4>3. \A m \in 1 .. N : m \in 1 .. Len(heap')
        BY <1>0, <1>2, <1>9
      <4>. QED  BY <1>0, <4>1, <4>2, <4>3
    <3>. QED  BY <3>1, <3>2 DEF NodeOK
  <2>2. ASSUME NEW i \in 1 .. b
        PROVE  NodeOK(N + i)'
    <3>1. PICK n : n = N + i
      OBVIOUS
    <3>2. /\ DOMAIN heap'[n] = {"kind", "expr", "inc", "kids"}
          /\ heap'[n].kind \in {"raw", "print", "include"} /\ heap'[n].kids = <<>>
          /\ heap'[n].kind = "include" => heap'[n].inc # None /\ heap'[n].inc.file \in File
      BY <1>3, <3>1 DEF Parsed
    <3>3. NodeOK(n)'
      BY <3>2 DEF NodeOK, Kinds
    <3>. QED  BY <3>1, <3>3
  <2>3. ASSUME NEW n \in 1 .. Len(heap')
        PROVE  NodeOK(n)'
    <3>1. n \in 1 .. N \/ (n \in 1 .. N + len /\ n > N)
      BY <1>2, <1>3 DEF Parsed
    <3>2. n \in 1 .. N \/ n = p \/ \E i \in 1 .. b : n = N + i
      BY <1>10, <3>1
    <3>. QED  BY <1>11, <2>1, <2>2, <3>2
  <2>4. ASSUME NEW m \in 1 .. Len(heap')
        PROVE  deletes'[m] \in Nat
    <3>1. \A n \in 1 .. N : deletes[n] \in Nat
      BY <1>0, <1>2 DEF HeapOK
    <3>2. ASSUME NEW n \in 1 .. N + len, n > N
          PROVE  deletes'[n] = 0
      <4>1. n - N \in 1 .. len /\ n = N + (n - N)
        BY <1>2, <3>2
      <4>. QED  BY <1>3, <4>1 DEF Parsed
    <3>3. m \in 1 .. N \/ (m \in 1 .. N + len /\ m > N)
      BY <1>2, <1>3 DEF Parsed
    <3>. QED  BY <1>3, <3>1, <3>2, <3>3 DEF Parsed
  <2>. QED  BY <1>3, <2>3, <2>4 DEF HeapOK, Parsed
<1>13. ASSUME NEW i \in 1 .. d - 1
       PROVE  FrameOK(i)' /\ Owned(i)' = Owned(i) /\ Owned(i) \subseteq 1 .. N
  <2>1. i \in 1 .. Len(stack) /\ FrameOK(i)
    BY <1>0, <1>2 DEF IncInv, StackOK
  <2>2. Owned(i) \subseteq 1 .. N /\ (stack[i].ptr # NULL => stack[i].ptr \in 1 .. N)
    BY <1>0, <1>2, <2>1, OwnedNodes
  <2>3. stack[i].ptr # NULL => heap'[stack[i].ptr].kids = heap[stack[i].ptr].kids
    BY <1>3, <2>2 DEF Parsed
  <2>4. /\ Len(heap') \in Nat /\ Len(heap) <= Len(heap')
        /\ \A n \in 1 .. Len(heap) : heap'[n].kind = heap[n].kind
    BY <1>0, <1>2, <1>3, SMTT(60) DEF Parsed
  <2>5. i \in 1 .. Len(stack') /\ stack'[i] = stack[i] /\ (i < Len(stack') => i < Len(stack))
    BY <1>0, <1>2, <1>8
  <2>6. FrameOK(i)' /\ Owned(i)' = Owned(i)
    BY <1>2, <2>1, <2>3, <2>4, <2>5, FrameKept
  <2>. QED  BY <2>2, <2>6
<1>14. Owned(d)' = N + 1 .. N + len
  <2>1. Owned(d)' = Tree(p)'
    BY <1>2, <1>6, <1>8, <1>9 DEF Owned, NULL
  <2>2. CASE b = 1
    <3>1. heap'[p].kids = <<>> /\ p = N + 1 /\ len = 1
      BY <1>3, <1>4, <1>9, <2>2 DEF Parsed
    <3>. QED  BY <1>2, <2>1, <3>1 DEF Tree, ToSet
  <2>3. CASE b # 1
    <3>1. heap'[p].kids = [i \in 1 .. b |-> N + i] /\ len = b + 1
      BY <1>3, <1>4, <2>3 DEF Parsed
    <3>2. Tree(p)' = {p} \cup {N + i : i \in 1 .. b}
      BY <3>1 DEF Tree, ToSet
    <3>3. \A n \in N + 1 .. N + len : n = p \/ \E i \in 1 .. b : n = N + i
      BY <1>2, <1>10
    <3>4. \A i \in 1 .. b : N + i \in N + 1 .. N + len
      BY <1>2, <3>1
    <3>5. p \in N + 1 .. N + len
      BY <1>2, <1>4, <1>9, SMTT(60)
    <3>. QED  BY <2>1, <3>2, <3>3, <3>4, <3>5
  <2>. QED  BY <2>2, <2>3
<1>15. FrameOK(d)'
  <2>1. Nodes(p)' \in Seq(Nat)
    BY <1>2, <1>9, <1>11 DEF Nodes, NodeOK
  <2>2. Len(Nodes(p)') \in Nat
    BY <2>1
  <2>3. PICK g, nodes : g = stack'[d] /\ nodes = Nodes(p)'
    OBVIOUS
  <2>4. /\ DOMAIN g = {"inc", "ptr", "at", "stage"} /\ g.stage = "walk" /\ g.ptr = p
        /\ g.at = 1 /\ (g.inc = None <=> d = 1) /\ (g.inc # None => g.inc.file \in File)
    BY <1>5, <1>6, <1>8, <2>3
  <2>5. p \in 1 .. Len(heap') /\ ~ (d < Len(stack'))
    BY <1>2, <1>3, <1>4, <1>8, <1>9 DEF Parsed
  <2>6. /\ g.at \in 1 .. Len(nodes) + 1
        /\ \A k \in 1 .. g.at - 1 : heap'[nodes[k]].kind \in {"raw", "print"}
    BY <2>2, <2>3, <2>4
  <2>7. Walks(g, d, heap', nodes) /\ nodes = Nodes(g.ptr)'
    BY <2>3, <2>4, <2>5, <2>6 DEF Walks
  <2>. QED  BY <2>3, <2>5, <2>7, WalkingFrame, Zenon
<1>16. StackOK'
  <2>1. \A i \in 1 .. d : FrameOK(i)'
    BY <1>2, <1>13, <1>15
  <2>. QED  BY <1>1, <1>8, <2>1 DEF IncInv, StackOK, Running
<1>17. Disjoint'
  <2>1. ASSUME NEW i \in 1 .. d - 1
        PROVE  Owned(i)' \cap Owned(d)' = {}
    BY <1>2, <1>13, <1>14
  <2>2. ASSUME NEW i \in 1 .. d - 1, NEW j \in 1 .. d - 1, i # j
        PROVE  Owned(i)' \cap Owned(j)' = {}
    BY <1>0, <1>2, <1>13, <2>2 DEF IncInv, Disjoint
  <2>3. ASSUME NEW i \in 1 .. d, NEW j \in 1 .. d, i # j
        PROVE  Owned(i)' \cap Owned(j)' = {}
    <3>1. i = d \/ i \in 1 .. d - 1
      BY <1>2
    <3>2. j = d \/ j \in 1 .. d - 1
      BY <1>2
    <3>. QED  BY <2>1, <2>2, <2>3, <3>1, <3>2
  <2>. QED  BY <1>8, <2>3 DEF Disjoint
<1>18. Accounted'
  <2>1. outcome'.status = "running" /\ outcome.status = "running" /\ ~ Missing'
    BY <1>1 DEF Running, Missing
  <2>2. ASSUME NEW n \in 1 .. Len(heap')
        PROVE  /\ deletes'[n] = 0 => \E i \in 1 .. d : n \in Owned(i)'
               /\ deletes'[n] <= 1
    <3>1. CASE n \in 1 .. N
      <4>1. deletes'[n] = deletes[n] /\ deletes[n] <= 1
        BY <1>0, <1>1, <1>3, <3>1 DEF IncInv, Accounted, Parsed
      <4>2. deletes[n] = 0 => \E i \in 1 .. d : n \in Owned(i)
        BY <1>0, <1>1, <3>1 DEF IncInv, Accounted
      <4>3. \A i \in 1 .. d : n \in Owned(i) => n \in Owned(i)'
        BY <1>2, <1>5, <1>13
      <4>. QED  BY <4>1, <4>2, <4>3
    <3>2. CASE n > N
      <4>1. n \in N + 1 .. N + len
        BY <1>2, <1>3, <3>2 DEF Parsed
      <4>2. n - N \in 1 .. len /\ n = N + (n - N)
        BY <1>2, <4>1
      <4>3. deletes'[n] = 0
        BY <1>3, <4>2 DEF Parsed
      <4>. QED  BY <1>2, <1>14, <4>1, <4>3
    <3>. QED  BY <1>2, <1>3, <3>1, <3>2 DEF Parsed
  <2>3. ASSUME NEW i \in 1 .. d, NEW n \in Owned(i)'
        PROVE  deletes'[n] = 0
    <3>1. CASE i = d
      <4>1. n \in N + 1 .. N + len
        BY <1>14, <2>3, <3>1
      <4>2. n - N \in 1 .. len /\ n = N + (n - N)
        BY <1>2, <4>1
      <4>. QED  BY <1>3, <4>2 DEF Parsed
    <3>2. CASE i \in 1 .. d - 1
      BY <1>0, <1>1, <1>3, <1>13, <3>2 DEF IncInv, Accounted, Parsed
    <3>. QED  BY <1>2, <3>1, <3>2
  <2>. QED  BY <1>8, <2>1, <2>2, <2>3 DEF Accounted
<1>. QED  BY <1>12, <1>16, <1>17, <1>18 DEF IncInv

LEMMA Joined ==
    ASSUME NEW u \in Seq(Nat), NEW v \in Seq(Nat)
    PROVE  /\ u \o v \in Seq(Nat) /\ Len(u \o v) = Len(u) + Len(v)
           /\ \A i \in 1 .. Len(u) : (u \o v)[i] = u[i]
           /\ \A i \in 1 .. Len(v) : (u \o v)[Len(u) + i] = v[i]
OBVIOUS

\* The three sequences, one after the other.
Joint(r, h, t, l) ==
    /\ r = h \o t \o l /\ Len(r) = Len(h) + Len(t) + Len(l)
    /\ \A i \in 1 .. Len(h) : r[i] = h[i]
    /\ \A i \in 1 .. Len(t) : r[Len(h) + i] = t[i]
    /\ \A i \in 1 .. Len(l) : r[Len(h) + Len(t) + i] = l[i]

LEMMA JoinedTwice ==
    ASSUME NEW h \in Seq(Nat), NEW t \in Seq(Nat), NEW l \in Seq(Nat)
    PROVE  \E r \in Seq(Nat) : Joint(r, h, t, l)
<1>1. /\ h \o t \in Seq(Nat) /\ Len(h \o t) = Len(h) + Len(t)
      /\ \A i \in 1 .. Len(h) : (h \o t)[i] = h[i]
      /\ \A i \in 1 .. Len(t) : (h \o t)[Len(h) + i] = t[i]
  BY Joined
<1>2. PICK ht : ht = h \o t
  OBVIOUS
<1>3. /\ ht \in Seq(Nat) /\ Len(ht) = Len(h) + Len(t)
      /\ \A i \in 1 .. Len(h) : ht[i] = h[i]
      /\ \A i \in 1 .. Len(t) : ht[Len(h) + i] = t[i]
  BY <1>1, <1>2
<1>4. /\ ht \o l \in Seq(Nat) /\ Len(ht \o l) = Len(ht) + Len(l)
      /\ \A i \in 1 .. Len(ht) : (ht \o l)[i] = ht[i]
      /\ \A i \in 1 .. Len(l) : (ht \o l)[Len(ht) + i] = l[i]
  BY <1>3, Joined
<1>5. PICK r : r = ht \o l
  OBVIOUS
<1>6. /\ r \in Seq(Nat) /\ Len(r) = Len(h) + Len(t) + Len(l)
      /\ \A i \in 1 .. Len(h) + Len(t) : r[i] = ht[i]
      /\ \A i \in 1 .. Len(l) : r[Len(h) + Len(t) + i] = l[i]
  BY <1>3, <1>4, <1>5
<1>7. /\ \A i \in 1 .. Len(h) : i \in 1 .. Len(h) + Len(t)
      /\ \A i \in 1 .. Len(t) : Len(h) + i \in 1 .. Len(h) + Len(t)
  OBVIOUS
<1>8. /\ \A i \in 1 .. Len(h) : r[i] = h[i]
      /\ \A i \in 1 .. Len(t) : r[Len(h) + i] = t[i]
  BY <1>3, <1>6, <1>7
<1>9. Joint(r, h, t, l)
  BY <1>2, <1>5, <1>6, <1>8 DEF Joint
<1>. QED  BY <1>6, <1>9

\* An element of a sequence is replaced by a sequence.
LEMMA Spliced ==
    ASSUME NEW s \in Seq(Nat), NEW t \in Seq(Nat), NEW a \in 1 .. Len(s)
    PROVE  \E r \in Seq(Nat) :
              /\ r = SubSeq(s, 1, a - 1) \o t \o SubSeq(s, a + 1, Len(s))
              /\ Len(r) = Len(s) - 1 + Len(t)
              /\ \A i \in 1 .. a - 1 : r[i] = s[i]
              /\ \A i \in 1 .. Len(t) : r[a - 1 + i] = t[i]
              /\ \A i \in a + 1 .. Len(s) : r[i - 1 + Len(t)] = s[i]
<1>0. PICK h, l : h = SubSeq(s, 1, a - 1) /\ l = SubSeq(s, a + 1, Len(s))
  OBVIOUS
<1>1. /\ h \in Seq(Nat) /\ Len(h) = a - 1
      /\ \A i \in 1 .. a - 1 : h[i] = s[i]
  <2>1. \A i \in 1 .. a - 1 : s[i] \in Nat
    OBVIOUS
  <2>2. /\ h \in Seq(Nat) /\ Len(h) = IF 1 <= a - 1 THEN a - 1 - 1 + 1 ELSE 0
        /\ \A i \in 1 .. a - 1 - 1 + 1 : h[i] = s[1 + i - 1]
    BY <1>0, <2>1, SubSeqProperties
  <2>. QED  BY <2>2
<1>2. /\ l \in Seq(Nat) /\ Len(l) = Len(s) - a
      /\ \A i \in 1 .. Len(s) - a : l[i] = s[a + i]
  <2>1. \A i \in a + 1 .. Len(s) : s[i] \in Nat
    OBVIOUS
  <2>2. /\ l \in Seq(Nat)
        /\ Len(l) = IF a + 1 <= Len(s) THEN Len(s) - (a + 1) + 1 ELSE 0
        /\ \A i \in 1 .. Len(s) - (a + 1) + 1 : l[i] = s[(a + 1) + i - 1]
    BY <1>0, <2>1, SubSeqProperties
  <2>. QED  BY <2>2
<1>3. PICK r \in Seq(Nat) :
         /\ r = h \o t \o l /\ Len(r) = Len(h) + Len(t) + Len(l)
         /\ \A i \in 1 .. Len(h) : r[i] = h[i]
         /\ \A i \in 1 .. Len(t) : r[Len(h) + i] = t[i]
         /\ \A i \in 1 .. Len(l) : r[Len(h) + Len(t) + i] = l[i]
  <2>1. h \in Seq(Nat) /\ l \in Seq(Nat)
    BY <1>1, <1>2
  <2>2. PICK r \in Seq(Nat) : Joint(r, h, t, l)
    BY <2>1, JoinedTwice, Zenon
  <2>. QED  BY <2>2 DEF Joint
<1>4. r = SubSeq(s, 1, a - 1) \o t \o SubSeq(s, a + 1, Len(s))
  BY <1>0, <1>3
<1>5. /\ Len(r) = Len(s) - 1 + Len(t)
      /\ \A i \in 1 .. a - 1 : r[i] = s[i]
      /\ \A i \in 1 .. Len(t) : r[a - 1 + i] = t[i]
  <2>1. Len(r) = Len(s) - 1 + Len(t)
    BY <1>1, <1>2, <1>3
  <2>2. \A i \in 1 .. a - 1 : r[i] = s[i]
    BY <1>1, <1>3
  <2>3. \A i \in 1 .. Len(t) : r[a - 1 + i] = t[i]
    BY <1>1, <1>3
  <2>. QED  BY <2>1, <2>2, <2>3
<1>6. ASSUME NEW i \in a + 1 .. Len(s)
      PROVE  r[i - 1 + Len(t)] = s[i]
  <2>1. /\ i - a \in 1 .. Len(l) /\ Len(h) + Len(t) + (i - a) = i - 1 + Len(t)
        /\ a + (i - a) = i
    <3>1. Len(h) = a - 1 /\ Len(l) = Len(s) - a
      BY <1>1, <1>2
    <3>2. i \in Int /\ a \in Int /\ Len(s) \in Int /\ Len(t) \in Int
      OBVIOUS
    <3>3. i - a \in 1 .. Len(s) - a /\ a + (i - a) = i
      BY <3>2
    <3>4. (a - 1) + Len(t) + (i - a) = i - 1 + Len(t)
      BY <3>2
    <3>. QED  BY <3>1, <3>3, <3>4
  <2>2. r[Len(h) + Len(t) + (i - a)] = l[i - a]
    BY <1>3, <2>1
  <2>3. i - a \in 1 .. Len(s) - a
    BY <1>2, <2>1
  <2>4. l[i - a] = s[a + (i - a)]
    BY <1>2, <2>3
  <2>. QED  BY <2>1, <2>2, <2>4
<1>. QED  BY <1>4, <1>5, <1>6

LEMMA SplicedIndices ==
    ASSUME NEW m \in Nat, NEW n \in Nat, NEW a \in 1 .. m, NEW k \in 1 .. m - 1 + n
    PROVE  \/ k \in 1 .. a - 1
           \/ \E i \in 1 .. n : k = a - 1 + i
           \/ \E i \in a + 1 .. m : k = i - 1 + n
<1>1. CASE k < a
  BY <1>1
<1>2. CASE k >= a /\ k < a + n
  <2>1. k - a + 1 \in 1 .. n /\ k = a - 1 + (k - a + 1)
    BY <1>2
  <2>. QED  BY <2>1
<1>3. CASE k >= a + n
  <2>1. k + 1 - n \in a + 1 .. m /\ k = (k + 1 - n) - 1 + n
    BY <1>3
  <2>. QED  BY <2>1
<1>. QED  BY <1>1, <1>2, <1>3

\* r is s with its element a replaced by those of t, all of which are different.
SplicedFrom(m, n, a, s, t, r) ==
    /\ DOMAIN s = 1 .. m /\ DOMAIN t = 1 .. n /\ DOMAIN r = 1 .. m - 1 + n
    /\ \A i \in 1 .. a - 1 : r[i] = s[i]
    /\ \A i \in 1 .. n : r[a - 1 + i] = t[i]
    /\ \A i \in a + 1 .. m : r[i - 1 + n] = s[i]
    /\ \A k, l \in 1 .. m : s[k] = s[l] => k = l
    /\ \A k, l \in 1 .. n : t[k] = t[l] => k = l
    /\ \A k \in 1 .. m, l \in 1 .. n : s[k] # t[l]

\* Every element of a splice is one of the sequence's or one of the spliced sequence's,
\* and only the one that was replaced is missing.
SplicedInto(m, n, a, s, t, r) ==
    /\ \A k, l \in 1 .. m - 1 + n : r[k] = r[l] => k = l
    /\ \A k \in 1 .. m - 1 + n : \/ \E i \in 1 .. n : r[k] = t[i]
                                 \/ \E i \in 1 .. m : i # a /\ r[k] = s[i]
    /\ ToSet(r) = (ToSet(s) \ {s[a]}) \cup ToSet(t)

LEMMA SplicedElements ==
    ASSUME NEW m \in Nat, NEW n \in Nat, NEW a \in 1 .. m, NEW s, NEW t, NEW r,
           SplicedFrom(m, n, a, s, t, r)
    PROVE  SplicedInto(m, n, a, s, t, r)
<1>. USE DEF SplicedFrom
<1>1. ASSUME NEW k \in 1 .. m - 1 + n
      PROVE  \/ \E i \in 1 .. n : k = a - 1 + i /\ r[k] = t[i]
             \/ \E i \in 1 .. m : /\ i # a /\ r[k] = s[i]
                                  /\ k = IF i < a THEN i ELSE i - 1 + n
  <2>1. CASE k \in 1 .. a - 1
    <3>1. k \in 1 .. m /\ k # a /\ r[k] = s[k] /\ k < a
      BY <2>1
    <3>. QED  BY <3>1
  <2>2. CASE \E i \in 1 .. n : k = a - 1 + i
    BY <2>2
  <2>3. CASE \E i \in a + 1 .. m : k = i - 1 + n
    <3>1. PICK i \in a + 1 .. m : k = i - 1 + n
      BY <2>3
    <3>2. i \in 1 .. m /\ i # a /\ r[k] = s[i] /\ ~ (i < a)
      BY <3>1
    <3>. QED  BY <3>1, <3>2
  <2>. QED  BY <2>1, <2>2, <2>3, SplicedIndices
<1>2. ASSUME NEW k \in 1 .. m - 1 + n, NEW l \in 1 .. m - 1 + n, r[k] = r[l]
      PROVE  k = l
  <2>1. CASE \E i \in 1 .. n : k = a - 1 + i /\ r[k] = t[i]
    <3>1. PICK i \in 1 .. n : k = a - 1 + i /\ r[k] = t[i]
      BY <2>1
    <3>2. PICK j \in 1 .. n : l = a - 1 + j /\ r[l] = t[j]
      BY <1>1, <1>2, <3>1
    <3>3. i = j
      BY <1>2, <3>1, <3>2
    <3>. QED  BY <3>1, <3>2, <3>3
  <2>2. CASE \E i \in 1 .. m : /\ i # a /\ r[k] = s[i]
                               /\ k = IF i < a THEN i ELSE i - 1 + n
    <3>1. PICK i \in 1 .. m : r[k] = s[i] /\ k = IF i < a THEN i ELSE i - 1 + n
      BY <2>2
    <3>2. ~ \E j \in 1 .. n : r[l] = t[j]
      BY <1>2, <3>1
    <3>3. PICK j \in 1 .. m : r[l] = s[j] /\ l = IF j < a THEN j ELSE j - 1 + n
      BY <1>1, <3>2
    <3>4. s[i] = s[j]
      BY <1>2, <3>1, <3>3
    <3>5. i = j
      BY <3>4
    <3>. QED  BY <3>1, <3>3, <3>5
  <2>. QED  BY <1>1, <2>1, <2>2
<1>3. \A k \in 1 .. m - 1 + n : \/ \E i \in 1 .. n : r[k] = t[i]
                                \/ \E i \in 1 .. m : i # a /\ r[k] = s[i]
  BY <1>1
<1>4. ASSUME NEW e \in ToSet(r)
      PROVE  e \in (ToSet(s) \ {s[a]}) \cup ToSet(t)
  <2>1. PICK k \in 1 .. m - 1 + n : e = r[k]
    BY DEF ToSet
  <2>2. CASE \E i \in 1 .. n : r[k] = t[i]
    BY <2>1, <2>2, SMTT(60) DEF ToSet
  <2>3. CASE \E i \in 1 .. m : i # a /\ r[k] = s[i]
    <3>1. PICK i \in 1 .. m : i # a /\ e = s[i]
      BY <2>1, <2>3
    <3>2. e \in ToSet(s)
      BY <3>1 DEF ToSet
    <3>3. e # s[a]
      BY <3>1
    <3>. QED  BY <3>2, <3>3
  <2>. QED  BY <1>3, <2>2, <2>3
<1>5. ASSUME NEW e, \E k \in 1 .. m - 1 + n : e = r[k]
      PROVE  e \in ToSet(r)
  BY <1>5 DEF ToSet
<1>6. ASSUME NEW e \in ToSet(t)
      PROVE  e \in ToSet(r)
  <2>1. PICK i \in 1 .. n : e = t[i]
    BY DEF ToSet
  <2>2. a - 1 + i \in 1 .. m - 1 + n
    OBVIOUS
  <2>. QED  BY <1>5, <2>1, <2>2
<1>7. ASSUME NEW e \in ToSet(s), e # s[a]
      PROVE  e \in ToSet(r)
  <2>1. PICK i \in 1 .. m : e = s[i]
    BY DEF ToSet
  <2>2. CASE i < a
    <3>1. i \in 1 .. a - 1 /\ i \in 1 .. m - 1 + n
      BY <2>2
    <3>. QED  BY <1>5, <2>1, <3>1
  <2>3. CASE i > a
    <3>1. i \in a + 1 .. m /\ i - 1 + n \in 1 .. m - 1 + n
      BY <2>3
    <3>. QED  BY <1>5, <2>1, <3>1
  <2>4. i # a
    BY <1>7, <2>1
  <2>. QED  BY <2>2, <2>3, <2>4
<1>. QED  BY <1>2, <1>3, <1>4, <1>6, <1>7 DEF SplicedInto

\* A sequence of nodes with that at position a replaced by others.
SpliceOf(r, s, t, a) ==
    /\ r \in Seq(Nat) /\ Len(r) = Len(s) - 1 + Len(t)
    /\ \A i \in 1 .. a - 1 : r[i] = s[i]
    /\ \A i \in 1 .. Len(t) : r[a - 1 + i] = t[i]
    /\ \A k, l \in 1 .. Len(r) : r[k] = r[l] => k = l
    /\ \A k \in 1 .. Len(r) : \/ \E i \in 1 .. Len(t) : r[k] = t[i]
                              \/ \E i \in 1 .. Len(s) : r[k] = s[i]
    /\ ToSet(r) = (ToSet(s) \ {s[a]}) \cup ToSet(t)

LEMMA Splice ==
    ASSUME NEW s \in Seq(Nat), NEW t \in Seq(Nat), NEW a \in 1 .. Len(s),
           \A k, l \in 1 .. Len(s) : s[k] = s[l] => k = l,
           \A k, l \in 1 .. Len(t) : t[k] = t[l] => k = l,
           \A k \in 1 .. Len(s), l \in 1 .. Len(t) : s[k] # t[l]
    PROVE  SpliceOf(SubSeq(s, 1, a - 1) \o t \o SubSeq(s, a + 1, Len(s)), s, t, a)
<1>1. PICK r \in Seq(Nat) :
         /\ r = SubSeq(s, 1, a - 1) \o t \o SubSeq(s, a + 1, Len(s))
         /\ Len(r) = Len(s) - 1 + Len(t)
         /\ \A i \in 1 .. a - 1 : r[i] = s[i]
         /\ \A i \in 1 .. Len(t) : r[a - 1 + i] = t[i]
         /\ \A i \in a + 1 .. Len(s) : r[i - 1 + Len(t)] = s[i]
  BY Spliced, ZenonT(60)
<1>2. /\ Len(r) = Len(s) - 1 + Len(t)
      /\ \A i \in 1 .. a - 1 : r[i] = s[i]
      /\ \A i \in 1 .. Len(t) : r[a - 1 + i] = t[i]
      /\ \A i \in a + 1 .. Len(s) : r[i - 1 + Len(t)] = s[i]
  BY <1>1
<1>3. Len(s) \in Nat /\ Len(t) \in Nat /\ DOMAIN s = 1 .. Len(s) /\ DOMAIN t = 1 .. Len(t)
      /\ DOMAIN r = 1 .. Len(s) - 1 + Len(t)
  BY <1>2
<1>4. /\ \A k, l \in 1 .. Len(s) - 1 + Len(t) : r[k] = r[l] => k = l
      /\ \A k \in 1 .. Len(s) - 1 + Len(t) :
            \/ \E i \in 1 .. Len(t) : r[k] = t[i]
            \/ \E i \in 1 .. Len(s) : i # a /\ r[k] = s[i]
      /\ ToSet(r) = (ToSet(s) \ {s[a]}) \cup ToSet(t)
  <2>1. SplicedFrom(Len(s), Len(t), a, s, t, r)
    BY <1>2, <1>3 DEF SplicedFrom
  <2>2. Len(s) \in Nat /\ Len(t) \in Nat
    BY <1>3
  <2>3. SplicedInto(Len(s), Len(t), a, s, t, r)
    BY <2>1, <2>2, SplicedElements
  <2>. QED  BY <2>3 DEF SplicedInto
<1>5. SpliceOf(r, s, t, a)
  BY <1>2, <1>4 DEF SpliceOf
<1>. QED  BY <1>1, <1>5

\* An activation is over, and the one below it has what the two owned but for what was
\* deleted.
LEMMA IncludeReturned ==
    ASSUME IncInv, Running, UNCHANGED <<files, thrown, outcome>>,
           NEW d, NEW e, NEW gone, d = Len(stack), e = d - 1, e > 0,
           HeapOK', Len(heap') = Len(heap),
           \A n \in 1 .. Len(heap) : heap'[n].kind = heap[n].kind,
           \A n \in 1 .. Len(heap) :
              n \notin Owned(e) \cup Owned(d) => heap'[n].kids = heap[n].kids,
           deletes' = Delete(gone), gone \subseteq Owned(e) \cup Owned(d),
           IsSeq(stack'), Len(stack') = e, \A i \in 1 .. e - 1 : stack'[i] = stack[i],
           FrameOK(e)', Owned(e)' = (Owned(e) \cup Owned(d)) \ gone
    PROVE  IncInv'
<1>1. /\ d \in Nat /\ d \in 1 .. d /\ IsSeq(stack) /\ Len(heap) \in Nat /\ HeapOK
      /\ e \in Nat /\ e \in 1 .. e /\ e \in 1 .. d /\ e # d
      /\ \A i \in 1 .. e - 1 : i \in 1 .. d /\ i # d /\ i # e
      /\ \A i \in 1 .. e : i = e \/ i \in 1 .. e - 1
      /\ \A i \in 1 .. d : i = d \/ i = e \/ i \in 1 .. e - 1
  BY TopFrame DEF IncInv
<1>2. ASSUME NEW i \in 1 .. e - 1
      PROVE  FrameOK(i)' /\ Owned(i)' = Owned(i) /\ Owned(i) \cap (Owned(e) \cup Owned(d)) = {}
  <2>1. i \in 1 .. Len(stack) /\ FrameOK(i)
    BY <1>1 DEF IncInv, StackOK
  <2>2. Owned(i) \cap (Owned(e) \cup Owned(d)) = {}
    BY <1>1, <2>1 DEF IncInv, Disjoint
  <2>3. stack[i].ptr # NULL => stack[i].ptr \in Owned(i) /\ stack[i].ptr \in 1 .. Len(heap)
    BY <1>1, <2>1, OwnedPointer
  <2>4. stack[i].ptr # NULL => heap'[stack[i].ptr].kids = heap[stack[i].ptr].kids
    BY <2>2, <2>3
  <2>5. i \in 1 .. Len(stack') /\ stack'[i] = stack[i] /\ (i < Len(stack') => i < Len(stack))
    <3>1. e \in Nat /\ d \in Nat /\ e < d
      BY <1>1
    <3>2. i \in 1 .. e /\ i < d
      BY <3>1
    <3>. QED  BY <3>2
  <2>6. Len(heap') \in Nat /\ Len(heap) <= Len(heap')
    BY <1>1
  <2>. QED  BY <1>1, <2>1, <2>2, <2>4, <2>5, <2>6, FrameKept
<1>3. StackOK'
  <2>1. \A i \in 1 .. e : FrameOK(i)'
    BY <1>1, <1>2
  <2>2. stack' # <<>>
    BY <1>1
  <2>. QED  BY <2>1, <2>2 DEF IncInv, StackOK, Running
<1>4. Disjoint'
  <2>. SUFFICES ASSUME NEW i \in 1 .. e, NEW j \in 1 .. e, i # j
                PROVE  Owned(i)' \cap Owned(j)' = {}
    BY DEF Disjoint
  <2>1. CASE i \in 1 .. e - 1 /\ j \in 1 .. e - 1
    <3>1. i \in 1 .. Len(stack) /\ j \in 1 .. Len(stack)
      BY <1>1, <2>1
    <3>2. Owned(i) \cap Owned(j) = {}
      BY <3>1 DEF IncInv, Disjoint
    <3>3. Owned(i)' = Owned(i) /\ Owned(j)' = Owned(j)
      BY <1>2, <2>1
    <3>. QED  BY <3>2, <3>3
  <2>2. CASE i = e
    BY <1>1, <1>2, <2>2
  <2>3. CASE j = e
    BY <1>1, <1>2, <2>3
  <2>. QED  BY <1>1, <2>1, <2>2, <2>3
<1>5. Accounted'
  <2>1. Running' /\ Missing' = Missing
    BY DEF Running, Missing
  <2>2. \A n \in 1 .. Len(heap) :
           deletes'[n] = IF n \in gone THEN deletes[n] + 1 ELSE deletes[n]
    BY <1>1, DeletedNodes, ZenonT(60)
  <2>3. \A n \in gone : \E i \in 1 .. d : n \in Owned(i)
    BY <1>1
  <2>4. \A i \in 1 .. d : \A n \in Owned(i) :
           n \in gone \/ \E j \in 1 .. e : n \in Owned(j)'
    <3>1. ASSUME NEW i \in 1 .. d, NEW n \in Owned(i), i = d \/ i = e, n \notin gone
          PROVE  n \in Owned(e)' /\ e \in 1 .. e
      BY <1>1, <3>1
    <3>2. ASSUME NEW i \in 1 .. e - 1, NEW n \in Owned(i)
          PROVE  n \in Owned(i)' /\ i \in 1 .. e
      <4>1. i \in 1 .. e
        BY <1>1
      <4>. QED  BY <1>2, <4>1
    <3>. QED  BY <1>1, <3>1, <3>2
  <2>5. \A j \in 1 .. e : \A n \in Owned(j)' :
           n \notin gone /\ \E i \in 1 .. d : n \in Owned(i)
    BY <1>1, <1>2, ZenonT(60)
  <2>. QED  BY <2>1, <2>2, <2>3, <2>4, <2>5, StillAccounted
<1>. QED  BY <1>3, <1>4, <1>5 DEF IncInv

\* The children of one StatementsAST are moved to another.
LEMMA KidsMoved ==
    ASSUME HeapOK, NEW parent \in 1 .. Len(heap), NEW ast \in 1 .. Len(heap), parent # ast,
           NEW new, heap' = [heap EXCEPT ![parent].kids = new, ![ast].kids = <<>>]
    PROVE  /\ IsSeq(heap') /\ Len(heap') = Len(heap)
           /\ \A n \in 1 .. Len(heap) : /\ DOMAIN heap'[n] = DOMAIN heap[n]
                                        /\ heap'[n].kind = heap[n].kind
                                        /\ heap'[n].inc = heap[n].inc
                                        /\ heap'[n].expr = heap[n].expr
           /\ \A n \in 1 .. Len(heap) : n # parent /\ n # ast => heap'[n] = heap[n]
           /\ heap'[parent].kids = new /\ heap'[ast].kids = <<>>
<1>1. DOMAIN heap = 1 .. Len(heap) /\ Len(heap) \in Nat
  BY SeqElements DEF HeapOK
<1>2. PICK r, q : /\ r = [heap[parent] EXCEPT !.kids = new]
                  /\ q = [heap[ast] EXCEPT !.kids = <<>>]
  OBVIOUS
<1>3. heap' = [n \in 1 .. Len(heap) |-> IF n = parent THEN r ELSE IF n = ast THEN q
                                        ELSE heap[n]]
  BY <1>1, <1>2
<1>4. IsSeq(heap') /\ Len(heap') = Len(heap)
  <2>1. heap' = [n \in 1 .. Len(heap) |-> heap'[n]]
    BY <1>3
  <2>. QED  BY <1>1, <2>1, SeqOfFunction
<1>5. /\ DOMAIN r = DOMAIN heap[parent] /\ r.kind = heap[parent].kind
      /\ r.inc = heap[parent].inc /\ r.expr = heap[parent].expr /\ r.kids = new
      /\ DOMAIN q = DOMAIN heap[ast] /\ q.kind = heap[ast].kind
      /\ q.inc = heap[ast].inc /\ q.expr = heap[ast].expr /\ q.kids = <<>>
  <2>1. /\ DOMAIN heap[parent] = {"kind", "expr", "inc", "kids"}
        /\ DOMAIN heap[ast] = {"kind", "expr", "inc", "kids"}
    BY DEF HeapOK, NodeOK
  <2>. QED  BY <1>2, <2>1, WithKids
<1>6. \A n \in 1 .. Len(heap) :
         heap'[n] = IF n = parent THEN r ELSE IF n = ast THEN q ELSE heap[n]
  BY <1>3
<1>. QED  BY <1>4, <1>5, <1>6

\* process_node() returns: its AST takes the place of the include block.
LEMMA ReturnIncludeIncInv ==
    ASSUME IncInv, ReturnInclude
    PROVE  IncInv'
<1>0. PICK d, e, ast, below, parent, a, moved, block :
         /\ d = Len(stack) /\ e = d - 1 /\ ast = Top.ptr /\ below = stack[e]
         /\ parent = below.ptr /\ a = below.at /\ moved = Nodes(ast)
         /\ block = Nodes(parent)[a]
  BY ZenonT(60)
<1>1. /\ Running /\ UNCHANGED <<files, thrown, outcome>>
      /\ Top.inc # None /\ Top.stage = "done"
  BY ZenonT(60) DEF ReturnInclude
<1>2. /\ d \in Nat /\ d \in 1 .. d /\ Top = stack[d] /\ IsSeq(stack)
      /\ FrameOK(d) /\ Len(heap) \in Nat /\ HeapOK /\ stack # <<>>
  BY <1>0, <1>1, TopFrame DEF IncInv, StackOK
<1>3. d # 1 /\ e \in Nat /\ e > 0 /\ e \in 1 .. d /\ e < d /\ e # d /\ FrameOK(e)
  <2>1. d # 1
    BY <1>1, <1>2 DEF FrameOK
  <2>. QED  BY <1>0, <1>2, <2>1 DEF IncInv, StackOK
<1>4. /\ ast \in 1 .. Len(heap)
      /\ \A k \in 1 .. Len(moved) : heap[moved[k]].kind \in {"raw", "print"}
  <2>1. Top.stage \in {"resolved", "done"}
    BY <1>1
  <2>. QED  BY <1>0, <1>2, <2>1, ResolvedFrame
<1>5. /\ below.stage = "walk" /\ parent \in 1 .. Len(heap)
      /\ a \in 1 .. Len(Nodes(parent)) + 1 /\ a <= Len(Nodes(parent))
      /\ \A k \in 1 .. a - 1 : heap[Nodes(parent)[k]].kind \in {"raw", "print"}
      /\ heap[block].kind = "include"
      /\ DOMAIN below = {"inc", "ptr", "at", "stage"} /\ (below.inc = None <=> e = 1)
      /\ below.inc # None => below.inc.file \in File
  <2>1. e < Len(stack)
    BY <1>0, <1>3
  <2>2. PICK nodes : nodes = Nodes(parent)
    OBVIOUS
  <2>3. below = stack[e] /\ nodes = Nodes(below.ptr) /\ FrameOK(e)
    BY <1>0, <1>3, <2>2, Zenon
  <2>4. Walks(below, e, heap, nodes) /\ below.at <= Len(nodes)
        /\ heap[nodes[below.at]].kind = "include"
    BY <2>1, <2>3, WaitingFrame, Zenon
  <2>. QED  BY <1>0, <2>2, <2>4 DEF Walks
<1>6. /\ moved \in Seq(Nat) /\ Len(moved) \in Nat
      /\ \A k \in 1 .. Len(moved) : moved[k] \in 1 .. Len(heap) /\ moved[k] \in Tree(ast)
                                    /\ heap[moved[k]].kind # "stmts"
      /\ \A k, l \in 1 .. Len(moved) : moved[k] = moved[l] => k = l
  <2>1. moved = Nodes(ast)
    BY <1>0
  <2>2. moved \in Seq(Nat)
    BY <1>2, <1>4, <2>1, NodesOfTree
  <2>3. \A k \in 1 .. Len(moved) : /\ moved[k] \in 1 .. Len(heap) /\ moved[k] \in Tree(ast)
                                   /\ heap[moved[k]].kind # "stmts"
    BY <1>2, <1>4, <2>1, NodesOfTree
  <2>4. \A k, l \in 1 .. Len(moved) : moved[k] = moved[l] => k = l
    BY <1>2, <1>4, <2>1, NodesOfTree
  <2>. QED  BY <2>2, <2>3, <2>4, SMTT(60)
<1>7. /\ Nodes(parent) \in Seq(Nat) /\ Len(Nodes(parent)) \in Nat
      /\ a \in 1 .. Len(Nodes(parent))
  <2>1. Nodes(parent) \in Seq(Nat) /\ Len(Nodes(parent)) \in Nat
    BY <1>2, <1>5, NodesOfTree
  <2>. QED  BY <1>5, <2>1
<1>8. /\ Owned(d) = Tree(ast) /\ Owned(e) = Tree(parent)
      /\ Tree(parent) \cap Tree(ast) = {} /\ block \in Tree(parent)
      /\ ast \in Tree(ast) /\ parent \in Tree(parent) /\ parent # ast
  <2>1. Owned(d) = Tree(ast) /\ Owned(e) = Tree(parent)
    BY <1>0, <1>1, <1>2, <1>3, <1>5, OwnedNodes, ZenonT(60)
  <2>2. Owned(d) \cap Owned(e) = {}
    BY <1>0, <1>2, <1>3 DEF IncInv, Disjoint
  <2>3. block \in Tree(parent) /\ ast \in Tree(ast) /\ parent \in Tree(parent)
    <3>1. ast \in Tree(ast) /\ parent \in Tree(parent)
      BY DEF Tree
    <3>2. block = Nodes(parent)[a] /\ a \in 1 .. Len(Nodes(parent))
      BY <1>0, <1>7
    <3>3. HeapOK /\ parent \in 1 .. Len(heap)
      BY <1>2, <1>5
    <3>. QED  BY <3>1, <3>2, <3>3, NodesOfTree
  <2>. QED  BY <2>1, <2>2, <2>3
<1>9. /\ IsSeq(Pop(stack)) /\ Len(Pop(stack)) = e
      /\ \A i \in 1 .. e : Pop(stack)[i] = stack[i]
  BY <1>0, <1>2, Popped
<1>10. ASSUME NEW f, stack' = [Pop(stack) EXCEPT ![e] = f]
       PROVE  /\ IsSeq(stack') /\ Len(stack') = e /\ stack'[e] = f
              /\ \A i \in 1 .. e - 1 : stack'[i] = stack[i]
  <2>1. DOMAIN Pop(stack) = 1 .. e
    BY <1>9, SeqElements
  <2>2. stack' = [i \in 1 .. e |-> IF i = e THEN f ELSE Pop(stack)[i]]
    BY <1>10, <2>1
  <2>3. stack'[e] = f /\ \A i \in 1 .. e - 1 : stack'[i] = stack[i]
    BY <1>3, <1>9, <2>2
  <2>4. stack' = [i \in 1 .. e |-> stack'[i]]
    BY <2>2
  <2>. QED  BY <1>3, <2>3, <2>4, SeqOfFunction
<1>11. CASE heap[parent].kind # "stmts"
  <2>. DEFINE f == [[below EXCEPT !.at = @ + Len(moved)] EXCEPT !.ptr = ast]
  <2>1. /\ deletes' = Delete({block}) /\ stack' = [Pop(stack) EXCEPT ![e] = f]
        /\ UNCHANGED heap
    BY <1>0, <1>11 DEF ReturnInclude
  <2>2. Tree(parent) = {parent} /\ Nodes(parent) = <<parent>>
    BY <1>2, <1>5, <1>11, LeafTree
  <2>3. a = 1 /\ block = parent
    BY <1>0, <1>7, <2>2
  <2>4. /\ DOMAIN f = {"inc", "ptr", "at", "stage"} /\ f.ptr = ast /\ f.inc = below.inc
        /\ f.stage = "walk" /\ f.at = 1 + Len(moved)
    BY <1>0, <1>5, <2>3
  <2>. HIDE DEF f
  <2>5. /\ IsSeq(stack') /\ Len(stack') = e /\ stack'[e] = f
        /\ \A i \in 1 .. e - 1 : stack'[i] = stack[i]
    BY <1>10, <2>1
  <2>6. /\ Nodes(ast)' = moved /\ Tree(ast)' = Tree(ast)
    BY <1>0, <2>1 DEF Nodes, Tree
  <2>7. FrameOK(e)'
    <3>1. /\ f.at \in 1 .. Len(moved) + 1
          /\ \A k \in 1 .. f.at - 1 : heap'[moved[k]].kind \in {"raw", "print"}
      BY <1>4, <1>6, <2>1, <2>4
    <3>2. /\ f = stack'[e] /\ moved = Nodes(f.ptr)' /\ f.ptr \in 1 .. Len(heap')
          /\ ~ (e < Len(stack')) /\ (f.inc = None <=> e = 1)
          /\ f.inc # None => f.inc.file \in File
      BY <1>3, <1>4, <1>5, <2>1, <2>4, <2>5, <2>6
    <3>3. Walks(f, e, heap', moved)
      BY <2>4, <3>1, <3>2 DEF Walks
    <3>. QED  BY <3>2, <3>3, WalkingFrame, Zenon
  <2>8. Owned(e)' = Tree(ast)
    BY <1>2, <1>4, <2>4, <2>5, <2>6 DEF Owned, NULL
  <2>9. HeapOK'
    <3>1. \A n \in 1 .. Len(heap) : deletes[n] \in Nat
      BY <1>2 DEF HeapOK
    <3>2. /\ IsSeq(deletes') /\ Len(deletes') = Len(heap)
          /\ \A n \in 1 .. Len(heap) : deletes'[n] \in Nat
      BY <1>2, <2>1, <3>1, DeletedNodes
    <3>. QED  BY <1>2, <2>1, <3>2, SameHeap
  <2>10. PICK gone : gone = {block}
    OBVIOUS
  <2>11. /\ gone \subseteq Owned(e) \cup Owned(d) /\ deletes' = Delete(gone)
         /\ Owned(e)' = (Owned(e) \cup Owned(d)) \ gone
    BY <1>8, <2>1, <2>2, <2>3, <2>8, <2>10
  <2>. QED  BY <1>0, <1>1, <1>3, <2>1, <2>5, <2>7, <2>9, <2>11, IncludeReturned
<1>12. CASE heap[parent].kind = "stmts"
  <2>0. PICK kids : kids = heap[parent].kids
    OBVIOUS
  <2>1. kids = Nodes(parent)
    BY <1>12, <2>0 DEF Nodes
  <2>2. PICK new : new = SubSeq(kids, 1, a - 1) \o moved \o SubSeq(kids, a + 1, Len(kids))
    BY ZenonT(60)
  <2>3. PICK gone : gone = Discarded(block, ast)
    OBVIOUS
  <2>. DEFINE f == [below EXCEPT !.at = @ + Len(moved)]
  <2>4. heap' = [heap EXCEPT ![parent].kids = new, ![ast].kids = <<>>]
    BY <1>0, <1>12, <2>0, <2>2, ZenonT(60) DEF ReturnInclude
  <2>5. deletes' = Delete(gone)
    BY <1>0, <1>12, <2>3, ZenonT(60) DEF ReturnInclude
  <2>6. stack' = [Pop(stack) EXCEPT ![e] = f]
    BY <1>0, <1>12, ZenonT(60) DEF ReturnInclude
  <2>7. /\ DOMAIN f = {"inc", "ptr", "at", "stage"} /\ f.ptr = parent /\ f.inc = below.inc
        /\ f.stage = "walk" /\ f.at = a + Len(moved)
    BY <1>0, <1>5
  <2>. HIDE DEF f
  <2>8. /\ IsSeq(stack') /\ Len(stack') = e /\ stack'[e] = f
        /\ \A i \in 1 .. e - 1 : stack'[i] = stack[i]
    BY <1>10, <2>6
  <2>9. /\ IsSeq(heap') /\ Len(heap') = Len(heap)
        /\ \A n \in 1 .. Len(heap) : /\ DOMAIN heap'[n] = DOMAIN heap[n]
                                     /\ heap'[n].kind = heap[n].kind
                                     /\ heap'[n].inc = heap[n].inc
                                     /\ heap'[n].expr = heap[n].expr
        /\ \A n \in 1 .. Len(heap) : n # parent /\ n # ast => heap'[n] = heap[n]
        /\ heap'[parent].kids = new /\ heap'[ast].kids = <<>>
    BY <1>2, <1>4, <1>5, <1>8, <2>4, KidsMoved, ZenonT(60)
  <2>10. kids \in Seq(Nat) /\ Len(kids) \in Nat /\ a \in 1 .. Len(kids) /\ block = kids[a]
    BY <1>0, <1>7, <2>1
  <2>11. /\ \A k \in 1 .. Len(kids) : kids[k] \in 1 .. Len(heap) /\ kids[k] \in Tree(parent)
                                      /\ heap[kids[k]].kind # "stmts"
         /\ \A k, l \in 1 .. Len(kids) : kids[k] = kids[l] => k = l
    BY <1>2, <1>5, <2>1, NodesOfTree, ZenonT(60)
  <2>12. \A k \in 1 .. Len(kids), l \in 1 .. Len(moved) : kids[k] # moved[l]
    BY <1>6, <1>8, <2>11
  <2>13. SpliceOf(new, kids, moved, a)
    BY <1>6, <2>2, <2>10, <2>11, <2>12, Splice
  <2>14. /\ new \in Seq(Nat) /\ Len(new) = Len(kids) - 1 + Len(moved)
         /\ \A i \in 1 .. a - 1 : new[i] = kids[i]
         /\ \A i \in 1 .. Len(moved) : new[a - 1 + i] = moved[i]
    BY <2>13 DEF SpliceOf
  <2>15. ToSet(new) = (ToSet(kids) \ {block}) \cup ToSet(moved)
    BY <2>10, <2>13 DEF SpliceOf
  <2>16. Children(new)
    <3>1. ASSUME NEW k \in 1 .. Len(new)
          PROVE  new[k] \in 1 .. Len(heap) /\ heap[new[k]].kind # "stmts"
      <4>1. \/ \E i \in 1 .. Len(moved) : new[k] = moved[i]
            \/ \E i \in 1 .. Len(kids) : new[k] = kids[i]
        BY <2>13 DEF SpliceOf
      <4>. QED  BY <1>6, <2>11, <4>1
    <3>2. \A k, l \in 1 .. Len(new) : new[k] = new[l] => k = l
      BY <2>13 DEF SpliceOf
    <3>. QED  BY <2>14, <3>1, <3>2 DEF Children
  <2>17. HeapOK'
    <3>1. \A n \in 1 .. Len(heap) : deletes[n] \in Nat
      BY <1>2 DEF HeapOK
    <3>2. /\ IsSeq(deletes') /\ Len(deletes') = Len(heap)
          /\ \A n \in 1 .. Len(heap) : deletes'[n] \in Nat
      BY <1>2, <2>5, <3>1, DeletedNodes
    <3>3. Children(<<>>)
      BY DEF Children
    <3>4. heap[ast].kind # "stmts" => heap[ast].kids = <<>>
      BY <1>2, <1>4 DEF HeapOK, NodeOK
    <3>5. \A n \in 1 .. Len(heap) :
             \/ heap'[n].kids = heap[n].kids
             \/ heap[n].kind = "stmts" /\ Children(heap'[n].kids)
      BY <1>12, <2>9, <2>16, <3>3, <3>4
    <3>. QED  BY <1>2, <2>9, <3>2, <3>5, HeapChanged
  <2>18. Nodes(parent)' = new /\ Tree(parent)' = {parent} \cup ToSet(new)
    <3>1. heap'[parent].kind = "stmts"
      BY <1>5, <1>12, <2>9
    <3>. QED  BY <2>9, <3>1 DEF Nodes, Tree
  <2>19. FrameOK(e)'
    <3>1. f.at \in 1 .. Len(new) + 1
      BY <1>6, <2>7, <2>10, <2>14
    <3>2. ASSUME NEW k \in 1 .. f.at - 1
          PROVE  heap'[new[k]].kind \in {"raw", "print"}
      <4>1. CASE k \in 1 .. a - 1
        <5>1. new[k] = kids[k] /\ k \in 1 .. Len(kids)
          BY <2>10, <2>14, <4>1
        <5>. QED  BY <1>5, <2>1, <2>9, <2>11, <4>1, <5>1
      <4>2. CASE k \notin 1 .. a - 1
        <5>0. k \in 1 .. a + Len(moved) - 1 /\ a \in Nat /\ Len(moved) \in Nat
          BY <1>6, <2>7, <2>10
        <5>1. k - a + 1 \in 1 .. Len(moved) /\ k = a - 1 + (k - a + 1)
          BY <4>2, <5>0
        <5>2. new[k] = moved[k - a + 1]
          BY <2>14, <5>1
        <5>. QED  BY <1>4, <1>6, <2>9, <5>1, <5>2
      <4>. QED  BY <4>1, <4>2
    <3>3. parent \in 1 .. Len(heap')
      BY <1>5, <2>9
    <3>4. (f.inc = None <=> e = 1) /\ (f.inc # None => f.inc.file \in File)
      BY <1>5, <2>7
    <3>5. \A k \in 1 .. f.at - 1 : Settled(new[k])'
      BY <3>2 DEF Settled
    <3>6. Nodes(parent)' = new
      BY <2>18
    <3>. QED  BY <2>7, <2>8, <3>1, <3>3, <3>4, <3>5, <3>6 DEF FrameOK, Stages
  <2>20. Owned(e)' = {parent} \cup ToSet(new)
    BY <1>2, <1>5, <2>7, <2>8, <2>18 DEF Owned, NULL
  <2>21. Tree(parent) = {parent} \cup ToSet(kids)
    BY <2>0 DEF Tree
  <2>22. ToSet(moved) \subseteq Tree(ast) /\ \A n \in ToSet(moved) : heap[n].kind # "stmts"
    BY <1>6, SMTT(60) DEF ToSet
  <2>23. parent # block /\ block \in ToSet(kids)
    BY <1>5, <1>12, <2>10 DEF ToSet
  <2>24. /\ gone \subseteq Owned(e) \cup Owned(d)
         /\ Owned(e)' = (Owned(e) \cup Owned(d)) \ gone
    <3>1. CASE heap[ast].kind = "stmts"
      <4>1. gone = {block, ast} /\ Tree(ast) = {ast} \cup ToSet(moved) /\ ast \notin ToSet(moved)
        BY <1>0, <2>3, <2>22, <3>1 DEF Discarded, Tree, Nodes
      <4>. QED  BY <1>8, <2>15, <2>20, <2>21, <2>22, <2>23, <4>1
    <3>2. CASE heap[ast].kind # "stmts"
      <4>1. gone = {block} /\ Tree(ast) = {ast} /\ moved = <<ast>>
        BY <1>0, <1>2, <1>4, <2>3, <3>2, LeafTree DEF Discarded
      <4>2. ToSet(moved) = {ast}
        BY <4>1 DEF ToSet
      <4>. QED  BY <1>8, <2>15, <2>20, <2>21, <2>23, <4>1, <4>2
    <3>. QED  BY <3>1, <3>2
  <2>25. \A n \in 1 .. Len(heap) :
            n \notin Owned(e) \cup Owned(d) => heap'[n].kids = heap[n].kids
    BY <1>8, <2>9
  <2>. QED  BY <1>0, <1>1, <1>3, <2>5, <2>8, <2>9, <2>17, <2>19, <2>24, <2>25,
               IncludeReturned
<1>. QED  BY <1>11, <1>12

LEMMA StepIncInv == ASSUME IncludeAssumption, IncInv, [Next]_vars PROVE IncInv'
<1>1. CASE \E error \in {"NoSuchFile", "SyntaxError"} : ParseFails(error)
  BY <1>1, ParseFailsIncInv
<1>2. CASE ParseSucceeds
  BY <1>2, ParseSucceedsIncInv
<1>3. CASE SkipNode
  BY <1>3, SkipNodeIncInv
<1>4. CASE EnterInclude
  BY <1>4, EnterIncludeIncInv
<1>5. CASE FinishWalk
  BY <1>5, FinishWalkIncInv
<1>6. CASE SubstitutionThrows
  BY <1>6, SubstitutionThrowsIncInv
<1>7. CASE Substitute
  BY <1>7, SubstituteIncInv
<1>8. CASE ReturnInclude
  BY <1>8, ReturnIncludeIncInv
<1>9. CASE Unwind
  BY <1>9, UnwindIncInv
<1>10. CASE ReturnTemplate
  BY <1>10, ReturnTemplateIncInv
<1>11. CASE UNCHANGED vars
  <2>1. UNCHANGED <<files, heap, deletes, stack, thrown, outcome>>
    BY <1>11 DEF vars
  <2>2. HeapOK'
    BY <2>1, SameHeapAndDeletes DEF IncInv
  <2>3. \A i : (FrameOK(i) => FrameOK(i)') /\ Owned(i)' = Owned(i)
    BY <2>1, SameFrames
  <2>4. StackOK' /\ Disjoint'
    BY <2>1, <2>3 DEF IncInv, StackOK, Disjoint, Running
  <2>5. Accounted'
    <3>1. Running' = Running /\ Missing' = Missing /\ \A n : Tree(n)' = Tree(n)
      BY <2>1 DEF Running, Missing, Tree
    <3>. QED  BY <2>1, <2>3, <3>1 DEF IncInv, Accounted
  <2>. QED  BY <2>2, <2>4, <2>5 DEF IncInv
<1>. QED  BY <1>1, <1>2, <1>3, <1>4, <1>5, <1>6, <1>7, <1>8, <1>9, <1>10, <1>11 DEF Next

LEMMA IncInvariant == Spec => []IncInv
<1>1. Init => IncInv
  BY IncludeAssumption, InitIncInv
<1>2. IncInv /\ [Next]_vars => IncInv'
  BY IncludeAssumption, StepIncInv
<1>. QED  BY <1>1, <1>2, PTL DEF Spec

-----------------------------------------------------------------------------
LEMMA Domains ==
    ASSUME IncInv
    PROVE  /\ DOMAIN heap = 1 .. Len(heap) /\ DOMAIN deletes = 1 .. Len(heap)
           /\ DOMAIN stack = 1 .. Len(stack) /\ Len(heap) \in Nat /\ Len(stack) \in Nat
BY SeqElements DEF IncInv, HeapOK, StackOK

\* The unique_ptr of each process_node() and the run() at the bottom own different nodes,
\* and together all those that live, in whatever way files include files.
THEOREM NodesOwnedOnce == Spec => []Ownership
<1>1. IncInv => Ownership
  <2>. SUFFICES ASSUME IncInv, Running, thrown = None PROVE
            /\ \A i, j \in DOMAIN stack : i # j => Owned(i) \cap Owned(j) = {}
            /\ {n \in DOMAIN deletes : deletes[n] = 0} =
                   UNION {Owned(i) : i \in DOMAIN stack}
    BY DEF Ownership
  <2>1. ~ Missing
    BY IncludeAssumption DEF Missing, IncludeAssumption
  <2>2. \A i \in 1 .. Len(stack) : Owned(i) \subseteq 1 .. Len(heap)
    BY OwnedNodes DEF IncInv, StackOK
  <2>3. \A n \in 1 .. Len(heap) : deletes[n] = 0 <=> \E i \in 1 .. Len(stack) : n \in Owned(i)
    BY <2>1 DEF IncInv, Accounted
  <2>. QED  BY <2>2, <2>3, Domains DEF IncInv, Disjoint
<1>. QED  BY <1>1, IncInvariant, PTL

\* Unless a variable of an included file is missing from its mapping, replacing, folding
\* and unwinding delete each node at most once, at any depth of inclusion.
THEOREM NodesDeletedOnce == Spec => []DeletedOnceUnlessMissing
<1>1. IncInv => DeletedOnceUnlessMissing
  <2>. SUFFICES ASSUME IncInv, ~ Missing PROVE DeletedOnce
    BY DEF DeletedOnceUnlessMissing, Missing
  <2>. QED  BY Domains DEF IncInv, Accounted, DeletedOnce
<1>. QED  BY <1>1, IncInvariant, PTL

\* When run() has returned or thrown, all nodes but those of the template it returned
\* have been deleted, whatever activation failed.
THEOREM NoNodeLeaks == Spec => []NothingLeaks
<1>1. IncInv => NothingLeaks
  <2>. SUFFICES ASSUME IncInv, ~ Running, NEW n \in DOMAIN deletes
                PROVE  deletes[n] = 0 <=> /\ outcome.status = "done"
                                          /\ n \in Tree(outcome.result)
    BY DEF NothingLeaks
  <2>1. n \in 1 .. Len(heap) /\ deletes[n] \in Nat
    BY Domains DEF IncInv, HeapOK
  <2>2. outcome.status = "done" \/ outcome.status = "failed"
    BY DEF IncInv, StackOK, Running
  <2>3. CASE outcome.status = "done"
    BY <2>1, <2>3 DEF IncInv, Accounted
  <2>4. CASE outcome.status = "failed"
    <3>1. deletes[n] > 0
      BY <2>1, <2>4 DEF IncInv, Accounted
    <3>. QED  BY <2>1, <2>4, <3>1
  <2>. QED  BY <2>2, <2>3, <2>4
<1>. QED  BY <1>1, IncInvariant, PTL

\* What the inner run() of process_node() is given has no include block, no nested and
\* no single-statement StatementsAST: it never replaces the AST that the unique_ptr holds.
THEOREM ResolvedIsNormal == Spec => []NormalForm
<1>1. IncInv => NormalForm
  <2>. SUFFICES ASSUME IncInv, NEW i \in DOMAIN stack,
                       stack[i].stage \in {"resolved", "done"}
                PROVE  /\ ~ FoldsToChild(stack[i].ptr)
                       /\ \A m \in ToSet(Nodes(stack[i].ptr)) :
                              heap[m].kind \in {"raw", "print"}
    BY DEF NormalForm
  <2>0. PICK p : p = stack[i].ptr
    OBVIOUS
  <2>1. i \in 1 .. Len(stack) /\ FrameOK(i) /\ HeapOK
    BY Domains DEF IncInv, StackOK
  <2>2. /\ p \in 1 .. Len(heap) /\ ~ FoldsToChild(p)
        /\ \A k \in 1 .. Len(Nodes(p)) : heap[Nodes(p)[k]].kind \in {"raw", "print"}
    BY <2>0, <2>1 DEF FrameOK, Settled
  <2>3. Nodes(p) \in Seq(Nat)
    BY <2>1, <2>2, NodesOfTree
  <2>4. \A m \in ToSet(Nodes(p)) : \E k \in 1 .. Len(Nodes(p)) : m = Nodes(p)[k]
    BY <2>3 DEF ToSet
  <2>. QED  BY <2>0, <2>2, <2>4
<1>. QED  BY <1>1, IncInvariant, PTL

-----------------------------------------------------------------------------
(***************************************************************************)
(* The inlinings, computed depth by depth.                                 *)
(***************************************************************************)
\* The inlinings up to a depth exist.
LEMMA InliningUpTo ==
    ASSUME NEW program, NEW n \in Nat
    PROVE  \E g : g = [i \in 0 .. n |-> IF i = 0 THEN Unresolved
                                                 ELSE Deeper(program, g[i - 1])]
<1>1. PICK S : S = {k \in Nat : \E g : g = [i \in 0 .. k |-> IF i = 0 THEN Unresolved
                                                           ELSE Deeper(program, g[i - 1])]}
  OBVIOUS
<1>2. 0 \in S
  <2>1. PICK g : g = [i \in 0 .. 0 |-> Unresolved]
    OBVIOUS
  <2>2. g = [i \in 0 .. 0 |-> IF i = 0 THEN Unresolved ELSE Deeper(program, g[i - 1])]
    BY <2>1
  <2>. QED  BY <1>1, <2>2
<1>3. ASSUME NEW k \in Nat, k \in S PROVE k + 1 \in S
  <2>1. PICK g : g = [i \in 0 .. k |-> IF i = 0 THEN Unresolved
                                                ELSE Deeper(program, g[i - 1])]
    BY <1>1, <1>3
  <2>2. PICK h : h = [i \in 0 .. k + 1 |-> IF i <= k THEN g[i] ELSE Deeper(program, g[k])]
    OBVIOUS
  <2>3. /\ \A i \in 0 .. k : h[i] = g[i]
        /\ h[k + 1] = Deeper(program, g[k]) /\ h[k] = g[k]
    BY <2>2
  <2>4. \A i \in 0 .. k : g[i] = IF i = 0 THEN Unresolved ELSE Deeper(program, g[i - 1])
    BY <2>1
  <2>5. ASSUME NEW i \in 0 .. k + 1
        PROVE  h[i] = IF i = 0 THEN Unresolved ELSE Deeper(program, h[i - 1])
    <3>1. CASE i = 0
      BY <2>3, <2>4, <3>1
    <3>2. CASE i \in 1 .. k
      <4>1. h[i - 1] = g[i - 1] /\ h[i] = g[i] /\ i \in 0 .. k /\ i # 0
        BY <2>3, <3>2
      <4>. QED  BY <2>4, <4>1
    <3>3. CASE i = k + 1
      <4>1. i - 1 = k /\ i # 0
        BY <3>3
      <4>. QED  BY <2>3, <3>3, <4>1
    <3>. QED  BY <3>1, <3>2, <3>3
  <2>6. h = [i \in 0 .. k + 1 |-> IF i = 0 THEN Unresolved ELSE Deeper(program, h[i - 1])]
    BY <2>2, <2>5
  <2>7. k + 1 \in Nat
    OBVIOUS
  <2>. QED  BY <1>1, <2>6, <2>7
<1>4. n \in S
  BY <1>2, <1>3, SetInduction
<1>. QED  BY <1>1, <1>4

\* The inlining exists, and is computed depth by depth.
LEMMA InliningSteps ==
    ASSUME NEW program
    PROVE  /\ Inlining(program)[0] = Unresolved
           /\ \A n \in Nat : Inlining(program)[n + 1] = Deeper(program, Inlining(program)[n])
<1>1. PICK G : G = [n \in Nat |->
                       CHOOSE g : g = [i \in 0 .. n |-> IF i = 0 THEN Unresolved
                                                        ELSE Deeper(program, g[i - 1])]]
  OBVIOUS
<1>2. ASSUME NEW n \in Nat, NEW i \in 0 .. n
      PROVE  G[n][i] = IF i = 0 THEN Unresolved ELSE Deeper(program, G[n][i - 1])
  <2>1. G[n] = CHOOSE g : g = [j \in 0 .. n |-> IF j = 0 THEN Unresolved
                                                ELSE Deeper(program, g[j - 1])]
    BY <1>1
  <2>2. PICK g : g = G[n]
    OBVIOUS
  <2>3. g = [j \in 0 .. n |-> IF j = 0 THEN Unresolved ELSE Deeper(program, g[j - 1])]
    <3>1. \E h : h = [j \in 0 .. n |-> IF j = 0 THEN Unresolved
                                               ELSE Deeper(program, h[j - 1])]
      BY InliningUpTo, Zenon
    <3>. QED  BY <2>1, <2>2, <3>1, Zenon
  <2>4. g[i] = IF i = 0 THEN Unresolved ELSE Deeper(program, g[i - 1])
    BY <2>3
  <2>. QED  BY <2>2, <2>4
<1>3. \A n \in Nat : G[n][0] = Unresolved
  <2>1. ASSUME NEW n \in Nat PROVE G[n][0] = Unresolved
    <3>1. 0 \in 0 .. n
      OBVIOUS
    <3>. QED  BY <1>2, <3>1
  <2>. QED  BY <2>1
<1>4. \A i, n \in Nat : i + 1 <= n => G[n][i + 1] = Deeper(program, G[n][i])
  <2>1. ASSUME NEW i \in Nat, NEW n \in Nat, i + 1 <= n
        PROVE  G[n][i + 1] = Deeper(program, G[n][i])
    <3>1. PICK j \in 0 .. n : j = i + 1
      BY <2>1
    <3>2. j # 0 /\ j - 1 = i
      BY <3>1
    <3>3. G[n][j] = Deeper(program, G[n][j - 1])
      BY <1>2, <3>2
    <3>. QED  BY <3>1, <3>2, <3>3
  <2>. QED  BY <2>1
\* Two of them agree as far as both of them go.
<1>5. \A i \in Nat : \A n, m \in Nat : i <= n /\ i <= m => G[n][i] = G[m][i]
  <2>1. PICK T : T = {i \in Nat : \A n, m \in Nat : i <= n /\ i <= m => G[n][i] = G[m][i]}
    OBVIOUS
  <2>2. 0 \in T
    BY <1>3, <2>1
  <2>3. ASSUME NEW i \in Nat, i \in T PROVE i + 1 \in T
    <3>1. \A n, m \in Nat : i + 1 <= n /\ i + 1 <= m => G[n][i] = G[m][i]
      BY <2>1, <2>3
    <3>2. \A n, m \in Nat : i + 1 <= n /\ i + 1 <= m => G[n][i + 1] = G[m][i + 1]
      BY <1>4, <3>1
    <3>. QED  BY <2>1, <3>2
  <2>4. \A i \in Nat : i \in T
    BY <2>2, <2>3, SetInduction
  <2>. QED  BY <2>1, <2>4
<1>6. PICK F : F = [n \in Nat |-> G[n][n]]
  OBVIOUS
<1>7. F[0] = Unresolved
  BY <1>3, <1>6
<1>8. \A n \in Nat : F[n + 1] = Deeper(program, F[n])
  <2>1. ASSUME NEW n \in Nat PROVE F[n + 1] = Deeper(program, F[n])
    <3>1. G[n + 1][n + 1] = Deeper(program, G[n + 1][n])
      BY <1>4
    <3>2. G[n + 1][n] = G[n][n]
      BY <1>5
    <3>3. F[n + 1] = G[n + 1][n + 1] /\ F[n] = G[n][n]
      BY <1>6
    <3>. QED  BY <3>1, <3>2, <3>3
  <2>. QED  BY <2>1
<1>9. F = [n \in Nat |-> IF n = 0 THEN Unresolved ELSE Deeper(program, F[n - 1])]
  <2>1. ASSUME NEW n \in Nat
        PROVE  F[n] = IF n = 0 THEN Unresolved ELSE Deeper(program, F[n - 1])
    <3>1. CASE n = 0
      BY <1>7, <3>1
    <3>2. CASE n # 0
      <4>1. PICK k \in Nat : k = n - 1
        BY <3>2
      <4>2. n = k + 1
        BY <4>1
      <4>3. F[k + 1] = Deeper(program, F[k])
        BY <1>8
      <4>. QED  BY <3>2, <4>1, <4>2, <4>3
    <3>. QED  BY <3>1, <3>2
  <2>. QED  BY <1>6, <2>1
<1>10. Inlining(program) = [n \in Nat |-> IF n = 0 THEN Unresolved
                                               ELSE Deeper(program, Inlining(program)[n - 1])]
  BY <1>9 DEF Inlining
<1>11. Inlining(program)[0] = Unresolved
  BY <1>10
<1>12. ASSUME NEW n \in Nat
       PROVE  Inlining(program)[n + 1] = Deeper(program, Inlining(program)[n])
  <2>1. PICK k \in Nat : k = n + 1
    OBVIOUS
  <2>2. k # 0 /\ k - 1 = n
    BY <2>1
  <2>3. Inlining(program)[k] = Deeper(program, Inlining(program)[k - 1])
    BY <1>10, <2>2
  <2>. QED  BY <2>1, <2>2, <2>3
<1>. QED  BY <1>11, <1>12

\* One statement more.
Longer(stmts, inlined, k, text) == text \o Piece(stmts[k], inlined)

\* The beginnings up to a length exist.
LEMMA BeginningsUpTo ==
    ASSUME NEW s, NEW l, NEW n \in Nat
    PROVE  \E g : g = [i \in 0 .. n |-> IF i = 0 THEN <<>>
                                                 ELSE Longer(s, l, i, g[i - 1])]
<1>1. PICK S : S = {k \in Nat : \E g : g = [i \in 0 .. k |-> IF i = 0 THEN <<>>
                                                           ELSE Longer(s, l, i, g[i - 1])]}
  OBVIOUS
<1>2. 0 \in S
  <2>1. PICK g : g = [i \in 0 .. 0 |-> <<>>]
    OBVIOUS
  <2>2. g = [i \in 0 .. 0 |-> IF i = 0 THEN <<>> ELSE Longer(s, l, i, g[i - 1])]
    BY <2>1
  <2>. QED  BY <1>1, <2>2
<1>3. ASSUME NEW k \in Nat, k \in S PROVE k + 1 \in S
  <2>1. PICK g : g = [i \in 0 .. k |-> IF i = 0 THEN <<>>
                                                ELSE Longer(s, l, i, g[i - 1])]
    BY <1>1, <1>3
  <2>2. PICK h : h = [i \in 0 .. k + 1 |-> IF i <= k THEN g[i] ELSE Longer(s, l, k + 1, g[k])]
    OBVIOUS
  <2>3. /\ \A i \in 0 .. k : h[i] = g[i]
        /\ h[k + 1] = Longer(s, l, k + 1, g[k]) /\ h[k] = g[k]
    BY <2>2
  <2>4. \A i \in 0 .. k : g[i] = IF i = 0 THEN <<>> ELSE Longer(s, l, i, g[i - 1])
    BY <2>1
  <2>5. ASSUME NEW i \in 0 .. k + 1
        PROVE  h[i] = IF i = 0 THEN <<>> ELSE Longer(s, l, i, h[i - 1])
    <3>1. CASE i = 0
      BY <2>3, <2>4, <3>1
    <3>2. CASE i \in 1 .. k
      <4>1. h[i - 1] = g[i - 1] /\ h[i] = g[i] /\ i \in 0 .. k /\ i # 0
        BY <2>3, <3>2
      <4>. QED  BY <2>4, <4>1
    <3>3. CASE i = k + 1
      <4>1. i - 1 = k /\ i # 0
        BY <3>3
      <4>. QED  BY <2>3, <3>3, <4>1
    <3>. QED  BY <3>1, <3>2, <3>3
  <2>6. h = [i \in 0 .. k + 1 |-> IF i = 0 THEN <<>> ELSE Longer(s, l, i, h[i - 1])]
    BY <2>2, <2>5
  <2>7. k + 1 \in Nat
    OBVIOUS
  <2>. QED  BY <1>1, <2>6, <2>7
<1>4. n \in S
  BY <1>2, <1>3, SetInduction
<1>. QED  BY <1>1, <1>4

\* The beginnings exist, and are computed statement by statement.
LEMMA BeginningsExist ==
    ASSUME NEW s, NEW l
    PROVE  /\ Beginnings(s, l)[0] = <<>>
           /\ \A n \in Nat : Beginnings(s, l)[n + 1] = Longer(s, l, n + 1, Beginnings(s, l)[n])
<1>1. PICK G : G = [n \in Nat |->
                       CHOOSE g : g = [i \in 0 .. n |-> IF i = 0 THEN <<>>
                                                        ELSE Longer(s, l, i, g[i - 1])]]
  OBVIOUS
<1>2. ASSUME NEW n \in Nat, NEW i \in 0 .. n
      PROVE  G[n][i] = IF i = 0 THEN <<>> ELSE Longer(s, l, i, G[n][i - 1])
  <2>1. G[n] = CHOOSE g : g = [j \in 0 .. n |-> IF j = 0 THEN <<>>
                                                ELSE Longer(s, l, j, g[j - 1])]
    BY <1>1
  <2>2. PICK g : g = G[n]
    OBVIOUS
  <2>3. g = [j \in 0 .. n |-> IF j = 0 THEN <<>> ELSE Longer(s, l, j, g[j - 1])]
    BY <2>1, <2>2, BeginningsUpTo, SMTT(60)
  <2>4. g[i] = IF i = 0 THEN <<>> ELSE Longer(s, l, i, g[i - 1])
    BY <2>3
  <2>. QED  BY <2>2, <2>4
<1>3. \A n \in Nat : G[n][0] = <<>>
  <2>1. ASSUME NEW n \in Nat PROVE G[n][0] = <<>>
    <3>1. 0 \in 0 .. n
      OBVIOUS
    <3>. QED  BY <1>2, <3>1
  <2>. QED  BY <2>1
<1>4. \A i, n \in Nat : i + 1 <= n => G[n][i + 1] = Longer(s, l, i + 1, G[n][i])
  <2>1. ASSUME NEW i \in Nat, NEW n \in Nat, i + 1 <= n
        PROVE  G[n][i + 1] = Longer(s, l, i + 1, G[n][i])
    <3>1. PICK j \in 0 .. n : j = i + 1
      BY <2>1
    <3>2. j # 0 /\ j - 1 = i
      BY <3>1
    <3>3. G[n][j] = Longer(s, l, j, G[n][j - 1])
      BY <1>2, <3>2
    <3>. QED  BY <3>1, <3>2, <3>3
  <2>. QED  BY <2>1
\* Two of them agree as far as both of them go.
<1>5. \A i \in Nat : \A n, m \in Nat : i <= n /\ i <= m => G[n][i] = G[m][i]
  <2>1. PICK T : T = {i \in Nat : \A n, m \in Nat : i <= n /\ i <= m => G[n][i] = G[m][i]}
    OBVIOUS
  <2>2. 0 \in T
    BY <1>3, <2>1
  <2>3. ASSUME NEW i \in Nat, i \in T PROVE i + 1 \in T
    <3>1. \A n, m \in Nat : i + 1 <= n /\ i + 1 <= m => G[n][i] = G[m][i]
      BY <2>1, <2>3
    <3>2. \A n, m \in Nat : i + 1 <= n /\ i + 1 <= m => G[n][i + 1] = G[m][i + 1]
      BY <1>4, <3>1
    <3>. QED  BY <2>1, <3>2
  <2>4. \A i \in Nat : i \in T
    BY <2>2, <2>3, SetInduction
  <2>. QED  BY <2>1, <2>4
<1>6. PICK F : F = [n \in Nat |-> G[n][n]]
  OBVIOUS
<1>7. F[0] = <<>>
  BY <1>3, <1>6
<1>8. \A n \in Nat : F[n + 1] = Longer(s, l, n + 1, F[n])
  <2>1. ASSUME NEW n \in Nat PROVE F[n + 1] = Longer(s, l, n + 1, F[n])
    <3>1. G[n + 1][n + 1] = Longer(s, l, n + 1, G[n + 1][n])
      BY <1>4
    <3>2. G[n + 1][n] = G[n][n]
      BY <1>5
    <3>3. F[n + 1] = G[n + 1][n + 1] /\ F[n] = G[n][n]
      BY <1>6
    <3>. QED  BY <3>1, <3>2, <3>3
  <2>. QED  BY <2>1
<1>9. F = [n \in Nat |-> IF n = 0 THEN <<>> ELSE Longer(s, l, n, F[n - 1])]
  <2>1. ASSUME NEW n \in Nat
        PROVE  F[n] = IF n = 0 THEN <<>> ELSE Longer(s, l, n, F[n - 1])
    <3>1. CASE n = 0
      BY <1>7, <3>1
    <3>2. CASE n # 0
      <4>1. PICK k \in Nat : k = n - 1
        BY <3>2
      <4>2. n = k + 1
        BY <4>1
      <4>3. F[k + 1] = Longer(s, l, k + 1, F[k])
        BY <1>8, Zenon
      <4>. QED  BY <3>2, <4>1, <4>2, <4>3
    <3>. QED  BY <3>1, <3>2
  <2>. QED  BY <1>6, <2>1
<1>10. Beginnings(s, l) = [n \in Nat |-> IF n = 0 THEN <<>>
                                               ELSE Longer(s, l, n, Beginnings(s, l)[n - 1])]
  BY <1>9, Zenon DEF Beginnings, Longer
<1>11. Beginnings(s, l)[0] = <<>>
  BY <1>10
<1>12. ASSUME NEW n \in Nat
       PROVE  Beginnings(s, l)[n + 1] = Longer(s, l, n + 1, Beginnings(s, l)[n])
  <2>1. PICK k \in Nat : k = n + 1
    OBVIOUS
  <2>2. k # 0 /\ k - 1 = n
    BY <2>1
  <2>3. Beginnings(s, l)[k] = Longer(s, l, k, Beginnings(s, l)[k - 1])
    BY <1>10, <2>2
  <2>. QED  BY <2>1, <2>2, <2>3
<1>. QED  BY <1>11, <1>12

LEMMA BeginningsSteps ==
    ASSUME NEW s, NEW l
    PROVE  /\ Beginnings(s, l)[0] = <<>>
           /\ \A k \in Nat : Beginnings(s, l)[k + 1] = Beginnings(s, l)[k] \o Piece(s[k + 1], l)
BY BeginningsExist DEF Longer

-----------------------------------------------------------------------------
(***************************************************************************)
(* The inlined texts.                                                      *)
(***************************************************************************)
Texts(inlined) == \A f \in File : IsSeq(inlined[f])

\* What is resolved in one inlining is the same in the other.
Deepens(l, m) == \A f \in File : Resolved(l[f]) => m[f] = l[f]

LEMMA WithinText ==
    ASSUME NEW inc, NEW text, IsSeq(text)
    PROVE  IsSeq(Within(inc, text)) /\ Len(Within(inc, text)) = Len(text)
<1>1. Len(text) \in Nat /\ DOMAIN text = 1 .. Len(text)
  BY SeqElements
<1>2. PICK w : w = Within(inc, text)
  OBVIOUS
<1>3. w = [i \in 1 .. Len(text) |-> w[i]]
  BY <1>1, <1>2 DEF Within
<1>4. IsSeq(w) /\ Len(w) = Len(text)
  BY <1>1, <1>3, SeqOfFunction
<1>. QED  BY <1>2, <1>4

\* A print block of the included file.
Renamed(inc, path) == [kind |-> "print", expr |-> StandsFor(inc, Head(path)) \o Tail(path)]

LEMMA WithinPieces ==
    ASSUME NEW inc, NEW text, IsSeq(text), NEW i \in 1 .. Len(text)
    PROVE  /\ text[i].kind = "print" => Within(inc, text)[i] = Renamed(inc, text[i].expr)
           /\ text[i].kind # "print" => Within(inc, text)[i] = text[i]
<1>1. i \in DOMAIN text
  BY SeqElements
<1>2. Within(inc, text) =
         [j \in DOMAIN text |->
             IF text[j].kind = "print" THEN Renamed(inc, text[j].expr) ELSE text[j]]
  BY Zenon DEF Within, Renamed
<1>. QED  BY <1>1, <1>2

LEMMA WithinKinds ==
    ASSUME NEW inc, NEW text, IsSeq(text), NEW i \in 1 .. Len(text)
    PROVE  Within(inc, text)[i].kind = text[i].kind
<1>1. CASE text[i].kind = "print"
  <2>1. Within(inc, text)[i] = Renamed(inc, text[i].expr)
    BY <1>1, WithinPieces
  <2>2. Renamed(inc, text[i].expr).kind = "print"
    BY DEF Renamed
  <2>. QED  BY <1>1, <2>1, <2>2
<1>2. CASE text[i].kind # "print"
  BY <1>2, WithinPieces
<1>. QED  BY <1>1, <1>2

\* A statement becomes a text, if the files are to become texts.
LEMMA PieceText ==
    ASSUME NEW p \in Programs, NEW f \in File, NEW j \in 1 .. Len(p[f]),
           NEW l, Texts(l)
    PROVE  IsSeq(Piece(p[f][j], l))
<1>1. CASE p[f][j].kind = "include"
  <2>1. p[f][j].inc.file \in File
    BY <1>1, IncludeAssumption
  <2>2. IsSeq(l[p[f][j].inc.file])
    BY <2>1 DEF Texts
  <2>. QED  BY <1>1, <2>2, WithinText DEF Piece
<1>2. CASE p[f][j].kind # "include"
  <2>1. PICK e : e = Leaf(p[f][j])
    OBVIOUS
  <2>2. <<e>> \in Seq({e})
    OBVIOUS
  <2>3. IsSeq(<<e>>)
    BY <2>2, SeqOfAny
  <2>. QED  BY <1>2, <2>1, <2>3 DEF Piece
<1>. QED  BY <1>1, <1>2

LEMMA Lengths ==
    ASSUME NEW p \in Programs, NEW f \in File
    PROVE  IsSeq(p[f]) /\ Len(p[f]) \in Nat
<1>1. p[f] \in Seq(ToSet(p[f]))
  BY IncludeAssumption
<1>. QED  BY <1>1, SeqElements DEF IsSeq

LEMMA BeginningsText ==
    ASSUME NEW p \in Programs, NEW f \in File, NEW l, Texts(l)
    PROVE  \A k \in 0 .. Len(p[f]) : IsSeq(Beginnings(p[f], l)[k])
<1>0. Len(p[f]) \in Nat
  BY Lengths
<1>1. PICK S : S = {k \in Nat : k <= Len(p[f]) => IsSeq(Beginnings(p[f], l)[k])}
  OBVIOUS
<1>2. 0 \in S
  <2>0. <<>> \in Seq({})
    OBVIOUS
  <2>1. IsSeq(<<>>)
    BY <2>0, SeqOfAny
  <2>2. Beginnings(p[f], l)[0] = <<>>
    BY BeginningsSteps
  <2>. QED  BY <1>1, <2>1, <2>2
<1>3. ASSUME NEW k \in Nat, k \in S PROVE k + 1 \in S
  <2>1. CASE k + 1 <= Len(p[f])
    <3>1. IsSeq(Beginnings(p[f], l)[k])
      BY <1>0, <1>1, <1>3, <2>1
    <3>2. k + 1 \in 1 .. Len(p[f])
      BY <1>0, <2>1
    <3>3. IsSeq(Piece(p[f][k + 1], l))
      BY <3>2, PieceText
    <3>4. IsSeq(Beginnings(p[f], l)[k] \o Piece(p[f][k + 1], l))
      BY <3>1, <3>3, Concatenated
    <3>5. Beginnings(p[f], l)[k + 1] = Beginnings(p[f], l)[k] \o Piece(p[f][k + 1], l)
      BY BeginningsSteps
    <3>6. IsSeq(Beginnings(p[f], l)[k + 1])
      BY <3>4, <3>5
    <3>. QED  BY <1>1, <3>6
  <2>2. CASE ~ (k + 1 <= Len(p[f]))
    BY <1>1, <2>2
  <2>. QED  BY <2>1, <2>2
<1>4. \A k \in Nat : k \in S
  BY <1>2, <1>3, SetInduction
<1>. QED  BY <1>0, <1>1, <1>4

LEMMA InliningText ==
    ASSUME NEW p \in Programs
    PROVE  \A d \in Nat : Texts(Inlining(p)[d])
<1>1. PICK S : S = {d \in Nat : Texts(Inlining(p)[d])}
  OBVIOUS
<1>2. 0 \in S
  <2>1. PICK e : e = [kind |-> "include", expr |-> <<>>]
    OBVIOUS
  <2>2. <<e>> \in Seq({e})
    OBVIOUS
  <2>3. IsSeq(<<e>>)
    BY <2>2, SeqOfAny
  <2>4. \A f \in File : Unresolved[f] = <<e>>
    BY <2>1 DEF Unresolved
  <2>5. Texts(Unresolved)
    BY <2>3, <2>4 DEF Texts
  <2>. QED  BY <1>1, <2>5, InliningSteps
<1>3. ASSUME NEW d \in Nat, d \in S PROVE d + 1 \in S
  <2>1. Texts(Inlining(p)[d])
    BY <1>1, <1>3
  <2>2. ASSUME NEW f \in File PROVE IsSeq(Inlining(p)[d + 1][f])
    <3>1. Inlining(p)[d + 1] = Deeper(p, Inlining(p)[d])
      BY InliningSteps
    <3>2. Inlining(p)[d + 1][f] = Beginnings(p[f], Inlining(p)[d])[Len(p[f])]
      BY <3>1 DEF Deeper
    <3>3. Len(p[f]) \in 0 .. Len(p[f])
      BY Lengths
    <3>. QED  BY <2>1, <3>2, <3>3, BeginningsText
  <2>. QED  BY <1>1, <2>2 DEF Texts
<1>4. \A d \in Nat : d \in S
  BY <1>2, <1>3, SetInduction
<1>. QED  BY <1>1, <1>4

\* A file at a depth: all its statements, at the depth below.
LEMMA InlinedFile ==
    ASSUME NEW p, NEW d \in Nat, NEW f \in File
    PROVE  Inlining(p)[d + 1][f] = Beginnings(p[f], Inlining(p)[d])[Len(p[f])]
<1>1. Inlining(p)[d + 1] = Deeper(p, Inlining(p)[d])
  BY InliningSteps
<1>. QED  BY <1>1 DEF Deeper

\* What a statement becomes stays what it is once it is resolved.
LEMMA PieceKept ==
    ASSUME NEW p \in Programs, NEW f \in File, NEW j \in 1 .. Len(p[f]),
           NEW l, Texts(l), NEW m, Deepens(l, m), Resolved(Piece(p[f][j], l))
    PROVE  Piece(p[f][j], m) = Piece(p[f][j], l)
<1>1. CASE p[f][j].kind = "include"
  <2>1. PICK g, text : g = p[f][j].inc.file /\ text = l[g]
    OBVIOUS
  <2>2. g \in File
    BY <1>1, <2>1, IncludeAssumption
  <2>3. IsSeq(text)
    BY <2>1, <2>2 DEF Texts
  <2>4. /\ IsSeq(Within(p[f][j].inc, text)) /\ Len(Within(p[f][j].inc, text)) = Len(text)
        /\ \A i \in 1 .. Len(text) : Within(p[f][j].inc, text)[i].kind = text[i].kind
    BY <2>3, WithinText, WithinKinds
  <2>5. PICK w : w = Within(p[f][j].inc, text)
    OBVIOUS
  <2>6. DOMAIN w = 1 .. Len(text) /\ DOMAIN text = 1 .. Len(text)
    BY <2>3, <2>4, <2>5, SeqElements
  <2>7. Resolved(text)
    <3>1. Resolved(w)
      BY <1>1, <2>1, <2>5 DEF Piece
    <3>. QED  BY <2>4, <2>5, <2>6, <3>1 DEF Resolved
  <2>8. m[g] = text
    BY <2>1, <2>2, <2>7 DEF Deepens
  <2>. QED  BY <1>1, <2>1, <2>8 DEF Piece
<1>2. CASE p[f][j].kind # "include"
  BY <1>2 DEF Piece
<1>. QED  BY <1>1, <1>2

LEMMA ResolvedParts ==
    ASSUME NEW s, NEW t, IsSeq(s), IsSeq(t)
    PROVE  Resolved(s \o t) <=> Resolved(s) /\ Resolved(t)
<1>1. PICK r : r = s \o t
  OBVIOUS
<1>2. /\ IsSeq(r) /\ Len(r) = Len(s) + Len(t)
      /\ \A i \in 1 .. Len(s) : r[i] = s[i]
      /\ \A i \in 1 .. Len(t) : r[Len(s) + i] = t[i]
  BY <1>1, Concatenated
<1>3. /\ Len(s) \in Nat /\ DOMAIN s = 1 .. Len(s)
      /\ Len(t) \in Nat /\ DOMAIN t = 1 .. Len(t)
      /\ DOMAIN r = 1 .. Len(s) + Len(t)
  BY <1>2, SeqElements
<1>4. ASSUME Resolved(r) PROVE Resolved(s) /\ Resolved(t)
  <2>1. ASSUME NEW i \in 1 .. Len(s) PROVE s[i].kind # "include"
    <3>1. i \in 1 .. Len(s) + Len(t)
      BY <1>3
    <3>. QED  BY <1>2, <1>3, <1>4, <3>1 DEF Resolved
  <2>2. ASSUME NEW i \in 1 .. Len(t) PROVE t[i].kind # "include"
    <3>1. Len(s) + i \in 1 .. Len(s) + Len(t)
      BY <1>3
    <3>. QED  BY <1>2, <1>3, <1>4, <3>1 DEF Resolved
  <2>. QED  BY <1>3, <2>1, <2>2 DEF Resolved
<1>5. ASSUME Resolved(s), Resolved(t) PROVE Resolved(r)
  <2>1. ASSUME NEW i \in 1 .. Len(s) + Len(t) PROVE r[i].kind # "include"
    <3>1. CASE i \in 1 .. Len(s)
      BY <1>2, <1>3, <1>5, <3>1 DEF Resolved
    <3>2. CASE i > Len(s)
      <4>1. PICK k \in 1 .. Len(t) : i = Len(s) + k
        <5>1. i - Len(s) \in 1 .. Len(t) /\ i = Len(s) + (i - Len(s))
          BY <1>3, <3>2
        <5>. QED  BY <5>1
      <4>2. r[Len(s) + k] = t[k]
        BY <1>2
      <4>3. t[k].kind # "include"
        BY <1>3, <1>5 DEF Resolved
      <4>. QED  BY <4>1, <4>2, <4>3
    <3>. QED  BY <1>3, <3>1, <3>2
  <2>. QED  BY <1>3, <2>1 DEF Resolved
<1>. QED  BY <1>1, <1>4, <1>5

LEMMA BeginningsKept ==
    ASSUME NEW p \in Programs, NEW f \in File,
           NEW l, Texts(l), NEW m, Deepens(l, m)
    PROVE  \A k \in 0 .. Len(p[f]) :
              Resolved(Beginnings(p[f], l)[k]) => Beginnings(p[f], m)[k] = Beginnings(p[f], l)[k]
<1>0. Len(p[f]) \in Nat
  BY Lengths
<1>1. PICK S : S = {k \in Nat : k <= Len(p[f]) =>
                       (Resolved(Beginnings(p[f], l)[k]) =>
                           Beginnings(p[f], m)[k] = Beginnings(p[f], l)[k])}
  OBVIOUS
<1>2. 0 \in S
  <2>1. Beginnings(p[f], l)[0] = <<>> /\ Beginnings(p[f], m)[0] = <<>>
    BY BeginningsSteps
  <2>. QED  BY <1>1, <2>1
<1>3. ASSUME NEW k \in Nat, k \in S PROVE k + 1 \in S
  <2>1. ASSUME k + 1 <= Len(p[f]), Resolved(Beginnings(p[f], l)[k + 1])
        PROVE  Beginnings(p[f], m)[k + 1] = Beginnings(p[f], l)[k + 1]
    <3>1. k \in 0 .. Len(p[f]) /\ k + 1 \in 1 .. Len(p[f]) /\ k <= Len(p[f])
      BY <1>0, <2>1
    <3>2. PICK head, piece : head = Beginnings(p[f], l)[k] /\ piece = Piece(p[f][k + 1], l)
      OBVIOUS
    <3>3. IsSeq(head) /\ IsSeq(piece)
      <4>1. IsSeq(Beginnings(p[f], l)[k])
        BY <3>1, BeginningsText
      <4>2. IsSeq(Piece(p[f][k + 1], l))
        BY <3>1, PieceText
      <4>. QED  BY <3>2, <4>1, <4>2
    <3>4. Beginnings(p[f], l)[k + 1] = head \o piece
      BY <3>2, BeginningsSteps
    <3>5. Resolved(head) /\ Resolved(piece)
      BY <2>1, <3>3, <3>4, ResolvedParts
    <3>6. Beginnings(p[f], m)[k] = head
      BY <1>1, <1>3, <3>1, <3>2, <3>5
    <3>7. Piece(p[f][k + 1], m) = piece
      BY <3>1, <3>2, <3>5, PieceKept
    <3>8. Beginnings(p[f], m)[k + 1] = Beginnings(p[f], m)[k] \o Piece(p[f][k + 1], m)
      BY BeginningsSteps
    <3>. QED  BY <3>4, <3>6, <3>7, <3>8
  <2>2. k + 1 \in Nat
    OBVIOUS
  <2>. QED  BY <1>1, <2>1, <2>2
<1>4. \A k \in Nat : k \in S
  BY <1>2, <1>3, SetInduction
<1>. QED  BY <1>0, <1>1, <1>4

\* A file that is resolved at a depth is the same one deeper.
LEMMA InliningDeepens ==
    ASSUME NEW p \in Programs
    PROVE  \A d \in Nat : Deepens(Inlining(p)[d], Inlining(p)[d + 1])
<1>1. PICK S : S = {d \in Nat : Deepens(Inlining(p)[d], Inlining(p)[d + 1])}
  OBVIOUS
<1>2. 0 \in S
  <2>1. PICK e : e = [kind |-> "include", expr |-> <<>>]
    OBVIOUS
  <2>2. \A f \in File : Unresolved[f] = <<e>>
    BY <2>1 DEF Unresolved
  <2>3. 1 \in DOMAIN <<e>> /\ <<e>>[1].kind = "include"
    BY <2>1
  <2>4. \A f \in File : ~ Resolved(Unresolved[f])
    BY <2>2, <2>3 DEF Resolved
  <2>5. Inlining(p)[0] = Unresolved
    BY InliningSteps
  <2>6. Deepens(Inlining(p)[0], Inlining(p)[0 + 1])
    BY <2>4, <2>5 DEF Deepens
  <2>. QED  BY <1>1, <2>6
<1>3. ASSUME NEW d \in Nat, d \in S PROVE d + 1 \in S
  <2>0. d + 1 \in Nat
    OBVIOUS
  <2>1. Deepens(Inlining(p)[d], Inlining(p)[d + 1])
    BY <1>1, <1>3
  <2>2. Texts(Inlining(p)[d])
    BY InliningText
  <2>3. ASSUME NEW f \in File, Resolved(Inlining(p)[d + 1][f])
        PROVE  Inlining(p)[d + 1 + 1][f] = Inlining(p)[d + 1][f]
    <3>1. Inlining(p)[d + 1][f] = Beginnings(p[f], Inlining(p)[d])[Len(p[f])]
      BY InlinedFile
    <3>2. Inlining(p)[d + 1 + 1][f] = Beginnings(p[f], Inlining(p)[d + 1])[Len(p[f])]
      BY <2>0, InlinedFile
    <3>3. Len(p[f]) \in 0 .. Len(p[f])
      BY Lengths
    <3>4. Resolved(Beginnings(p[f], Inlining(p)[d])[Len(p[f])])
      BY <2>3, <3>1
    <3>5. Beginnings(p[f], Inlining(p)[d + 1])[Len(p[f])]
             = Beginnings(p[f], Inlining(p)[d])[Len(p[f])]
      BY <2>1, <2>2, <3>3, <3>4, BeginningsKept
    <3>. QED  BY <3>1, <3>2, <3>5
  <2>4. Deepens(Inlining(p)[d + 1], Inlining(p)[d + 1 + 1])
    BY <2>3 DEF Deepens
  <2>. QED  BY <1>1, <2>0, <2>4
<1>4. \A d \in Nat : d \in S
  BY <1>2, <1>3, SetInduction
<1>. QED  BY <1>1, <1>4

LEMMA InliningKept ==
    ASSUME NEW p \in Programs, NEW d \in Nat, NEW e \in Nat, d <= e
    PROVE  Deepens(Inlining(p)[d], Inlining(p)[e])
<1>1. PICK S : S = {n \in Nat : Deepens(Inlining(p)[d], Inlining(p)[n])}
  OBVIOUS
<1>2. d \in S
  BY <1>1 DEF Deepens
<1>3. ASSUME NEW n \in Nat, n >= d, n \in S PROVE n + 1 \in S
  <2>1. Deepens(Inlining(p)[d], Inlining(p)[n]) /\ n + 1 \in Nat
    BY <1>1, <1>3
  <2>2. Deepens(Inlining(p)[n], Inlining(p)[n + 1])
    BY InliningDeepens
  <2>3. Deepens(Inlining(p)[d], Inlining(p)[n + 1])
    BY <2>1, <2>2 DEF Deepens
  <2>. QED  BY <1>1, <2>1, <2>3
<1>4. \A n \in Nat : n >= d => n \in S
  BY <1>2, <1>3, SetInductionFrom
<1>5. e \in S
  BY <1>4
<1>. QED  BY <1>1, <1>5

-----------------------------------------------------------------------------
(***************************************************************************)
(* Paths, and what the variable at their head stands for.                  *)
(***************************************************************************)
\* What an include block says.
IncOK(inc) ==
    /\ inc.file \in File
    /\ inc.scope # <<>> => IsPath(inc.scope)
    /\ \A v \in DOMAIN inc.mapping : IsPath(inc.mapping[v])

LEMMA PathsJoined ==
    ASSUME NEW S, NEW s \in Seq(S), NEW t \in Seq(S), s # <<>>
    PROVE  IsPath(s \o t)
<1>1. s \o t \in Seq(S) /\ s \o t # <<>>
  OBVIOUS
<1>2. IsSeq(s \o t)
  BY <1>1, SeqOfAny
<1>. QED  BY <1>1, <1>2 DEF IsPath, IsSeq

LEMMA HeadMoved ==
    ASSUME NEW S, NEW s \in Seq(S), NEW t \in Seq(S), t # <<>>
    PROVE  s \o t = Append(s, Head(t)) \o Tail(t)
<1>1. PICK u, v : u = s \o t /\ v = Append(s, Head(t)) \o Tail(t)
  OBVIOUS
<1>2. u \in Seq(S) /\ v \in Seq(S) /\ Len(u) = Len(v)
  BY <1>1
<1>3. ASSUME NEW i \in 1 .. Len(u) PROVE u[i] = v[i]
  <2>1. CASE i <= Len(s)
    BY <1>1, <2>1
  <2>2. CASE i = Len(s) + 1
    BY <1>1, <2>2
  <2>3. CASE i > Len(s) + 1
    BY <1>1, <2>3
  <2>. QED  BY <1>2, <2>1, <2>2, <2>3
<1>. QED  BY <1>1, <1>2, <1>3

LEMMA Substituted ==
    ASSUME NEW inc, IncOK(inc), NEW path, IsPath(path), ~ Unmapped(inc, path)
    PROVE  /\ Subst(inc, path) = StandsFor(inc, Head(path)) \o Tail(path)
           /\ IsPath(Subst(inc, path))
<1>1. PICK P : P = ToSet(path)
  OBVIOUS
<1>2. path \in Seq(P) /\ path # <<>>
  BY <1>1 DEF IsPath
<1>3. CASE inc.scope # <<>>
  <2>1. PICK s : s = inc.scope
    OBVIOUS
  <2>2. PICK S : S = ToSet(s) \cup P
    OBVIOUS
  <2>3. s \in Seq(ToSet(s)) /\ s # <<>>
    BY <1>3, <2>1 DEF IncOK, IsPath
  <2>4. s \in Seq(S) /\ path \in Seq(S)
    BY <1>2, <2>2, <2>3
  <2>5. IsPath(s \o path)
    BY <2>3, <2>4, PathsJoined
  <2>6. s \o path = Append(s, Head(path)) \o Tail(path)
    BY <1>2, <2>4, HeadMoved
  <2>7. Subst(inc, path) = s \o path /\ StandsFor(inc, Head(path)) = Append(s, Head(path))
    BY <1>3, <2>1 DEF Subst, StandsFor
  <2>. QED  BY <2>5, <2>6, <2>7
<1>4. CASE inc.scope = <<>>
  <2>1. PICK s : s = inc.mapping[Head(path)]
    OBVIOUS
  <2>2. Head(path) \in DOMAIN inc.mapping
    BY <1>4 DEF Unmapped
  <2>3. IsPath(s)
    BY <2>1, <2>2 DEF IncOK
  <2>4. s \in Seq(ToSet(s)) /\ s # <<>>
    BY <2>3 DEF IsPath
  <2>5. PICK S : S = ToSet(s) \cup P
    OBVIOUS
  <2>6. s \in Seq(S) /\ path \in Seq(S)
    BY <1>2, <2>4, <2>5
  <2>7. Tail(path) \in Seq(S)
    BY <1>2, <2>6
  <2>8. IsPath(s \o Tail(path))
    BY <2>4, <2>6, <2>7, PathsJoined
  <2>9. /\ Subst(inc, path) = s \o Tail(path)
        /\ StandsFor(inc, Head(path)) = s
    BY <1>4, <2>1 DEF Subst, StandsFor
  <2>. QED  BY <2>8, <2>9
<1>. QED  BY <1>3, <1>4

-----------------------------------------------------------------------------
(***************************************************************************)
(* What activations read.                                                  *)
(***************************************************************************)
\* The text of the first n nodes of a heap h.
Reads(h, nodes, n, text) ==
    Len(text) = n /\ \A j \in 1 .. n : Leaf(h[nodes[j]]) = text[j]

\* The nodes before position at are what became of the first k statements, the others
\* are the statements that follow, as they were parsed.
Walked(h, nodes, at, stmts, k, inlined) ==
    /\ k \in 0 .. Len(stmts)
    /\ Reads(h, nodes, at - 1, Beginnings(stmts, inlined)[k])
    /\ Len(nodes) - (at - 1) = Len(stmts) - k
    /\ \A j \in 1 .. Len(stmts) - k : Verbatim(h[nodes[at - 1 + j]], stmts[k + j])

\* Activation i, f, whose AST has these nodes.
ReadsAt(f, i, h, nodes, program) ==
    /\ f.inc # None => IncOK(f.inc)
    /\ f.stage # "parse" => i <= Len(h)
    /\ f.stage = "walk" =>
          \E k \in Nat : Walked(h, nodes, f.at, program[FileOf(f)], k,
                                Inlining(program)[Len(h) - i])
    /\ f.stage = "resolved" =>
          Reads(h, nodes, Len(nodes), Inlining(program)[Len(h) - i + 1][FileOf(f)])
    /\ f.stage = "done" =>
          Reads(h, nodes, Len(nodes),
                Within(f.inc, Inlining(program)[Len(h) - i + 1][FileOf(f)]))

\* What its walk is over has no include block.
SettledAt(f, h, nodes) ==
    /\ f.stage \in Stages
    /\ f.stage = "walk" => /\ f.at \in 1 .. Len(nodes) + 1
                           /\ \A j \in 1 .. f.at - 1 : h[nodes[j]].kind \in {"raw", "print"}
    /\ f.stage \in {"resolved", "done"} =>
          \A j \in 1 .. Len(nodes) : h[nodes[j]].kind \in {"raw", "print"}

LEMMA SameLeaf ==
    ASSUME NEW m, NEW n, Verbatim(m, n)
    PROVE  Leaf(m) = Leaf(n)
BY DEF Verbatim, Leaf

LEMMA ReadsKept ==
    ASSUME NEW h, NEW g, NEW nodes, NEW n, NEW text, Reads(h, nodes, n, text),
           \A j \in 1 .. n : Verbatim(g[nodes[j]], h[nodes[j]])
    PROVE  Reads(g, nodes, n, text)
<1>1. ASSUME NEW j \in 1 .. n PROVE Leaf(g[nodes[j]]) = text[j]
  <2>1. Leaf(g[nodes[j]]) = Leaf(h[nodes[j]])
    BY SameLeaf
  <2>. QED  BY <2>1 DEF Reads
<1>. QED  BY <1>1 DEF Reads

LEMMA ReadsResolved ==
    ASSUME NEW h, NEW nodes, NEW n, NEW text, Reads(h, nodes, n, text), IsSeq(text),
           \A j \in 1 .. n : h[nodes[j]].kind \in {"raw", "print"}
    PROVE  Resolved(text)
<1>1. ASSUME NEW j \in 1 .. n PROVE text[j].kind # "include"
  <2>1. Leaf(h[nodes[j]]) = text[j]
    BY DEF Reads
  <2>2. Leaf(h[nodes[j]]).kind = h[nodes[j]].kind
    BY DEF Leaf
  <2>. QED  BY <2>1, <2>2
<1>2. DOMAIN text = 1 .. n
  BY SeqElements DEF Reads
<1>. QED  BY <1>1, <1>2 DEF Resolved

LEMMA WithinResolved ==
    ASSUME NEW inc, NEW text, IsSeq(text), Resolved(Within(inc, text))
    PROVE  Resolved(text)
<1>1. PICK w : w = Within(inc, text)
  OBVIOUS
<1>2. IsSeq(w) /\ Len(w) = Len(text)
  BY <1>1, WithinText
<1>3. DOMAIN w = 1 .. Len(text) /\ DOMAIN text = 1 .. Len(text)
  BY <1>2, SeqElements
<1>4. \A i \in 1 .. Len(text) : Within(inc, text)[i].kind = text[i].kind
  BY WithinKinds
<1>5. Resolved(w)
  BY <1>1
<1>. QED  BY <1>1, <1>3, <1>4, <1>5 DEF Resolved

LEMMA WalkedKept ==
    ASSUME NEW p \in Programs, NEW file \in File, NEW c \in Nat, NEW e \in Nat, c <= e,
           NEW h, NEW g, NEW nodes, NEW at, NEW k,
           at \in 1 .. Len(nodes) + 1, Len(nodes) \in Nat,
           Walked(h, nodes, at, p[file], k, Inlining(p)[c]),
           \A j \in 1 .. at - 1 : h[nodes[j]].kind \in {"raw", "print"},
           \A j \in 1 .. Len(nodes) : Verbatim(g[nodes[j]], h[nodes[j]])
    PROVE  Walked(g, nodes, at, p[file], k, Inlining(p)[e])
<1>1. PICK s, text : s = p[file] /\ text = Beginnings(s, Inlining(p)[c])[k]
  OBVIOUS
<1>2. /\ k \in 0 .. Len(s) /\ Reads(h, nodes, at - 1, text)
      /\ Len(nodes) - (at - 1) = Len(s) - k
      /\ \A j \in 1 .. Len(s) - k : Verbatim(h[nodes[at - 1 + j]], s[k + j])
  BY <1>1 DEF Walked
<1>3. Texts(Inlining(p)[c])
  BY InliningText
<1>4. IsSeq(text)
  BY <1>1, <1>2, <1>3, BeginningsText
<1>5. Resolved(text)
  BY <1>2, <1>4, ReadsResolved
<1>6. Deepens(Inlining(p)[c], Inlining(p)[e])
  BY InliningKept
<1>7. Beginnings(s, Inlining(p)[e])[k] = text
  BY <1>1, <1>2, <1>3, <1>5, <1>6, BeginningsKept
<1>8. at - 1 \in Nat /\ at - 1 <= Len(nodes) /\ Len(s) \in Nat
  BY <1>1, Lengths
<1>9. Reads(g, nodes, at - 1, text)
  <2>1. \A j \in 1 .. at - 1 : Verbatim(g[nodes[j]], h[nodes[j]])
    BY <1>8
  <2>. QED  BY <1>2, <2>1, ReadsKept
<1>10. ASSUME NEW j \in 1 .. Len(s) - k PROVE Verbatim(g[nodes[at - 1 + j]], s[k + j])
  <2>1. at - 1 + j \in 1 .. Len(nodes)
    BY <1>2, <1>8
  <2>2. Verbatim(g[nodes[at - 1 + j]], h[nodes[at - 1 + j]])
    BY <2>1
  <2>3. Verbatim(h[nodes[at - 1 + j]], s[k + j])
    BY <1>2
  <2>. QED  BY <2>2, <2>3 DEF Verbatim
<1>. QED  BY <1>1, <1>2, <1>7, <1>9, <1>10 DEF Walked

LEMMA ReadsAtKept ==
    ASSUME NEW p \in Programs, NEW f, FileOf(f) \in File, NEW i \in Nat, NEW h, NEW g,
           NEW nodes, Len(nodes) \in Nat, Len(h) \in Nat, Len(g) \in Nat, Len(h) <= Len(g),
           ReadsAt(f, i, h, nodes, p), SettledAt(f, h, nodes),
           \A j \in 1 .. Len(nodes) : Verbatim(g[nodes[j]], h[nodes[j]])
    PROVE  ReadsAt(f, i, g, nodes, p)
<1>1. PICK file : file = FileOf(f)
  OBVIOUS
<1>2. f.inc # None => IncOK(f.inc)
  BY DEF ReadsAt
<1>3. f.stage # "parse" => i <= Len(h) /\ i <= Len(g)
  BY DEF ReadsAt
<1>4. ASSUME f.stage # "parse"
      PROVE  \E c, e \in Nat : c = Len(h) - i /\ e = Len(g) - i /\ c <= e
  BY <1>3, <1>4
<1>5. ASSUME f.stage = "walk"
      PROVE  \E k \in Nat : Walked(g, nodes, f.at, p[file], k, Inlining(p)[Len(g) - i])
  <2>1. PICK c, e \in Nat : c = Len(h) - i /\ e = Len(g) - i /\ c <= e
    BY <1>4, <1>5
  <2>2. PICK k \in Nat : Walked(h, nodes, f.at, p[file], k, Inlining(p)[c])
    BY <1>1, <1>5, <2>1 DEF ReadsAt
  <2>3. /\ f.at \in 1 .. Len(nodes) + 1
        /\ \A j \in 1 .. f.at - 1 : h[nodes[j]].kind \in {"raw", "print"}
    BY <1>5 DEF SettledAt
  <2>4. Walked(g, nodes, f.at, p[file], k, Inlining(p)[e])
    BY <1>1, <2>1, <2>2, <2>3, WalkedKept
  <2>. QED  BY <2>1, <2>4
<1>6. ASSUME f.stage \in {"resolved", "done"}
      PROVE  \E text : /\ text = Inlining(p)[Len(h) - i + 1][file]
                       /\ IsSeq(text)
                       /\ Resolved(text) => Inlining(p)[Len(g) - i + 1][file] = text
  <2>1. PICK c, e \in Nat : c = Len(h) - i /\ e = Len(g) - i /\ c <= e
    BY <1>4, <1>6
  <2>2. c + 1 \in Nat /\ e + 1 \in Nat /\ c + 1 <= e + 1
    BY <2>1
  <2>3. Deepens(Inlining(p)[c + 1], Inlining(p)[e + 1]) /\ Texts(Inlining(p)[c + 1])
    BY <2>2, InliningKept, InliningText
  <2>. QED  BY <1>1, <2>1, <2>3 DEF Deepens, Texts
<1>7. ASSUME f.stage = "resolved"
      PROVE  Reads(g, nodes, Len(nodes), Inlining(p)[Len(g) - i + 1][file])
  <2>1. PICK text : /\ text = Inlining(p)[Len(h) - i + 1][file]
                    /\ IsSeq(text)
                    /\ Resolved(text) => Inlining(p)[Len(g) - i + 1][file] = text
    BY <1>6, <1>7
  <2>2. Reads(h, nodes, Len(nodes), text)
    BY <1>1, <1>7, <2>1 DEF ReadsAt
  <2>3. Resolved(text)
    BY <1>7, <2>1, <2>2, ReadsResolved DEF SettledAt
  <2>4. Reads(g, nodes, Len(nodes), text)
    BY <2>2, ReadsKept
  <2>. QED  BY <2>1, <2>3, <2>4
<1>8. ASSUME f.stage = "done"
      PROVE  Reads(g, nodes, Len(nodes),
                   Within(f.inc, Inlining(p)[Len(g) - i + 1][file]))
  <2>1. PICK text : /\ text = Inlining(p)[Len(h) - i + 1][file]
                    /\ IsSeq(text)
                    /\ Resolved(text) => Inlining(p)[Len(g) - i + 1][file] = text
    BY <1>6, <1>8
  <2>2. Reads(h, nodes, Len(nodes), Within(f.inc, text))
    BY <1>1, <1>8, <2>1 DEF ReadsAt
  <2>3. IsSeq(Within(f.inc, text))
    BY <2>1, WithinText
  <2>4. Resolved(Within(f.inc, text))
    BY <1>8, <2>2, <2>3, ReadsResolved DEF SettledAt
  <2>5. Resolved(text)
    BY <2>1, <2>4, WithinResolved
  <2>6. Reads(g, nodes, Len(nodes), Within(f.inc, text))
    BY <2>2, ReadsKept
  <2>. QED  BY <2>1, <2>5, <2>6
<1>. QED  BY <1>1, <1>2, <1>3, <1>5, <1>7, <1>8 DEF ReadsAt

LEMMA BeginningsNext ==
    ASSUME NEW s, NEW l, NEW k \in Nat
    PROVE  Beginnings(s, l)[k + 1] = Beginnings(s, l)[k] \o Piece(s[k + 1], l)
BY BeginningsSteps, Zenon

\* What the first n nodes read, and the next ones.
LEMMA ReadsOn ==
    ASSUME NEW h, NEW nodes, NEW n \in Nat, NEW m \in Nat, NEW s, NEW t,
           IsSeq(s), IsSeq(t), Reads(h, nodes, n, s), Len(t) = m,
           \A j \in 1 .. m : Leaf(h[nodes[n + j]]) = t[j]
    PROVE  Reads(h, nodes, n + m, s \o t)
<1>1. PICK r : r = s \o t
  OBVIOUS
<1>2. Len(s) = n /\ \A j \in 1 .. n : Leaf(h[nodes[j]]) = s[j]
  BY DEF Reads
<1>3. /\ IsSeq(r) /\ Len(r) = n + m
      /\ \A j \in 1 .. n : r[j] = s[j]
      /\ \A j \in 1 .. m : r[n + j] = t[j]
  <2>1. Len(s) = n
    BY <1>2
  <2>2. IsSeq(s \o t) /\ Len(s \o t) = Len(s) + Len(t)
    BY Concatenated
  <2>3. \A j \in 1 .. Len(s) : (s \o t)[j] = s[j]
    BY Concatenated
  <2>4. \A j \in 1 .. Len(t) : (s \o t)[Len(s) + j] = t[j]
    BY Concatenated
  <2>. QED  BY <1>1, <2>1, <2>2, <2>3, <2>4, Zenon
<1>4. ASSUME NEW j \in 1 .. n + m PROVE Leaf(h[nodes[j]]) = r[j]
  <2>1. CASE j \in 1 .. n
    BY <1>2, <1>3, <2>1
  <2>2. CASE j > n
    <3>1. PICK i \in 1 .. m : j = n + i
      <4>1. j - n \in 1 .. m /\ j = n + (j - n)
        BY <2>2
      <4>. QED  BY <4>1
    <3>2. Leaf(h[nodes[n + i]]) = t[i] /\ r[n + i] = t[i]
      BY <1>3
    <3>. QED  BY <3>1, <3>2
  <2>. QED  BY <2>1, <2>2
<1>. QED  BY <1>1, <1>3, <1>4 DEF Reads

\* A raw or print block is passed over.
LEMMA WalkedOn ==
    ASSUME NEW p \in Programs, NEW file \in File, NEW l, Texts(l), NEW h, NEW nodes,
           Len(nodes) \in Nat, NEW at \in 1 .. Len(nodes), NEW k,
           Walked(h, nodes, at, p[file], k, l), h[nodes[at]].kind # "include"
    PROVE  Walked(h, nodes, at + 1, p[file], k + 1, l)
<1>1. PICK s, b : s = p[file] /\ b = Len(s)
  OBVIOUS
<1>2. PICK text : text = Beginnings(s, l)[k]
  OBVIOUS
<1>3. /\ k \in 0 .. b /\ Reads(h, nodes, at - 1, text)
      /\ Len(nodes) - (at - 1) = b - k
      /\ \A j \in 1 .. b - k : Verbatim(h[nodes[at - 1 + j]], s[k + j])
  BY <1>1, <1>2 DEF Walked
<1>4. b \in Nat
  BY <1>1, Lengths
<1>5. k \in Nat /\ k + 1 \in 1 .. b /\ 1 \in 1 .. b - k
  BY <1>3, <1>4
<1>6. Verbatim(h[nodes[at]], s[k + 1])
  <2>1. Verbatim(h[nodes[at - 1 + 1]], s[k + 1])
    BY <1>3, <1>5
  <2>2. at - 1 + 1 = at
    OBVIOUS
  <2>. QED  BY <2>1, <2>2
<1>7. PICK leaf : leaf = Leaf(h[nodes[at]])
  OBVIOUS
<1>8. Piece(s[k + 1], l) = <<leaf>>
  <2>1. s[k + 1].kind # "include"
    BY <1>6 DEF Verbatim
  <2>2. Leaf(s[k + 1]) = leaf
    BY <1>6, <1>7, SameLeaf
  <2>. QED  BY <2>1, <2>2 DEF Piece
<1>9. Beginnings(s, l)[k + 1] = text \o <<leaf>>
  <2>1. k \in Nat
    BY <1>5
  <2>2. Beginnings(s, l)[k + 1] = Beginnings(s, l)[k] \o Piece(s[k + 1], l)
    BY <2>1, BeginningsNext, Zenon
  <2>. QED  BY <1>2, <1>8, <2>2, Zenon
<1>10. IsSeq(text)
  BY <1>1, <1>2, <1>3, BeginningsText
<1>11. IsSeq(<<leaf>>) /\ Len(<<leaf>>) = 1
  <2>1. <<leaf>> \in Seq({leaf})
    OBVIOUS
  <2>. QED  BY <2>1, SeqOfAny
<1>12. \A j \in 1 .. 1 : Leaf(h[nodes[at - 1 + j]]) = <<leaf>>[j]
  BY <1>7
<1>13. at - 1 \in Nat /\ 1 \in Nat /\ at - 1 + 1 = at
  OBVIOUS
<1>14. Reads(h, nodes, at - 1 + 1, text \o <<leaf>>)
  BY <1>3, <1>10, <1>11, <1>12, <1>13, ReadsOn
<1>15. ASSUME NEW j \in 1 .. b - (k + 1)
       PROVE  Verbatim(h[nodes[at + 1 - 1 + j]], s[k + 1 + j])
  <2>1. j + 1 \in 1 .. b - k
    BY <1>4, <1>5
  <2>2. at - 1 + (j + 1) = at + 1 - 1 + j /\ k + (j + 1) = k + 1 + j
    BY <1>5
  <2>3. Verbatim(h[nodes[at - 1 + (j + 1)]], s[k + (j + 1)])
    BY <1>3, <2>1
  <2>. QED  BY <2>2, <2>3
<1>16. at + 1 - 1 = at - 1 + 1 /\ k + 1 \in 0 .. b
       /\ Len(nodes) - (at + 1 - 1) = b - (k + 1)
  <2>1. k \in 0 .. b /\ Len(nodes) - (at - 1) = b - k
    BY <1>3, ZenonT(60)
  <2>. QED  BY <1>4, <1>5, <2>1
<1>. QED  BY <1>1, <1>9, <1>14, <1>15, <1>16 DEF Walked

\* r is s with its element a replaced by the elements of t.
Replaced(r, s, t, a) ==
    /\ Len(r) = Len(s) - 1 + Len(t)
    /\ \A j \in 1 .. a - 1 : r[j] = s[j]
    /\ \A j \in 1 .. Len(t) : r[a - 1 + j] = t[j]
    /\ \A j \in a + 1 .. Len(s) : r[j - 1 + Len(t)] = s[j]

\* An include block is replaced by the text it includes.
LEMMA WalkedOver ==
    ASSUME NEW p \in Programs, NEW file \in File, NEW l, Texts(l), NEW h, NEW nodes,
           Len(nodes) \in Nat, NEW at \in 1 .. Len(nodes), NEW k,
           Walked(h, nodes, at, p[file], k, l),
           NEW inc, inc = h[nodes[at]].inc, h[nodes[at]].kind = "include",
           NEW g, g = inc.file, g \in File,
           NEW moved, Len(moved) \in Nat, Reads(h, moved, Len(moved), Within(inc, l[g])),
           NEW r, Replaced(r, nodes, moved, at)
    PROVE  Walked(h, r, at + Len(moved), p[file], k + 1, l)
<1>1. PICK s, b : s = p[file] /\ b = Len(s)
  OBVIOUS
<1>2. PICK text : text = Beginnings(s, l)[k]
  OBVIOUS
<1>3. /\ k \in 0 .. b /\ Reads(h, nodes, at - 1, text)
      /\ Len(nodes) - (at - 1) = b - k
      /\ \A j \in 1 .. b - k : Verbatim(h[nodes[at - 1 + j]], s[k + j])
  BY <1>1, <1>2 DEF Walked
<1>4. b \in Nat
  BY <1>1, Lengths
<1>5. k \in Nat /\ k + 1 \in 1 .. b /\ 1 \in 1 .. b - k
  BY <1>3, <1>4
<1>6. Verbatim(h[nodes[at]], s[k + 1])
  <2>1. Verbatim(h[nodes[at - 1 + 1]], s[k + 1])
    BY <1>3, <1>5
  <2>2. at - 1 + 1 = at
    OBVIOUS
  <2>. QED  BY <2>1, <2>2
<1>7. PICK w, n : w = Within(inc, l[g]) /\ n = Len(moved)
  OBVIOUS
<1>8. Piece(s[k + 1], l) = w
  <2>1. s[k + 1].kind = "include" /\ s[k + 1].inc = inc
    BY <1>6 DEF Verbatim
  <2>. QED  BY <1>7, <2>1 DEF Piece
<1>9. Beginnings(s, l)[k + 1] = text \o w
  <2>1. k \in Nat
    BY <1>5
  <2>2. Beginnings(s, l)[k + 1] = Beginnings(s, l)[k] \o Piece(s[k + 1], l)
    BY <2>1, BeginningsNext, Zenon
  <2>. QED  BY <1>2, <1>8, <2>2, Zenon
<1>10. IsSeq(text)
  BY <1>1, <1>2, <1>3, BeginningsText, SMTT(60)
<1>11. IsSeq(w) /\ Len(w) = n /\ \A j \in 1 .. n : Leaf(h[moved[j]]) = w[j]
  <2>1. IsSeq(l[g])
    BY DEF Texts
  <2>2. IsSeq(w)
    BY <1>7, <2>1, WithinText
  <2>3. Reads(h, moved, n, w)
    BY <1>7
  <2>. QED  BY <2>2, <2>3, Zenon DEF Reads
<1>12. /\ Len(r) = Len(nodes) - 1 + n
       /\ \A j \in 1 .. at - 1 : r[j] = nodes[j]
       /\ \A j \in 1 .. n : r[at - 1 + j] = moved[j]
       /\ \A j \in at + 1 .. Len(nodes) : r[j - 1 + n] = nodes[j]
  BY <1>7 DEF Replaced
<1>13. at - 1 \in Nat /\ n \in Nat
  BY <1>7, SMTT(60)
<1>14. Reads(h, r, at - 1, text)
  BY <1>3, <1>12, Zenon DEF Reads
<1>15. \A j \in 1 .. n : Leaf(h[r[at - 1 + j]]) = w[j]
  BY <1>11, <1>12
<1>16. Reads(h, r, at - 1 + n, text \o w)
  BY <1>10, <1>11, <1>13, <1>14, <1>15, ReadsOn
<1>17. ASSUME NEW j \in 1 .. b - (k + 1)
       PROVE  Verbatim(h[r[at + n - 1 + j]], s[k + 1 + j])
  <2>1. j + 1 \in 1 .. b - k
    BY <1>4, <1>5
  <2>2. /\ at - 1 + (j + 1) = at + j /\ k + (j + 1) = k + 1 + j
        /\ at + j - 1 + n = at + n - 1 + j /\ at + j \in at + 1 .. Len(nodes)
    BY <1>3, <1>4, <1>5, <1>13
  <2>3. Verbatim(h[nodes[at - 1 + (j + 1)]], s[k + (j + 1)])
    BY <1>3, <2>1
  <2>4. r[at + j - 1 + n] = nodes[at + j]
    BY <1>12, <2>2
  <2>. QED  BY <2>2, <2>3, <2>4
<1>18. at + n - 1 = at - 1 + n /\ k + 1 \in 0 .. b
       /\ Len(r) - (at + n - 1) = b - (k + 1)
  <2>1. k \in 0 .. b /\ Len(nodes) - (at - 1) = b - k
    BY <1>3
  <2>2. Len(r) = Len(nodes) - 1 + n
    BY <1>12
  <2>. QED  BY <1>4, <1>5, <1>13, <2>1, <2>2
<1>19. PICK a, m : a = at + n /\ m = k + 1
  OBVIOUS
<1>20. /\ a - 1 = at - 1 + n /\ m \in 0 .. Len(s) /\ Len(r) - (a - 1) = Len(s) - m
       /\ \A j \in 1 .. Len(s) - m : /\ j \in 1 .. b - (k + 1) /\ m + j = k + 1 + j
                                    /\ a - 1 + j = at + n - 1 + j
  BY <1>1, <1>5, <1>13, <1>18, <1>19
<1>21. Walked(h, r, a, s, m, l)
  <2>1. Reads(h, r, a - 1, Beginnings(s, l)[m])
    BY <1>9, <1>16, <1>19, <1>20, Zenon
  <2>2. ASSUME NEW j \in 1 .. Len(s) - m PROVE Verbatim(h[r[a - 1 + j]], s[m + j])
    <3>1. Verbatim(h[r[at + n - 1 + j]], s[k + 1 + j])
      BY <1>17, <1>20, Zenon
    <3>. QED  BY <1>20, <3>1, Zenon
  <2>. QED  BY <1>20, <2>1, <2>2, Zenon DEF Walked
<1>. QED  BY <1>1, <1>7, <1>19, <1>21, Zenon

\* The walk is over.
LEMMA WalkedAll ==
    ASSUME NEW p \in Programs, NEW file \in File, NEW d \in Nat, NEW h, NEW nodes,
           Len(nodes) \in Nat, NEW k,
           Walked(h, nodes, Len(nodes) + 1, p[file], k, Inlining(p)[d])
    PROVE  Reads(h, nodes, Len(nodes), Inlining(p)[d + 1][file])
<1>1. PICK s, b : s = p[file] /\ b = Len(s)
  OBVIOUS
<1>2. /\ k \in 0 .. b /\ Len(nodes) - (Len(nodes) + 1 - 1) = b - k
      /\ Reads(h, nodes, Len(nodes) + 1 - 1, Beginnings(s, Inlining(p)[d])[k])
  BY <1>1 DEF Walked
<1>3. b \in Nat
  BY <1>1, Lengths
<1>4. k = b /\ Len(nodes) + 1 - 1 = Len(nodes)
  BY <1>2, <1>3
<1>5. Inlining(p)[d + 1][file] = Beginnings(s, Inlining(p)[d])[b]
  BY <1>1, InlinedFile
<1>. QED  BY <1>2, <1>4, <1>5

-----------------------------------------------------------------------------
(***************************************************************************)
(* The inlining invariant.                                                 *)
(***************************************************************************)
PathOK(n) ==
    /\ heap[n].kind = "print" => IsPath(heap[n].expr)
    /\ heap[n].kind = "include" => IncOK(heap[n].inc)

TextOK(i) == ReadsAt(stack[i], i, heap, Nodes(stack[i].ptr), files)

\* The block an activation is at is the one that the next activation resolves.
Waiting(i) == stack[i].stage = "walk" /\ stack[i].at <= Len(Nodes(stack[i].ptr))
Link(i) == stack[i + 1].inc = heap[Nodes(stack[i].ptr)[stack[i].at]].inc

TextsKnown ==
    /\ \A n \in 1 .. Len(heap) : PathOK(n)
    /\ \A i \in 1 .. Len(stack) : TextOK(i)
    /\ \A i \in 1 .. Len(stack) - 1 : Link(i)

InlInv ==
    /\ Running /\ thrown = None => TextsKnown
    /\ ResolvedIsInlining

LEMMA FrameFile ==
    ASSUME NEW i \in 1 .. Len(stack), FrameOK(i)
    PROVE  FileOf(stack[i]) \in File
BY IncludeAssumption DEF FrameOK, FileOf

LEMMA FrameNodes ==
    ASSUME HeapOK, NEW i \in 1 .. Len(stack), FrameOK(i), stack[i].stage # "parse"
    PROVE  /\ stack[i].ptr \in 1 .. Len(heap) /\ Owned(i) = Tree(stack[i].ptr)
           /\ stack[i].ptr \in Owned(i)
           /\ Nodes(stack[i].ptr) \in Seq(Nat) /\ Len(Nodes(stack[i].ptr)) \in Nat
           /\ \A k \in 1 .. Len(Nodes(stack[i].ptr)) : Nodes(stack[i].ptr)[k] \in Owned(i)
<1>1. stack[i].ptr \in 1 .. Len(heap) /\ Owned(i) = Tree(stack[i].ptr)
  BY OwnedNodes
<1>. QED  BY <1>1, NodesOfTree

LEMMA FrameSettled ==
    ASSUME HeapOK, NEW i \in 1 .. Len(stack), FrameOK(i)
    PROVE  SettledAt(stack[i], heap, Nodes(stack[i].ptr))
BY DEF FrameOK, SettledAt, Settled

LEMMA SameNodes ==
    ASSUME NEW p, heap'[p].kind = heap[p].kind, heap'[p].kids = heap[p].kids
    PROVE  Nodes(p)' = Nodes(p)
BY DEF Nodes

\* A text is kept by a step that leaves the activation and its tree alone.
LEMMA OtherReads ==
    ASSUME IncInv, Running, files' = files, NEW i \in 1 .. Len(stack), TextOK(i),
           stack'[i] = stack[i], Len(heap') \in Nat, Len(heap) <= Len(heap'),
           \A n \in Owned(i) : heap'[n] = heap[n]
    PROVE  TextOK(i)'
<1>1. /\ HeapOK /\ FrameOK(i) /\ files \in Programs /\ Len(heap) \in Nat /\ i \in Nat
      /\ FileOf(stack[i]) \in File
  BY TopFrame, FrameFile DEF IncInv, StackOK
<1>2. PICK f, nodes : f = stack[i] /\ nodes = Nodes(stack[i].ptr)
  OBVIOUS
<1>3. ReadsAt(f, i, heap, nodes, files)
  BY <1>2 DEF TextOK
<1>4. CASE f.stage = "parse"
  <2>1. f.inc # None => IncOK(f.inc)
    BY <1>3 DEF ReadsAt
  <2>2. ReadsAt(f, i, heap', Nodes(stack[i].ptr)', files)
    BY <1>4, <2>1 DEF ReadsAt
  <2>. QED  BY <1>2, <2>2 DEF TextOK
<1>5. CASE f.stage # "parse"
  <2>1. /\ stack[i].ptr \in Owned(i) /\ Len(nodes) \in Nat
        /\ \A k \in 1 .. Len(nodes) : nodes[k] \in Owned(i)
    BY <1>1, <1>2, <1>5, FrameNodes
  <2>2. PICK p : p = stack[i].ptr
    OBVIOUS
  <2>3. Nodes(p)' = Nodes(p)
    BY <2>1, <2>2, SameNodes
  <2>4. \A k \in 1 .. Len(nodes) : Verbatim(heap'[nodes[k]], heap[nodes[k]])
    BY <2>1 DEF Verbatim
  <2>5. SettledAt(f, heap, nodes)
    BY <1>1, <1>2, FrameSettled
  <2>6. ReadsAt(f, i, heap', nodes, files)
    BY <1>1, <1>2, <1>3, <2>1, <2>4, <2>5, ReadsAtKept
  <2>7. Nodes(stack[i].ptr)' = nodes
    BY <1>2, <2>2, <2>3
  <2>. QED  BY <1>2, <2>6, <2>7 DEF TextOK
<1>. QED  BY <1>4, <1>5

LEMMA OtherLinks ==
    ASSUME IncInv, Running, NEW i \in 1 .. Len(stack), Waiting(i),
           stack'[i] = stack[i],
           stack'[i + 1].inc = heap[Nodes(stack[i].ptr)[stack[i].at]].inc,
           \A n \in Owned(i) : heap'[n] = heap[n]
    PROVE  Link(i)'
<1>1. HeapOK /\ FrameOK(i)
  BY DEF IncInv, StackOK
<1>2. /\ stack[i].ptr \in Owned(i)
      /\ \A k \in 1 .. Len(Nodes(stack[i].ptr)) : Nodes(stack[i].ptr)[k] \in Owned(i)
      /\ Len(Nodes(stack[i].ptr)) \in Nat
  BY <1>1, FrameNodes DEF Waiting
<1>3. stack[i].at \in 1 .. Len(Nodes(stack[i].ptr))
  BY <1>1, <1>2 DEF Waiting, FrameOK
<1>4. PICK p, n : p = stack[i].ptr /\ n = Nodes(p)[stack[i].at]
  OBVIOUS
<1>5. Nodes(p)' = Nodes(p)
  BY <1>2, <1>4, SameNodes
<1>6. heap'[n] = heap[n]
  BY <1>2, <1>3, <1>4
<1>7. Nodes(stack[i].ptr)' = Nodes(p)
  BY <1>4, <1>5
<1>8. stack'[i + 1].inc = heap'[n].inc
  BY <1>4, <1>6
<1>. QED  BY <1>4, <1>7, <1>8 DEF Link

\* What the activations from e on own changes, and all are known that were.
LEMMA UpperReads ==
    ASSUME IncInv, Running, TextsKnown, files' = files, NEW e \in 1 .. Len(stack) + 1,
           Len(stack') = e, \A i \in 1 .. e - 1 : stack'[i] = stack[i],
           Len(heap') \in Nat, Len(heap) <= Len(heap'),
           \A n \in 1 .. Len(heap) :
              (\A j \in e .. Len(stack) : n \notin Owned(j)) => heap'[n] = heap[n],
           \A n \in 1 .. Len(heap') : PathOK(n)', TextOK(e)',
           e > 1 => /\ Waiting(e - 1)
                    /\ stack'[e].inc = heap[Nodes(stack[e - 1].ptr)[stack[e - 1].at]].inc
    PROVE  TextsKnown'
<1>1. Len(stack) \in Nat /\ HeapOK
  BY TopFrame DEF IncInv
<1>2. ASSUME NEW i \in 1 .. e - 1
      PROVE  /\ i \in 1 .. Len(stack) /\ stack'[i] = stack[i]
             /\ \A n \in Owned(i) : heap'[n] = heap[n]
  <2>1. i \in 1 .. Len(stack) /\ stack'[i] = stack[i]
    BY <1>1
  <2>2. ASSUME NEW n \in Owned(i) PROVE heap'[n] = heap[n]
    <3>1. n \in 1 .. Len(heap)
      BY <1>1, <2>1, OwnedNodes DEF IncInv, StackOK
    <3>2. ASSUME NEW j \in e .. Len(stack) PROVE n \notin Owned(j)
      <4>1. j \in 1 .. Len(stack) /\ i # j
        BY <1>1
      <4>2. Owned(i) \cap Owned(j) = {}
        BY <2>1, <4>1 DEF IncInv, Disjoint
      <4>. QED  BY <4>2
    <3>. QED  BY <3>1, <3>2
  <2>. QED  BY <2>1, <2>2
<1>3. ASSUME NEW i \in 1 .. e - 1 PROVE TextOK(i)'
  <2>1. TextOK(i)
    BY <1>2 DEF TextsKnown
  <2>. QED  BY <1>2, <2>1, OtherReads
<1>4. ASSUME NEW i \in 1 .. e - 1 PROVE Link(i)'
  <2>1. CASE i = e - 1
    BY <1>1, <1>2, <2>1, OtherLinks
  <2>2. CASE i < e - 1
    <3>1. /\ i + 1 \in 1 .. e - 1 /\ i \in 1 .. Len(stack) - 1 /\ i < Len(stack)
      BY <1>1, <2>2
    <3>2. FrameOK(i) /\ Link(i)
      BY <3>1 DEF IncInv, StackOK, TextsKnown
    <3>3. Waiting(i)
      BY <3>1, <3>2 DEF FrameOK, Waiting
    <3>4. stack'[i + 1].inc = heap[Nodes(stack[i].ptr)[stack[i].at]].inc
      BY <3>1, <3>2 DEF Link
    <3>. QED  BY <1>2, <3>3, <3>4, OtherLinks
  <2>. QED  BY <1>1, <2>1, <2>2
<1>5. ASSUME NEW i \in 1 .. Len(stack') PROVE TextOK(i)'
  <2>1. CASE i = e
    BY <2>1
  <2>2. CASE i # e
    BY <1>1, <1>3, <2>2
  <2>. QED  BY <2>1, <2>2
<1>6. \A n \in 1 .. Len(heap)' : PathOK(n)'
  OBVIOUS
<1>7. \A i \in 1 .. Len(stack)' : TextOK(i)'
  BY <1>5
<1>8. \A i \in 1 .. Len(stack)' - 1 : Link(i)'
  BY <1>4
<1>. QED  BY <1>6, <1>7, <1>8 DEF TextsKnown

\* Steps of the last activation, or after which it is gone.
LEMMA LastReads ==
    ASSUME IncInv, Running, TextsKnown, files' = files, NEW e \in 1 .. Len(stack),
           Len(stack') = e, \A i \in 1 .. e - 1 : stack'[i] = stack[i],
           stack'[e].inc = stack[e].inc, Len(heap') \in Nat, Len(heap) <= Len(heap'),
           \A n \in 1 .. Len(heap) :
              (\A j \in e .. Len(stack) : n \notin Owned(j)) => heap'[n] = heap[n],
           \A n \in 1 .. Len(heap') : PathOK(n)', TextOK(e)'
    PROVE  TextsKnown'
<1>1. Len(stack) \in Nat /\ e \in 1 .. Len(stack) + 1
  BY TopFrame
<1>2. ASSUME e > 1
      PROVE  /\ Waiting(e - 1)
             /\ stack'[e].inc = heap[Nodes(stack[e - 1].ptr)[stack[e - 1].at]].inc
  <2>1. PICK c : c = e - 1
    OBVIOUS
  <2>2. /\ c \in 1 .. Len(stack) /\ c \in 1 .. Len(stack) - 1 /\ c < Len(stack)
        /\ c + 1 = e
    BY <1>1, <1>2, <2>1
  <2>3. FrameOK(c) /\ Link(c)
    BY <2>2 DEF IncInv, StackOK, TextsKnown
  <2>4. Waiting(c)
    BY <2>2, <2>3 DEF FrameOK, Waiting
  <2>. QED  BY <2>1, <2>2, <2>3, <2>4 DEF Link
<1>. QED  BY <1>1, <1>2, UpperReads

LEMMA SameFile ==
    ASSUME NEW f, NEW g, f.inc = g.inc
    PROVE  FileOf(f) = FileOf(g)
BY DEF FileOf

\* The inlining one activation's walk reads from.
LEMMA WalkReads ==
    ASSUME IncInv, NEW i \in 1 .. Len(stack), TextOK(i), stack[i].stage = "walk"
    PROVE  /\ Len(heap) - i \in Nat /\ i <= Len(heap)
           /\ Texts(Inlining(files)[Len(heap) - i])
           /\ \E k \in Nat : Walked(heap, Nodes(stack[i].ptr), stack[i].at,
                                    files[FileOf(stack[i])], k,
                                    Inlining(files)[Len(heap) - i])
<1>1. Len(heap) \in Nat /\ files \in Programs
  BY SeqElements DEF IncInv, HeapOK, StackOK
<1>2. i <= Len(heap)
  BY DEF TextOK, ReadsAt
<1>3. Len(heap) - i \in Nat
  BY <1>1, <1>2
<1>4. Texts(Inlining(files)[Len(heap) - i])
  BY <1>1, <1>3, InliningText
<1>5. \E k \in Nat : Walked(heap, Nodes(stack[i].ptr), stack[i].at,
                            files[FileOf(stack[i])], k, Inlining(files)[Len(heap) - i])
  BY Zenon DEF TextOK, ReadsAt
<1>. QED  BY <1>2, <1>3, <1>4, <1>5

LEMMA TextSet ==
    ASSUME NEW d, NEW f, stack'[d] = f, NEW nodes, NEW p, p = f.ptr, Nodes(p)' = nodes,
           files' = files, ReadsAt(f, d, heap', nodes, files)
    PROVE  TextOK(d)'
BY DEF TextOK, Nodes

LEMMA SkipNodeReads ==
    ASSUME IncInv, TextsKnown, SkipNode
    PROVE  TextsKnown'
<1>. DEFINE f == [Top EXCEPT !.at = @ + 1]
<1>0. PICK d, nodes, at, n : /\ d = Len(stack) /\ nodes = Nodes(Top.ptr) /\ at = Top.at
                             /\ n = Len(heap)
  OBVIOUS
<1>1. /\ Running /\ UNCHANGED <<files, heap, deletes, thrown, outcome>>
      /\ stack' = SetTop(f) /\ Top.stage = "walk" /\ at <= Len(nodes)
      /\ heap[nodes[at]].kind # "include"
  BY <1>0, SMTT(60) DEF SkipNode, Walking, AtNode, NodeAt
<1>2. /\ d \in Nat /\ d \in 1 .. d /\ d \in 1 .. Len(stack) /\ Top = stack[d] /\ FrameOK(d)
      /\ n \in Nat /\ HeapOK /\ files \in Programs /\ DOMAIN Top = {"inc", "ptr", "at", "stage"}
  BY <1>0, <1>1, TopFrame DEF IncInv, FrameOK, StackOK
<1>3. f.at = at + 1 /\ f.ptr = Top.ptr /\ f.inc = Top.inc /\ f.stage = "walk"
  BY <1>0, <1>1, <1>2
<1>. HIDE DEF f
<1>4. Len(stack') = d /\ stack'[d] = f /\ \A i \in 1 .. d - 1 : stack'[i] = stack[i]
  BY <1>0, <1>1, TopSet
<1>5. Len(nodes) \in Nat /\ at \in 1 .. Len(nodes)
  <2>1. Len(Nodes(stack[d].ptr)) \in Nat
    BY <1>1, <1>2, FrameNodes
  <2>2. at \in 1 .. Len(nodes) + 1
    BY <1>0, <1>1, <1>2 DEF FrameOK
  <2>. QED  BY <1>0, <1>1, <1>2, <2>1, <2>2
<1>6. PICK file, l : file = FileOf(Top) /\ l = Inlining(files)[n - d]
  OBVIOUS
<1>7. file \in File
  BY <1>2, <1>6, FrameFile
<1>8. TextOK(d)
  BY <1>2 DEF TextsKnown
<1>9. PICK k \in Nat : /\ Walked(heap, nodes, at, files[file], k, l)
                       /\ Texts(l) /\ d <= n
  <2>1. d \in 1 .. Len(stack) /\ stack[d].stage = "walk"
    BY <1>1, <1>2
  <2>2. /\ d <= Len(heap) /\ Texts(Inlining(files)[Len(heap) - d])
        /\ \E k \in Nat : Walked(heap, Nodes(stack[d].ptr), stack[d].at,
                                 files[FileOf(stack[d])], k,
                                 Inlining(files)[Len(heap) - d])
    BY <1>8, <2>1, WalkReads
  <2>3. PICK k \in Nat : Walked(heap, nodes, at, files[file], k, l)
    BY <1>0, <1>2, <1>6, <2>2, Zenon
  <2>. QED  BY <1>0, <1>6, <2>2, <2>3
<1>10. Walked(heap, nodes, at + 1, files[file], k + 1, l) /\ k + 1 \in Nat
  <2>1. /\ files \in Programs /\ file \in File /\ Texts(l) /\ Len(nodes) \in Nat
        /\ at \in 1 .. Len(nodes) /\ Walked(heap, nodes, at, files[file], k, l)
        /\ heap[nodes[at]].kind # "include"
    BY <1>1, <1>2, <1>5, <1>7, <1>9
  <2>2. Walked(heap, nodes, at + 1, files[file], k + 1, l)
    BY <2>1, WalkedOn
  <2>. QED  BY <2>2
<1>11. ReadsAt(f, d, heap, nodes, files)
  <2>1. FileOf(f) = file
    BY <1>3, <1>6, SameFile
  <2>2. f.inc # None => IncOK(f.inc)
    BY <1>2, <1>3, <1>8 DEF TextOK, ReadsAt
  <2>3. \E j \in Nat : Walked(heap, nodes, f.at, files[FileOf(f)], j,
                              Inlining(files)[Len(heap) - d])
    BY <1>0, <1>3, <1>6, <1>10, <2>1
  <2>. QED  BY <1>0, <1>3, <1>9, <2>2, <2>3 DEF ReadsAt
<1>12. TextOK(d)'
  <2>1. PICK p : p = Top.ptr
    OBVIOUS
  <2>2. Nodes(p)' = Nodes(p) /\ heap' = heap
    BY <1>1 DEF Nodes
  <2>. QED  BY <1>0, <1>1, <1>3, <1>4, <1>11, <2>1, <2>2, TextSet
<1>13. \A m \in 1 .. Len(heap') : PathOK(m)'
  BY <1>1 DEF TextsKnown, PathOK
<1>. QED  BY <1>0, <1>1, <1>2, <1>3, <1>4, <1>12, <1>13, LastReads

-----------------------------------------------------------------------------
(***************************************************************************)
(* Each step keeps the inlining invariant.                                 *)
(***************************************************************************)
LEMMA InitReads == ASSUME Init PROVE InlInv
<1>1. /\ heap = <<>> /\ stack = <<Frame(None)>> /\ thrown = None
      /\ outcome.status = "running"
  BY DEF Init
<1>2. Len(heap) = 0 /\ Len(stack) = 1 /\ stack[1] = Frame(None)
  BY <1>1
<1>3. stack[1].inc = None /\ stack[1].stage = "parse"
  BY <1>2 DEF Frame
<1>4. TextOK(1)
  BY <1>3 DEF TextOK, ReadsAt
<1>5. TextsKnown
  BY <1>2, <1>4 DEF TextsKnown
<1>6. ResolvedIsInlining
  BY <1>1 DEF ResolvedIsInlining
<1>. QED  BY <1>5, <1>6 DEF InlInv

\* The included file's activation has nothing to read yet.
LEMMA EnterIncludeReads ==
    ASSUME IncInv, TextsKnown, EnterInclude
    PROVE  TextsKnown'
<1>. DEFINE f == Frame(heap[NodeAt].inc)
<1>0. PICK d, e, nodes, at, n : /\ d = Len(stack) /\ e = d + 1 /\ nodes = Nodes(Top.ptr)
                                /\ at = Top.at /\ n = nodes[at]
  OBVIOUS
<1>1. /\ Running /\ UNCHANGED <<files, heap, deletes, thrown, outcome>>
      /\ stack' = Append(stack, f) /\ Top.stage = "walk" /\ at <= Len(nodes)
      /\ heap[n].kind = "include"
  BY <1>0 DEF EnterInclude, Walking, AtNode, NodeAt
<1>2. /\ d \in Nat /\ d \in 1 .. Len(stack) /\ Top = stack[d] /\ IsSeq(stack)
      /\ FrameOK(d) /\ Len(heap) \in Nat /\ HeapOK
  BY <1>0, <1>1, TopFrame DEF IncInv
<1>3. f.inc = heap[n].inc /\ f.ptr = NULL /\ f.stage = "parse"
  BY <1>0 DEF Frame, NodeAt
<1>. HIDE DEF f
<1>4. /\ Len(stack') = e /\ stack'[e] = f /\ \A i \in 1 .. d : stack'[i] = stack[i]
  BY <1>0, <1>1, <1>2, Appended
<1>5. /\ Len(nodes) \in Nat /\ at \in 1 .. Len(nodes)
      /\ n \in Owned(d) /\ n \in 1 .. Len(heap)
  <2>1. /\ Len(Nodes(stack[d].ptr)) \in Nat
        /\ \A k \in 1 .. Len(Nodes(stack[d].ptr)) : Nodes(stack[d].ptr)[k] \in Owned(d)
    BY <1>1, <1>2, FrameNodes
  <2>2. at \in 1 .. Len(nodes) + 1
    BY <1>0, <1>1, <1>2 DEF FrameOK
  <2>3. Owned(d) \subseteq 1 .. Len(heap)
    BY <1>2, OwnedNodes
  <2>. QED  BY <1>0, <1>1, <1>2, <2>1, <2>2, <2>3
<1>6. IncOK(f.inc)
  BY <1>1, <1>3, <1>5 DEF TextsKnown, PathOK
<1>7. TextOK(e)'
  <2>1. PICK p, new : p = f.ptr /\ new = Nodes(p)'
    OBVIOUS
  <2>2. ReadsAt(f, e, heap', new, files)
    BY <1>3, <1>6 DEF ReadsAt
  <2>. QED  BY <1>1, <1>4, <2>1, <2>2, TextSet
<1>8. \A m \in 1 .. Len(heap') : PathOK(m)'
  BY <1>1 DEF TextsKnown, PathOK
<1>9. /\ e \in 1 .. Len(stack) + 1 /\ e - 1 = d
      /\ \A i \in 1 .. e - 1 : stack'[i] = stack[i]
  BY <1>0, <1>2, <1>4
<1>10. /\ Waiting(d)
       /\ stack'[e].inc = heap[Nodes(stack[d].ptr)[stack[d].at]].inc
  BY <1>0, <1>1, <1>2, <1>3, <1>4 DEF Waiting
<1>. QED  BY <1>1, <1>2, <1>4, <1>7, <1>8, <1>9, <1>10, UpperReads

\* The walk is over: the AST, folded or not, reads what the file does.
LEMMA FinishWalkReads ==
    ASSUME IncInv, TextsKnown, FinishWalk
    PROVE  TextsKnown'
<1>0. PICK d, p, nodes, n : d = Len(stack) /\ p = Top.ptr /\ nodes = Nodes(p) /\ n = Len(heap)
  OBVIOUS
<1>1. /\ Running /\ files' = files /\ Top.stage = "walk" /\ ~ (Top.at <= Len(nodes))
  BY <1>0 DEF FinishWalk, Walking, AtNode
<1>2. /\ d \in Nat /\ d \in 1 .. Len(stack) /\ Top = stack[d] /\ FrameOK(d) /\ HeapOK
      /\ n \in Nat /\ files \in Programs /\ DOMAIN Top = {"inc", "ptr", "at", "stage"}
  BY <1>0, <1>1, TopFrame DEF IncInv, FrameOK, StackOK
<1>3. /\ p \in Owned(d) /\ p \in 1 .. Len(heap) /\ Len(nodes) \in Nat
      /\ \A k \in 1 .. Len(nodes) : nodes[k] \in 1 .. Len(heap)
  <2>1. p = stack[d].ptr
    BY <1>0, <1>2
  <2>2. p \in Owned(d) /\ p \in 1 .. Len(heap) /\ Len(nodes) \in Nat
    BY <1>0, <1>1, <1>2, <2>1, FrameNodes
  <2>. QED  BY <1>0, <1>2, <2>2, NodesOfTree
<1>4. Top.at = Len(nodes) + 1
  <2>1. Top.at \in 1 .. Len(nodes) + 1
    BY <1>0, <1>1, <1>2 DEF FrameOK
  <2>. QED  BY <1>1, <1>3, <2>1
<1>5. PICK file, c : file = FileOf(Top) /\ c = n - d
  OBVIOUS
<1>6. file \in File /\ TextOK(d)
  BY <1>2, <1>5, FrameFile DEF TextsKnown
<1>7. c \in Nat /\ d <= n /\ Reads(heap, nodes, Len(nodes), Inlining(files)[c + 1][file])
  <2>1. d \in 1 .. Len(stack) /\ stack[d].stage = "walk"
    BY <1>1, <1>2
  <2>2. /\ Len(heap) - d \in Nat /\ d <= Len(heap)
        /\ \E k \in Nat : Walked(heap, Nodes(stack[d].ptr), stack[d].at,
                                 files[FileOf(stack[d])], k,
                                 Inlining(files)[Len(heap) - d])
    BY <1>6, <2>1, WalkReads
  <2>3. PICK k \in Nat : Walked(heap, nodes, Len(nodes) + 1, files[file], k,
                                Inlining(files)[c])
    BY <1>0, <1>2, <1>4, <1>5, <2>2, Zenon
  <2>4. c \in Nat /\ files \in Programs /\ file \in File /\ Len(nodes) \in Nat
    BY <1>0, <1>2, <1>3, <1>5, <1>6, <2>2
  <2>5. Reads(heap, nodes, Len(nodes), Inlining(files)[c + 1][file])
    BY <2>3, <2>4, WalkedAll
  <2>. QED  BY <1>0, <2>2, <2>4, <2>5
<1>8. Top.inc # None => IncOK(Top.inc)
  BY <1>2, <1>6 DEF TextOK, ReadsAt
\* Whatever the AST's root becomes.
<1>9. ASSUME NEW f, NEW q, f.inc = Top.inc, f.ptr = q, f.stage = "resolved",
             Nodes(q)' = nodes, stack' = SetTop(f), Len(heap') = n,
             \A m \in 1 .. n : Verbatim(heap'[m], heap[m]),
             \A m \in 1 .. n : m # p => heap'[m] = heap[m]
      PROVE  TextsKnown'
  <2>1. Len(stack') = d /\ stack'[d] = f /\ \A i \in 1 .. d - 1 : stack'[i] = stack[i]
    BY <1>0, <1>1, <1>9, TopSet
  <2>2. Reads(heap', nodes, Len(nodes), Inlining(files)[c + 1][file])
    <3>1. \A k \in 1 .. Len(nodes) : Verbatim(heap'[nodes[k]], heap[nodes[k]])
      BY <1>0, <1>3, <1>9
    <3>. QED  BY <1>7, <3>1, ReadsKept
  <2>3. ReadsAt(f, d, heap', nodes, files)
    <3>1. FileOf(f) = file /\ Len(heap') - d + 1 = c + 1 /\ d <= Len(heap')
      BY <1>5, <1>7, <1>9, SameFile
    <3>2. f.inc # None => IncOK(f.inc)
      BY <1>8, <1>9
    <3>. QED  BY <1>9, <2>2, <3>1, <3>2 DEF ReadsAt
  <2>4. TextOK(d)'
    BY <1>1, <1>9, <2>1, <2>3, TextSet
  <2>5. ASSUME NEW m \in 1 .. Len(heap') PROVE PathOK(m)'
    <3>1. m \in 1 .. n /\ PathOK(m)
      BY <1>0, <1>9 DEF TextsKnown
    <3>. QED  BY <1>9, <3>1 DEF PathOK, Verbatim
  <2>6. \A m \in 1 .. Len(heap) :
           (\A j \in d .. Len(stack) : m \notin Owned(j)) => heap'[m] = heap[m]
    <3>1. d \in d .. Len(stack)
      BY <1>2
    <3>. QED  BY <1>0, <1>3, <1>9, <3>1
  <2>7. /\ Len(heap') \in Nat /\ Len(heap) <= Len(heap') /\ stack'[d].inc = stack[d].inc
    BY <1>0, <1>2, <1>9, <2>1
  <2>. QED  BY <1>1, <1>2, <2>1, <2>4, <2>5, <2>6, <2>7, LastReads
<1>10. CASE ~ FoldsToChild(p)
  <2>1. PICK f : f = [Top EXCEPT !.stage = "resolved"]
    OBVIOUS
  <2>2. stack' = SetTop(f) /\ heap' = heap
    BY <1>0, <1>10, <2>1 DEF FinishWalk
  <2>3. f.inc = Top.inc /\ f.ptr = p /\ f.stage = "resolved"
    BY <1>0, <1>2, <2>1
  <2>4. Nodes(p)' = nodes
    BY <1>0, <2>2 DEF Nodes
  <2>5. \A m \in 1 .. n : Verbatim(heap'[m], heap[m])
    BY <2>2 DEF Verbatim
  <2>. QED  BY <1>0, <1>9, <2>2, <2>3, <2>4, <2>5
<1>11. CASE FoldsToChild(p)
  <2>0. PICK kid : kid = heap[p].kids[1]
    OBVIOUS
  <2>1. PICK f : f = [Top EXCEPT !.ptr = kid, !.stage = "resolved"]
    OBVIOUS
  <2>2. stack' = SetTop(f) /\ heap' = [heap EXCEPT ![p].kids = <<>>]
    BY <1>0, <1>11, <2>0, <2>1 DEF FinishWalk
  <2>3. f.inc = Top.inc /\ f.ptr = kid /\ f.stage = "resolved"
    BY <1>2, <2>1
  <2>4. heap[p].kind = "stmts" /\ Len(nodes) = 1 /\ nodes = heap[p].kids /\ nodes[1] = kid
    BY <1>0, <1>11, <2>0 DEF FoldsToChild, Nodes
  <2>5. /\ Len(heap') = Len(heap)
        /\ \A m \in 1 .. Len(heap) : /\ heap'[m].kind = heap[m].kind
                                     /\ heap'[m].inc = heap[m].inc
                                     /\ heap'[m].expr = heap[m].expr
        /\ \A m \in 1 .. Len(heap) : m # p => heap'[m] = heap[m]
    BY <1>2, <1>3, <2>2, <2>4, KidsReleased
  <2>6. \A m \in 1 .. n : Verbatim(heap'[m], heap[m])
    BY <1>0, <2>5 DEF Verbatim
  <2>7. Nodes(kid)' = nodes
    <3>1. kid \in 1 .. Len(heap) /\ heap[kid].kind # "stmts"
      <4>1. 1 \in 1 .. Len(nodes)
        BY <2>4
      <4>2. \A k \in 1 .. Len(Nodes(p)) : /\ Nodes(p)[k] \in 1 .. Len(heap)
                                           /\ heap[Nodes(p)[k]].kind # "stmts"
        BY <1>2, <1>3, NodesOfTree
      <4>. QED  BY <1>0, <2>4, <4>1, <4>2
    <3>2. heap'[kid].kind # "stmts"
      BY <2>5, <3>1
    <3>3. nodes \in Seq(Nat)
      BY <1>0, <1>2, <1>3, NodesOfTree
    <3>4. nodes = <<kid>>
      BY <2>4, <3>3
    <3>. QED  BY <3>2, <3>4 DEF Nodes
  <2>. QED  BY <1>0, <1>9, <2>2, <2>3, <2>5, <2>6, <2>7
<1>. QED  BY <1>10, <1>11

LEMMA WithExpr ==
    ASSUME NEW r, NEW v, DOMAIN r = {"kind", "expr", "inc", "kids"}
    PROVE  /\ [r EXCEPT !.expr = v].kind = r.kind /\ [r EXCEPT !.expr = v].inc = r.inc
           /\ [r EXCEPT !.expr = v].kids = r.kids /\ [r EXCEPT !.expr = v].expr = v
OBVIOUS

\* What substitution makes of a print block is what it reads within the include.
LEMMA LeafWithin ==
    ASSUME NEW inc, IncOK(inc), NEW text, IsSeq(text), NEW j \in 1 .. Len(text),
           NEW m, NEW n, Leaf(m) = text[j], m.kind = "print", IsPath(m.expr),
           ~ Unmapped(inc, m.expr), n.kind = "print", n.expr = Subst(inc, m.expr)
    PROVE  Leaf(n) = Within(inc, text)[j]
<1>1. PICK x : x = m.expr
  OBVIOUS
<1>2. text[j].kind = "print" /\ text[j].expr = x
  <2>1. Leaf(m).kind = m.kind /\ Leaf(m).expr = m.expr
    BY DEF Leaf
  <2>. QED  BY <1>1, <2>1
<1>3. Within(inc, text)[j] = Renamed(inc, x)
  <2>1. Within(inc, text)[j] = Renamed(inc, text[j].expr)
    BY <1>2, WithinPieces
  <2>. QED  BY <1>2, <2>1
<1>4. Subst(inc, x) = StandsFor(inc, Head(x)) \o Tail(x)
  BY <1>1, Substituted
<1>5. Leaf(n) = [kind |-> "print", expr |-> Subst(inc, x)]
  BY <1>1 DEF Leaf
<1>. QED  BY <1>3, <1>4, <1>5, Zenon DEF Renamed

\* The variables of the AST are replaced.
LEMMA SubstituteReads ==
    ASSUME IncInv, TextsKnown, Substitute
    PROVE  TextsKnown'
<1>0. PICK d, p, nodes, n, inc : /\ d = Len(stack) /\ p = Top.ptr /\ nodes = Nodes(p)
                                 /\ n = Len(heap) /\ inc = Top.inc
  OBVIOUS
<1>1. /\ Running /\ files' = files /\ Top.stage = "resolved" /\ inc # None
      /\ \A m \in Prints(p) : ~ Unmapped(inc, heap[m].expr)
  BY <1>0 DEF Substitute, Substituting
<1>2. /\ d \in Nat /\ d \in 1 .. Len(stack) /\ Top = stack[d] /\ FrameOK(d) /\ HeapOK
      /\ n \in Nat /\ files \in Programs /\ DOMAIN Top = {"inc", "ptr", "at", "stage"}
  BY <1>0, <1>1, TopFrame DEF IncInv, FrameOK, StackOK
<1>3. /\ p \in 1 .. Len(heap) /\ ~ FoldsToChild(p)
      /\ \A k \in 1 .. Len(nodes) : heap[nodes[k]].kind \in {"raw", "print"}
  <2>1. Top.stage \in {"resolved", "done"}
    BY <1>1
  <2>. QED  BY <1>0, <1>2, <2>1, ResolvedFrame
<1>4. PICK prs : prs = Prints(p)
  OBVIOUS
<1>5. PICK f : f = [Top EXCEPT !.stage = "done"]
  OBVIOUS
<1>6. /\ heap' = [m \in DOMAIN heap |->
                     IF m \in prs THEN [heap[m] EXCEPT !.expr = Subst(inc, @)] ELSE heap[m]]
      /\ stack' = SetTop(f)
  BY <1>0, <1>3, <1>4, <1>5 DEF Substitute
<1>7. f.inc = inc /\ f.ptr = p /\ f.stage = "done"
  BY <1>0, <1>2, <1>5
<1>8. Len(stack') = d /\ stack'[d] = f /\ \A i \in 1 .. d - 1 : stack'[i] = stack[i]
  BY <1>0, <1>1, <1>6, TopSet
<1>9. DOMAIN heap = 1 .. n
  BY <1>0, <1>2, SeqElements DEF HeapOK
<1>10. Len(heap') = n
  <2>1. heap' = [m \in 1 .. n |-> heap'[m]]
    BY <1>6, <1>9
  <2>. QED  BY <1>2, <2>1, SeqOfFunction
<1>11. ASSUME NEW m \in 1 .. n
       PROVE  /\ m \in prs => heap'[m] = [heap[m] EXCEPT !.expr = Subst(inc, heap[m].expr)]
              /\ m \notin prs => heap'[m] = heap[m]
  BY <1>6, <1>9
<1>12. ASSUME NEW m \in 1 .. n
       PROVE  /\ heap'[m].kind = heap[m].kind /\ heap'[m].inc = heap[m].inc
              /\ heap'[m].kids = heap[m].kids
              /\ m \in prs => heap'[m].expr = Subst(inc, heap[m].expr)
  <2>1. DOMAIN heap[m] = {"kind", "expr", "inc", "kids"}
    BY <1>0, <1>2 DEF HeapOK, NodeOK
  <2>2. CASE m \in prs
    <3>1. PICK v : v = Subst(inc, heap[m].expr)
      OBVIOUS
    <3>2. heap'[m] = [heap[m] EXCEPT !.expr = v]
      BY <1>11, <2>2, <3>1
    <3>. QED  BY <2>1, <3>1, <3>2, WithExpr
  <2>3. CASE m \notin prs
    BY <1>11, <2>3
  <2>. QED  BY <2>2, <2>3
<1>13. /\ Len(nodes) \in Nat /\ nodes \in Seq(Nat)
       /\ \A k \in 1 .. Len(nodes) : nodes[k] \in 1 .. n /\ nodes[k] \in Owned(d)
  <2>1. p = stack[d].ptr /\ stack[d].stage # "parse"
    BY <1>0, <1>1, <1>2
  <2>2. nodes \in Seq(Nat) /\ Len(nodes) \in Nat
    BY <1>0, <1>2, <2>1, FrameNodes
  <2>3. \A k \in 1 .. Len(nodes) : nodes[k] \in Owned(d)
    BY <1>0, <1>2, <2>1, FrameNodes
  <2>4. Owned(d) \subseteq 1 .. n
    BY <1>0, <1>2, OwnedNodes
  <2>. QED  BY <2>2, <2>3, <2>4
<1>14. /\ \A m \in prs : \E k \in 1 .. Len(nodes) : m = nodes[k]
       /\ \A k \in 1 .. Len(nodes) : nodes[k] \in prs <=> heap[nodes[k]].kind = "print"
       /\ \A m \in prs : heap[m].kind = "print"
  <2>1. \A k \in 1 .. Len(nodes) : nodes[k] \in ToSet(nodes)
    BY <1>13 DEF ToSet
  <2>2. \A m \in ToSet(nodes) : \E k \in 1 .. Len(nodes) : m = nodes[k]
    BY <1>13 DEF ToSet
  <2>3. prs = {m \in ToSet(nodes) : heap[m].kind = "print"}
    BY <1>0, <1>4 DEF Prints
  <2>. QED  BY <2>1, <2>2, <2>3
<1>15. PICK file, c, text : /\ file = FileOf(Top) /\ c = n - d
                            /\ text = Inlining(files)[c + 1][file]
  OBVIOUS
<1>16. file \in File /\ TextOK(d) /\ IncOK(inc) /\ c \in Nat /\ d <= n
       /\ Reads(heap, nodes, Len(nodes), text)
  <2>1. file \in File /\ TextOK(d)
    BY <1>2, <1>15, FrameFile DEF TextsKnown
  <2>2. ReadsAt(Top, d, heap, nodes, files)
    BY <1>0, <1>2, <2>1 DEF TextOK
  <2>3. IncOK(inc) /\ d <= n
    BY <1>0, <1>1, <2>2 DEF ReadsAt
  <2>4. Reads(heap, nodes, Len(nodes), Inlining(files)[Len(heap) - d + 1][FileOf(Top)])
    BY <1>1, <2>2 DEF ReadsAt
  <2>5. Reads(heap, nodes, Len(nodes), text)
    BY <1>0, <1>15, <2>4
  <2>. QED  BY <1>2, <1>15, <2>1, <2>3, <2>5
<1>17. IsSeq(text) /\ Len(text) = Len(nodes)
  <2>1. Texts(Inlining(files)[c + 1])
    <3>1. c + 1 \in Nat
      BY <1>16
    <3>. QED  BY <1>2, <3>1, InliningText
  <2>2. IsSeq(text)
    BY <1>15, <1>16, <2>1 DEF Texts
  <2>. QED  BY <1>16, <2>2 DEF Reads
<1>18. ASSUME NEW m \in prs
       PROVE  /\ m \in 1 .. n /\ heap'[m].kind = "print" /\ heap[m].kind = "print"
              /\ IsPath(heap[m].expr) /\ ~ Unmapped(inc, heap[m].expr)
              /\ heap'[m].expr = Subst(inc, heap[m].expr)
  <2>1. m \in 1 .. n /\ heap[m].kind = "print"
    BY <1>13, <1>14
  <2>2. IsPath(heap[m].expr)
    BY <1>0, <2>1 DEF TextsKnown, PathOK
  <2>. QED  BY <1>1, <1>4, <1>12, <2>1, <2>2
<1>19. ASSUME NEW j \in 1 .. Len(nodes)
       PROVE  Leaf(heap'[nodes[j]]) = Within(inc, text)[j]
  <2>1. PICK m : m = nodes[j] /\ m \in 1 .. n
    BY <1>13
  <2>2. Leaf(heap[m]) = text[j] /\ j \in 1 .. Len(text)
    BY <1>16, <1>17, <2>1 DEF Reads
  <2>3. CASE m \in prs
    <3>1. /\ heap'[m].kind = "print" /\ heap[m].kind = "print"
          /\ IsPath(heap[m].expr) /\ ~ Unmapped(inc, heap[m].expr)
          /\ heap'[m].expr = Subst(inc, heap[m].expr)
      BY <1>18, <2>3
    <3>2. Leaf(heap'[m]) = Within(inc, text)[j]
      BY <1>16, <1>17, <2>2, <3>1, LeafWithin
    <3>. QED  BY <2>1, <3>2
  <2>4. CASE m \notin prs
    <3>1. heap'[m] = heap[m] /\ heap[m].kind # "print"
      BY <1>11, <1>14, <2>1, <2>4
    <3>2. text[j].kind # "print"
      BY <2>2, <3>1 DEF Leaf
    <3>4. Within(inc, text)[j] = text[j]
      BY <1>17, <2>2, <3>2, WithinPieces
    <3>. QED  BY <2>1, <2>2, <3>1, <3>4
  <2>. QED  BY <2>3, <2>4
<1>20. Reads(heap', nodes, Len(nodes), Within(inc, text))
  <2>1. Len(Within(inc, text)) = Len(nodes)
    BY <1>17, WithinText
  <2>. QED  BY <1>19, <2>1 DEF Reads
<1>21. TextOK(d)'
  <2>1. ReadsAt(f, d, heap', nodes, files)
    <3>1. FileOf(f) = file /\ Len(heap') - d + 1 = c + 1 /\ d <= Len(heap')
      BY <1>0, <1>7, <1>10, <1>15, <1>16, SameFile
    <3>2. Reads(heap', nodes, Len(nodes),
                Within(f.inc, Inlining(files)[Len(heap') - d + 1][FileOf(f)]))
      BY <1>7, <1>15, <1>20, <3>1, Zenon
    <3>. QED  BY <1>7, <1>16, <3>1, <3>2 DEF ReadsAt
  <2>2. Nodes(p)' = nodes
    <3>1. heap'[p].kind = heap[p].kind /\ heap'[p].kids = heap[p].kids
      BY <1>0, <1>3, <1>12
    <3>. QED  BY <1>0, <3>1, SameNodes
  <2>. QED  BY <1>1, <1>7, <1>8, <2>1, <2>2, TextSet
<1>22. ASSUME NEW m \in 1 .. Len(heap') PROVE PathOK(m)'
  <2>1. m \in 1 .. n /\ PathOK(m)
    BY <1>0, <1>10 DEF TextsKnown
  <2>2. CASE m \in prs
    <3>1. IsPath(Subst(inc, heap[m].expr))
      BY <1>16, <1>18, <2>2, Substituted
    <3>. QED  BY <1>18, <2>2, <3>1 DEF PathOK
  <2>3. CASE m \notin prs
    BY <1>11, <2>1, <2>3 DEF PathOK
  <2>. QED  BY <2>2, <2>3
<1>23. \A m \in 1 .. Len(heap) :
          (\A j \in d .. Len(stack) : m \notin Owned(j)) => heap'[m] = heap[m]
  <2>1. d \in d .. Len(stack)
    BY <1>2
  <2>2. \A m \in prs : m \in Owned(d)
    BY <1>13, <1>14
  <2>. QED  BY <1>0, <1>11, <2>1, <2>2
<1>24. /\ Len(heap') \in Nat /\ Len(heap) <= Len(heap') /\ stack'[d].inc = stack[d].inc
  BY <1>0, <1>2, <1>7, <1>8, <1>10
<1>. QED  BY <1>1, <1>2, <1>8, <1>21, <1>22, <1>23, <1>24, LastReads

LEMMA ParsedPath ==
    ASSUME NEW p \in Programs, NEW file \in File, NEW j \in 1 .. Len(p[file]), NEW m,
           Verbatim(m, p[file][j])
    PROVE  /\ m.kind = "print" => IsPath(m.expr)
           /\ m.kind = "include" => IncOK(m.inc)
<1>1. PICK s : s = p[file][j]
  OBVIOUS
<1>2. /\ s.kind = "print" => IsPath(s.expr)
      /\ s.kind = "include" =>
            /\ s.inc.file \in File
            /\ s.inc.scope # <<>> => IsPath(s.inc.scope)
            /\ \A v \in DOMAIN s.inc.mapping : IsPath(s.inc.mapping[v])
  BY <1>1, IncludeAssumption
<1>. QED  BY <1>1, <1>2 DEF Verbatim, IncOK

\* Nothing of the file has been walked over yet.
LEMMA ParseSucceedsReads ==
    ASSUME IncInv, TextsKnown, ParseSucceeds
    PROVE  TextsKnown'
<1>0. PICK d, N, file : d = Len(stack) /\ N = Len(heap) /\ file = FileOf(Top)
  OBVIOUS
<1>1. /\ Running /\ files' = files /\ Top.stage = "parse"
  BY Zenon DEF ParseSucceeds
<1>2. /\ d \in Nat /\ d \in 1 .. Len(stack) /\ Top = stack[d] /\ FrameOK(d) /\ HeapOK
      /\ N \in Nat /\ files \in Programs /\ DOMAIN Top = {"inc", "ptr", "at", "stage"}
      /\ Top.at = 1
  BY <1>0, <1>1, TopFrame DEF IncInv, FrameOK, StackOK
<1>3. file \in File /\ TextOK(d)
  BY <1>0, <1>2, FrameFile DEF TextsKnown
<1>4. PICK s : s = files[file]
  OBVIOUS
<1>5. PICK b \in Nat, len \in Nat :
         /\ Parsed(N, b, len) /\ b = Len(s)
         /\ \A i \in 1 .. b : Verbatim(heap'[N + i], s[i])
  <2>1. \E b \in Nat, len \in Nat :
           /\ Parsed(Len(heap), b, len) /\ b = Len(files[FileOf(Top)])
           /\ \A i \in 1 .. b : Verbatim(heap'[Len(heap) + i], files[FileOf(Top)][i])
    BY IncludeAssumption, ParsedNodes
  <2>. QED  BY <1>0, <1>4, <2>1, Zenon
<1>6. PICK p : p = N + len
  OBVIOUS
<1>7. PICK f : f = [Top EXCEPT !.ptr = p, !.stage = "walk"]
  OBVIOUS
<1>8. stack' = SetTop(f) /\ Len(heap') = p /\ \A n \in 1 .. N : heap'[n] = heap[n]
  BY <1>5, <1>6, <1>7 DEF Parsed
<1>9. f.inc = Top.inc /\ f.ptr = p /\ f.stage = "walk" /\ f.at = 1
  BY <1>2, <1>7
<1>10. Len(stack') = d /\ stack'[d] = f /\ \A i \in 1 .. d - 1 : stack'[i] = stack[i]
  BY <1>0, <1>1, <1>8, TopSet
<1>11. len = (IF b = 1 THEN 1 ELSE b + 1) /\ p \in Nat /\ p > N
  <2>1. len = IF b = 1 THEN 1 ELSE b + 1
    BY <1>5 DEF Parsed
  <2>. QED  BY <1>2, <1>5, <1>6, <2>1
\* The nodes of the new AST are the statements.
<1>12. PICK nodes : nodes = Nodes(p)'
  OBVIOUS
<1>13. /\ b = 1 => heap'[p].kind \in {"raw", "print", "include"}
       /\ b # 1 => heap'[p].kind = "stmts" /\ heap'[p].kids = [i \in 1 .. b |-> N + i]
  <2>1. b = 1 => heap'[N + 1].kind \in {"raw", "print", "include"}
    <3>1. b = 1 => 1 \in 1 .. b
      OBVIOUS
    <3>2. \A i \in 1 .. b : heap'[N + i].kind \in {"raw", "print", "include"}
      BY <1>5, Zenon DEF Parsed
    <3>. QED  BY <3>1, <3>2
  <2>2. b # 1 => /\ heap'[N + len].kind = "stmts"
                 /\ heap'[N + len].kids = [i \in 1 .. b |-> N + i]
    BY <1>5, Zenon DEF Parsed
  <2>3. b = 1 => N + 1 = p
    BY <1>6, <1>11
  <2>. QED  BY <1>6, <2>1, <2>2, <2>3
<1>14. Len(nodes) = b /\ \A i \in 1 .. b : nodes[i] = N + i
  <2>1. CASE b = 1
    <3>1. nodes = <<p>>
      BY <1>12, <1>13, <2>1 DEF Nodes
    <3>2. p = N + 1
      BY <1>6, <1>11, <2>1
    <3>. QED  BY <2>1, <3>1, <3>2
  <2>2. CASE b # 1
    <3>1. nodes = [i \in 1 .. b |-> N + i]
      BY <1>12, <1>13, <2>2 DEF Nodes
    <3>2. nodes = [i \in 1 .. b |-> nodes[i]]
      BY <3>1
    <3>3. Len(nodes) = b
      BY <1>5, <3>2, SeqOfFunction
    <3>. QED  BY <3>1, <3>3
  <2>. QED  BY <2>1, <2>2
<1>15. d <= p
  <2>1. CASE d = 1
    BY <1>2, <1>11, <2>1
  <2>2. CASE d # 1
    <3>1. PICK c : c = d - 1
      OBVIOUS
    <3>2. c \in 1 .. Len(stack) /\ c < Len(stack) /\ c \in Nat /\ c + 1 = d
      BY <1>0, <1>2, <2>2, <3>1
    <3>3. FrameOK(c) /\ TextOK(c)
      BY <3>2 DEF IncInv, StackOK, TextsKnown
    <3>4. stack[c].stage = "walk"
      BY <3>2, <3>3 DEF FrameOK
    <3>5. c <= N
      BY <1>0, <3>3, <3>4 DEF TextOK, ReadsAt
    <3>. QED  BY <1>2, <1>11, <3>2, <3>5
  <2>. QED  BY <2>1, <2>2
<1>16. PICK l : l = Inlining(files)[p - d]
  OBVIOUS
<1>17. Walked(heap', nodes, 1, s, 0, l)
  <2>1. Reads(heap', nodes, 1 - 1, Beginnings(s, l)[0])
    <3>1. Beginnings(s, l)[0] = <<>>
      BY BeginningsSteps
    <3>. QED  BY <3>1 DEF Reads
  <2>2. ASSUME NEW j \in 1 .. Len(s) - 0 PROVE Verbatim(heap'[nodes[1 - 1 + j]], s[0 + j])
    <3>1. j \in 1 .. b /\ 1 - 1 + j = j /\ 0 + j = j
      BY <1>5
    <3>2. Verbatim(heap'[N + j], s[j])
      BY <1>5, <3>1
    <3>3. nodes[j] = N + j
      BY <1>14, <3>1
    <3>. QED  BY <3>1, <3>2, <3>3
  <2>3. 0 \in 0 .. Len(s) /\ Len(nodes) - (1 - 1) = Len(s) - 0
    BY <1>5, <1>14
  <2>. QED  BY <2>1, <2>2, <2>3 DEF Walked
<1>18. TextOK(d)'
  <2>1. f.inc # None => IncOK(f.inc)
    BY <1>2, <1>3, <1>9 DEF TextOK, ReadsAt
  <2>2. FileOf(f) = file
    BY <1>0, <1>9, SameFile
  <2>3. \E k \in Nat : Walked(heap', nodes, f.at, files[FileOf(f)], k,
                              Inlining(files)[Len(heap') - d])
    <3>1. Walked(heap', nodes, f.at, files[FileOf(f)], 0, Inlining(files)[Len(heap') - d])
      BY <1>4, <1>8, <1>9, <1>16, <1>17, <2>2, Zenon
    <3>2. 0 \in Nat
      OBVIOUS
    <3>. QED  BY <3>1, <3>2
  <2>4. ReadsAt(f, d, heap', nodes, files)
    BY <1>8, <1>9, <1>15, <2>1, <2>3 DEF ReadsAt
  <2>. QED  BY <1>1, <1>9, <1>10, <1>12, <2>4, TextSet
<1>19. ASSUME NEW n \in 1 .. Len(heap') PROVE PathOK(n)'
  <2>1. CASE n \in 1 .. N
    BY <1>0, <1>8, <2>1 DEF TextsKnown, PathOK
  <2>2. CASE \E i \in 1 .. b : n = N + i
    <3>1. PICK i \in 1 .. b : n = N + i
      BY <2>2
    <3>2. Verbatim(heap'[n], files[file][i]) /\ i \in 1 .. Len(files[file])
      BY <1>4, <1>5, <3>1
    <3>3. PICK m : m = heap'[n]
      OBVIOUS
    <3>4. /\ m.kind = "print" => IsPath(m.expr)
          /\ m.kind = "include" => IncOK(m.inc)
      BY <1>2, <1>3, <3>2, <3>3, ParsedPath
    <3>. QED  BY <3>3, <3>4 DEF PathOK
  <2>3. CASE n = p /\ b # 1
    BY <1>13, <2>3 DEF PathOK
  <2>4. n \in 1 .. N \/ (\E i \in 1 .. b : n = N + i) \/ (n = p /\ b # 1)
    <3>1. n \in Nat /\ n <= p
      BY <1>8, <1>11
    <3>2. CASE n > N /\ n <= N + b
      <4>1. n - N \in 1 .. b /\ n = N + (n - N)
        BY <1>2, <1>5, <3>1, <3>2
      <4>. QED  BY <4>1
    <3>3. CASE n > N + b
      BY <1>2, <1>5, <1>6, <1>11, <3>1, <3>3, SMTT(60)
    <3>. QED  BY <1>2, <1>5, <3>1, <3>2, <3>3
  <2>. QED  BY <2>1, <2>2, <2>3, <2>4
<1>20. /\ Len(heap') \in Nat /\ Len(heap) <= Len(heap') /\ stack'[d].inc = stack[d].inc
       /\ \A n \in 1 .. Len(heap) : heap'[n] = heap[n]
  BY <1>0, <1>2, <1>8, <1>9, <1>10, <1>11
<1>. QED  BY <1>1, <1>2, <1>10, <1>18, <1>19, <1>20, LastReads

\* run() returns the template that the activation at the bottom has read.
LEMMA ReturnTemplateReads ==
    ASSUME IncInv, TextsKnown, ReturnTemplate
    PROVE  ResolvedIsInlining'
<1>0. PICK d, p, nodes, n : d = Len(stack) /\ p = Top.ptr /\ nodes = Nodes(p) /\ n = Len(heap)
  OBVIOUS
<1>1. /\ Running /\ UNCHANGED <<files, heap>> /\ Top.inc = None /\ Top.stage = "resolved"
      /\ outcome'.result = p
  BY <1>0 DEF ReturnTemplate
<1>2. /\ d \in 1 .. Len(stack) /\ Top = stack[d] /\ FrameOK(d) /\ HeapOK
      /\ n \in Nat /\ files \in Programs
  BY <1>0, <1>1, TopFrame DEF IncInv, StackOK
<1>3. d = 1
  BY <1>0, <1>1, <1>2 DEF FrameOK
<1>4. /\ Len(nodes) \in Nat /\ nodes \in Seq(Nat)
      /\ \A k \in 1 .. Len(nodes) : heap[nodes[k]].kind \in {"raw", "print"}
  <2>1. p = stack[d].ptr /\ stack[d].stage # "parse"
    BY <1>0, <1>1, <1>2
  <2>2. nodes \in Seq(Nat) /\ Len(nodes) \in Nat
    BY <1>0, <1>2, <2>1, FrameNodes
  <2>3. \A k \in 1 .. Len(nodes) : heap[nodes[k]].kind \in {"raw", "print"}
    <3>1. Top.stage \in {"resolved", "done"}
      BY <1>1
    <3>. QED  BY <1>0, <1>2, <3>1, ResolvedFrame
  <2>. QED  BY <2>2, <2>3
<1>5. PICK text : text = Inlining(files)[n][Root]
  OBVIOUS
<1>6. Reads(heap, nodes, Len(nodes), text) /\ n >= 1
  <2>1. ReadsAt(Top, d, heap, nodes, files)
    BY <1>0, <1>2 DEF TextsKnown, TextOK
  <2>2. /\ d <= n
        /\ Reads(heap, nodes, Len(nodes), Inlining(files)[n - d + 1][FileOf(Top)])
    BY <1>0, <1>1, <2>1 DEF ReadsAt
  <2>3. FileOf(Top) = Root /\ n - d + 1 = n
    BY <1>1, <1>2, <1>3 DEF FileOf
  <2>. QED  BY <1>2, <1>3, <1>5, <2>2, <2>3
<1>7. IsSeq(text) /\ DOMAIN text = 1 .. Len(nodes)
  <2>1. Texts(Inlining(files)[n])
    BY <1>2, InliningText
  <2>2. IsSeq(text)
    BY <1>5, <2>1, IncludeAssumption DEF Texts
  <2>. QED  BY <1>6, <2>2, SeqElements DEF Reads
<1>8. Resolved(text)
  BY <1>4, <1>6, <1>7, ReadsResolved
<1>9. [i \in 1 .. Len(nodes) |-> Leaf(heap[nodes[i]])] = text
  <2>1. text = [i \in 1 .. Len(nodes) |-> text[i]]
    <3>1. text \in Seq(ToSet(text)) /\ Len(text) = Len(nodes)
      BY <1>6, <1>7 DEF IsSeq, Reads
    <3>. QED  BY <3>1
  <2>2. \A i \in 1 .. Len(nodes) : Leaf(heap[nodes[i]]) = text[i]
    BY <1>6 DEF Reads
  <2>. QED  BY <2>1, <2>2
<1>10. Text(p) = text
  <2>1. DOMAIN nodes = 1 .. Len(nodes)
    BY <1>4
  <2>. QED  BY <1>0, <1>9, <2>1 DEF Text
<1>11. Text(outcome.result)' = text
  <2>1. Text(p)' = Text(p)
    BY <1>1 DEF Text, Nodes
  <2>. QED  BY <1>1, <1>10, <2>1 DEF Text, Nodes
<1>12. Inlining(files)[Len(heap)][Root]' = text
  BY <1>0, <1>1, <1>5
<1>. QED  BY <1>8, <1>11, <1>12 DEF ResolvedIsInlining

\* The included file is read in the place of the include block.
LEMMA ReturnIncludeReads ==
    ASSUME IncInv, TextsKnown, ReturnInclude
    PROVE  TextsKnown'
<1>0. PICK d, e, ast, below, parent, a, moved, block, nodes :
         /\ d = Len(stack) /\ e = d - 1 /\ ast = Top.ptr /\ below = stack[e]
         /\ parent = below.ptr /\ a = below.at /\ moved = Nodes(ast)
         /\ nodes = Nodes(parent) /\ block = nodes[a]
  BY ZenonT(60)
<1>1. /\ Running /\ files' = files /\ Top.inc # None /\ Top.stage = "done"
  BY ZenonT(60) DEF ReturnInclude
<1>2. /\ d \in Nat /\ d \in 1 .. Len(stack) /\ Top = stack[d] /\ IsSeq(stack)
      /\ FrameOK(d) /\ Len(heap) \in Nat /\ HeapOK /\ stack # <<>> /\ files \in Programs
  BY <1>0, <1>1, TopFrame DEF IncInv, StackOK
<1>3. /\ d # 1 /\ e \in Nat /\ e > 0 /\ e \in 1 .. Len(stack) /\ e < d /\ e + 1 = d
      /\ e \in 1 .. Len(stack) - 1 /\ FrameOK(e)
  <2>1. d # 1
    BY <1>1, <1>2 DEF FrameOK
  <2>. QED  BY <1>0, <1>2, <2>1 DEF IncInv, StackOK
<1>4. ast \in 1 .. Len(heap)
  BY <1>0, <1>1, <1>2, SMTT(60) DEF FrameOK
<1>5. /\ below.stage = "walk" /\ parent \in 1 .. Len(heap) /\ a <= Len(nodes)
      /\ a \in 1 .. Len(nodes) + 1 /\ heap[block].kind = "include"
      /\ DOMAIN below = {"inc", "ptr", "at", "stage"}
      /\ \A k \in 1 .. a - 1 : heap[nodes[k]].kind \in {"raw", "print"}
  <2>1. e < Len(stack)
    BY <1>0, <1>3
  <2>2. below = stack[e] /\ nodes = Nodes(below.ptr) /\ FrameOK(e)
    BY <1>0, <1>3, Zenon
  <2>3. Walks(below, e, heap, nodes) /\ below.at <= Len(nodes)
        /\ heap[nodes[below.at]].kind = "include"
    BY <2>1, <2>2, WaitingFrame, Zenon
  <2>. QED  BY <1>0, <2>3 DEF Walks
<1>6. /\ nodes \in Seq(Nat) /\ Len(nodes) \in Nat /\ a \in 1 .. Len(nodes)
      /\ moved \in Seq(Nat) /\ Len(moved) \in Nat
  <2>1. nodes \in Seq(Nat)
    BY <1>0, <1>2, <1>5, NodesOfTree
  <2>2. moved \in Seq(Nat)
    BY <1>0, <1>2, <1>4, NodesOfTree
  <2>3. Len(nodes) \in Nat /\ Len(moved) \in Nat
    BY <2>1, <2>2
  <2>. QED  BY <1>5, <2>1, <2>2, <2>3
<1>7. /\ Owned(d) = Tree(ast) /\ Owned(e) = Tree(parent) /\ ast \in Owned(d)
      /\ parent \in Owned(e) /\ parent # ast
      /\ \A k \in 1 .. Len(nodes) : nodes[k] \in 1 .. Len(heap)
      /\ \A k \in 1 .. Len(moved) : moved[k] \in 1 .. Len(heap)
  <2>1. Owned(d) = Tree(ast) /\ Owned(e) = Tree(parent)
    BY <1>0, <1>1, <1>2, <1>3, <1>5, OwnedNodes, ZenonT(60)
  <2>2. Owned(d) \cap Owned(e) = {}
    BY <1>2, <1>3 DEF IncInv, Disjoint
  <2>3. ast \in Tree(ast) /\ \A k \in 1 .. Len(Nodes(ast)) : Nodes(ast)[k] \in 1 .. Len(heap)
    BY <1>2, <1>4, NodesOfTree
  <2>4. /\ parent \in Tree(parent)
        /\ \A k \in 1 .. Len(Nodes(parent)) : Nodes(parent)[k] \in 1 .. Len(heap)
    BY <1>2, <1>5, NodesOfTree
  <2>. QED  BY <1>0, <2>1, <2>2, <2>3, <2>4
\* What the two activations read.
<1>8. PICK inc, g, file, c : /\ inc = Top.inc /\ g = FileOf(Top) /\ file = FileOf(below)
                             /\ c = Len(heap) - e
  OBVIOUS
<1>9. inc = heap[block].inc /\ g = inc.file /\ g \in File /\ file \in File
  <2>1. Link(e)
    BY <1>0, <1>3 DEF TextsKnown
  <2>2. inc = heap[block].inc
    BY <1>0, <1>2, <1>3, <1>8, <2>1 DEF Link
  <2>3. g = inc.file
    BY <1>1, <1>8 DEF FileOf
  <2>4. g \in File
    BY <1>2, <1>8, FrameFile
  <2>5. file \in File
    BY <1>0, <1>3, <1>8, FrameFile
  <2>. QED  BY <2>2, <2>3, <2>4, <2>5
<1>10. PICK l : l = Inlining(files)[c]
  OBVIOUS
<1>11. PICK k \in Nat : Walked(heap, nodes, a, files[file], k, l) /\ Texts(l) /\ c \in Nat
  <2>1. TextOK(e) /\ stack[e].stage = "walk"
    BY <1>0, <1>3, <1>5 DEF TextsKnown
  <2>2. /\ Len(heap) - e \in Nat /\ Texts(Inlining(files)[Len(heap) - e])
        /\ \E k \in Nat : Walked(heap, Nodes(stack[e].ptr), stack[e].at,
                                 files[FileOf(stack[e])], k,
                                 Inlining(files)[Len(heap) - e])
    BY <1>3, <2>1, WalkReads
  <2>3. PICK k \in Nat : Walked(heap, nodes, a, files[file], k, l)
    BY <1>0, <1>8, <1>10, <2>2, Zenon
  <2>. QED  BY <1>8, <1>10, <2>2, <2>3
<1>12. Reads(heap, moved, Len(moved), Within(inc, l[g]))
  <2>1. ReadsAt(Top, d, heap, moved, files)
    BY <1>0, <1>2 DEF TextsKnown, TextOK
  <2>2. Reads(heap, moved, Len(moved),
              Within(Top.inc, Inlining(files)[Len(heap) - d + 1][FileOf(Top)]))
    BY <1>1, <2>1 DEF ReadsAt
  <2>3. Len(heap) - d + 1 = c
    BY <1>2, <1>3, <1>8
  <2>. QED  BY <1>8, <1>10, <2>2, <2>3
<1>13. below.inc # None => IncOK(below.inc)
  BY <1>0, <1>3 DEF TextsKnown, TextOK, ReadsAt
<1>14. /\ IsSeq(Pop(stack)) /\ Len(Pop(stack)) = e
       /\ \A i \in 1 .. e : Pop(stack)[i] = stack[i]
  BY <1>0, <1>2, Popped
\* Wherever the statements are moved to.
<1>15. ASSUME NEW f, NEW q, NEW r, stack' = [Pop(stack) EXCEPT ![e] = f],
              f.inc = below.inc, f.ptr = q, f.stage = "walk", f.at = a + Len(moved),
              Nodes(q)' = r, Replaced(r, nodes, moved, a), Len(r) \in Nat,
              \A j \in 1 .. Len(r) : r[j] \in 1 .. Len(heap),
              Len(heap') = Len(heap),
              \A m \in 1 .. Len(heap) : Verbatim(heap'[m], heap[m]),
              \A m \in 1 .. Len(heap) : m # parent /\ m # ast => heap'[m] = heap[m]
       PROVE  TextsKnown'
  <2>1. Len(stack') = e /\ stack'[e] = f /\ \A i \in 1 .. e - 1 : stack'[i] = stack[i]
    <3>1. DOMAIN Pop(stack) = 1 .. e
      BY <1>14, SeqElements
    <3>2. stack' = [i \in 1 .. e |-> IF i = e THEN f ELSE Pop(stack)[i]]
      BY <1>15, <3>1
    <3>3. stack'[e] = f /\ \A i \in 1 .. e - 1 : stack'[i] = stack[i]
      BY <1>3, <1>14, <3>2
    <3>4. stack' = [i \in 1 .. e |-> stack'[i]]
      BY <3>2
    <3>. QED  BY <1>3, <3>3, <3>4, SeqOfFunction
  <2>2. Walked(heap, r, a + Len(moved), files[file], k + 1, l)
    <3>1. inc = heap[nodes[a]].inc /\ heap[nodes[a]].kind = "include"
      BY <1>0, <1>5, <1>9, Zenon
    <3>2. Texts(l) /\ Walked(heap, nodes, a, files[file], k, l)
      BY <1>11
    <3>. QED  BY <1>2, <1>6, <1>9, <1>12, <1>15, <3>1, <3>2, WalkedOver
  <2>3. Walked(heap', r, f.at, files[file], k + 1, l)
    <3>1. PICK s, at : s = files[file] /\ at = f.at
      OBVIOUS
    <3>2. /\ k + 1 \in 0 .. Len(s) /\ Reads(heap, r, at - 1, Beginnings(s, l)[k + 1])
          /\ Len(r) - (at - 1) = Len(s) - (k + 1)
          /\ \A j \in 1 .. Len(s) - (k + 1) : Verbatim(heap[r[at - 1 + j]], s[k + 1 + j])
      BY <1>15, <2>2, <3>1 DEF Walked
    <3>3. Len(s) \in Nat /\ at \in Nat /\ at > 0
      BY <1>2, <1>6, <1>9, <1>15, <3>1, Lengths, SMTT(60)
    <3>4. \A j \in 1 .. Len(r) : Verbatim(heap'[r[j]], heap[r[j]])
      BY <1>15
    <3>5. Reads(heap', r, at - 1, Beginnings(s, l)[k + 1])
      <4>1. \A j \in 1 .. at - 1 : j \in 1 .. Len(r)
        BY <1>15, <3>2, <3>3
      <4>. QED  BY <3>2, <3>4, <4>1, ReadsKept
    <3>6. ASSUME NEW j \in 1 .. Len(s) - (k + 1)
          PROVE  Verbatim(heap'[r[at - 1 + j]], s[k + 1 + j])
      <4>1. at - 1 + j \in 1 .. Len(r)
        BY <1>15, <3>2, <3>3
      <4>2. Verbatim(heap'[r[at - 1 + j]], heap[r[at - 1 + j]])
        BY <3>4, <4>1
      <4>3. Verbatim(heap[r[at - 1 + j]], s[k + 1 + j])
        BY <3>2
      <4>. QED  BY <4>2, <4>3 DEF Verbatim
    <3>. QED  BY <3>1, <3>2, <3>5, <3>6 DEF Walked
  <2>4. ReadsAt(f, e, heap', r, files)
    <3>1. FileOf(f) = file
      BY <1>8, <1>15, SameFile
    <3>2. Len(heap') - e = c /\ e <= Len(heap') /\ k + 1 \in Nat
      BY <1>2, <1>3, <1>8, <1>11, <1>15
    <3>3. \E j \in Nat : Walked(heap', r, f.at, files[FileOf(f)], j,
                                Inlining(files)[Len(heap') - e])
      BY <1>10, <2>3, <3>1, <3>2
    <3>4. f.inc # None => IncOK(f.inc)
      BY <1>13, <1>15
    <3>. QED  BY <1>15, <3>2, <3>3, <3>4 DEF ReadsAt
  <2>5. TextOK(e)'
    BY <1>1, <1>15, <2>1, <2>4, TextSet
  <2>6. ASSUME NEW m \in 1 .. Len(heap') PROVE PathOK(m)'
    <3>1. m \in 1 .. Len(heap) /\ PathOK(m)
      BY <1>15 DEF TextsKnown
    <3>. QED  BY <1>15, <3>1 DEF PathOK, Verbatim
  <2>7. ASSUME NEW m \in 1 .. Len(heap), \A j \in e .. Len(stack) : m \notin Owned(j)
        PROVE  heap'[m] = heap[m]
    <3>1. d \in e .. Len(stack) /\ e \in e .. Len(stack)
      BY <1>2, <1>3
    <3>2. m \notin Owned(d) /\ m \notin Owned(e)
      BY <2>7, <3>1
    <3>. QED  BY <1>7, <1>15, <3>2
  <2>8. /\ Len(heap') \in Nat /\ Len(heap) <= Len(heap') /\ stack'[e].inc = stack[e].inc
    BY <1>0, <1>2, <1>15, <2>1
  <2>. QED  BY <1>1, <1>3, <2>1, <2>5, <2>6, <2>7, <2>8, LastReads
<1>16. CASE heap[parent].kind # "stmts"
  <2>. DEFINE f == [[below EXCEPT !.at = @ + Len(moved)] EXCEPT !.ptr = ast]
  <2>1. stack' = [Pop(stack) EXCEPT ![e] = f] /\ heap' = heap
    BY <1>0, <1>16 DEF ReturnInclude
  <2>2. f.inc = below.inc /\ f.ptr = ast /\ f.stage = "walk" /\ f.at = a + Len(moved)
    BY <1>0, <1>5
  <2>. HIDE DEF f
  <2>3. nodes = <<parent>>
    BY <1>0, <1>2, <1>5, <1>16, LeafTree, SMTT(60)
  <2>4. Len(nodes) = 1 /\ a = 1
    BY <1>6, <2>3
  <2>5. Replaced(moved, nodes, moved, a)
    BY <1>6, <2>4 DEF Replaced
  <2>6. Nodes(ast)' = moved
    BY <1>0, <2>1 DEF Nodes
  <2>7. \A m \in 1 .. Len(heap) : Verbatim(heap'[m], heap[m])
    BY <2>1 DEF Verbatim
  <2>. QED  BY <1>6, <1>7, <1>15, <2>1, <2>2, <2>5, <2>6, <2>7
<1>17. CASE heap[parent].kind = "stmts"
  <2>0. PICK kids : kids = heap[parent].kids
    OBVIOUS
  <2>1. kids = nodes
    BY <1>0, <1>17, <2>0 DEF Nodes
  <2>2. PICK new : new = SubSeq(nodes, 1, a - 1) \o moved \o SubSeq(nodes, a + 1, Len(nodes))
    BY ZenonT(60)
  <2>. DEFINE f == [below EXCEPT !.at = @ + Len(moved)]
  <2>3. heap' = [heap EXCEPT ![parent].kids = new, ![ast].kids = <<>>]
    <3>1. new = SubSeq(kids, 1, a - 1) \o moved \o SubSeq(kids, a + 1, Len(kids))
      BY <2>1, <2>2, ZenonT(60)
    <3>. QED  BY <1>0, <1>17, <2>0, <3>1, ZenonT(60) DEF ReturnInclude
  <2>4. stack' = [Pop(stack) EXCEPT ![e] = f]
    BY <1>0, <1>17, ZenonT(60) DEF ReturnInclude
  <2>5. f.inc = below.inc /\ f.ptr = parent /\ f.stage = "walk" /\ f.at = a + Len(moved)
    BY <1>0, <1>5
  <2>. HIDE DEF f
  <2>6. /\ IsSeq(heap') /\ Len(heap') = Len(heap)
        /\ \A n \in 1 .. Len(heap) : /\ DOMAIN heap'[n] = DOMAIN heap[n]
                                     /\ heap'[n].kind = heap[n].kind
                                     /\ heap'[n].inc = heap[n].inc
                                     /\ heap'[n].expr = heap[n].expr
        /\ \A n \in 1 .. Len(heap) : n # parent /\ n # ast => heap'[n] = heap[n]
        /\ heap'[parent].kids = new /\ heap'[ast].kids = <<>>
    BY <1>2, <1>4, <1>5, <1>7, <2>3, KidsMoved, ZenonT(60)
  <2>7. PICK r \in Seq(Nat) :
           /\ r = new /\ Len(r) = Len(nodes) - 1 + Len(moved)
           /\ \A i \in 1 .. a - 1 : r[i] = nodes[i]
           /\ \A i \in 1 .. Len(moved) : r[a - 1 + i] = moved[i]
           /\ \A i \in a + 1 .. Len(nodes) : r[i - 1 + Len(moved)] = nodes[i]
    BY <1>6, <2>2, Spliced, ZenonT(60)
  <2>8. Replaced(r, nodes, moved, a) /\ Len(r) \in Nat
    BY <2>7 DEF Replaced
  <2>9. ASSUME NEW j \in 1 .. Len(r) PROVE r[j] \in 1 .. Len(heap)
    <3>1. PICK m, n : m = Len(nodes) /\ n = Len(moved)
      OBVIOUS
    <3>2. \/ j \in 1 .. a - 1
          \/ \E i \in 1 .. Len(moved) : j = a - 1 + i
          \/ \E i \in a + 1 .. Len(nodes) : j = i - 1 + Len(moved)
      <4>1. m \in Nat /\ n \in Nat /\ a \in 1 .. m /\ j \in 1 .. m - 1 + n
        BY <1>6, <2>7, <3>1
      <4>2. \/ j \in 1 .. a - 1
            \/ \E i \in 1 .. n : j = a - 1 + i
            \/ \E i \in a + 1 .. m : j = i - 1 + n
        BY <4>1, SplicedIndices
      <4>. QED  BY <3>1, <4>2
    <3>3. CASE j \in 1 .. a - 1
      <4>1. j \in 1 .. Len(nodes)
        BY <1>6, <3>3
      <4>. QED  BY <1>7, <2>7, <3>3, <4>1
    <3>4. CASE \E i \in 1 .. Len(moved) : j = a - 1 + i
      BY <1>7, <2>7, <3>4, ZenonT(60)
    <3>5. CASE \E i \in a + 1 .. Len(nodes) : j = i - 1 + Len(moved)
      <4>1. PICK i \in a + 1 .. Len(nodes) : j = i - 1 + Len(moved)
        BY <3>5
      <4>2. i \in 1 .. Len(nodes)
        BY <1>6
      <4>. QED  BY <1>7, <2>7, <4>1, <4>2
    <3>. QED  BY <3>2, <3>3, <3>4, <3>5
  <2>10. Nodes(parent)' = r
    <3>1. heap'[parent].kind = "stmts"
      BY <1>5, <1>17, <2>6
    <3>. QED  BY <2>6, <2>7, <3>1 DEF Nodes
  <2>11. \A m \in 1 .. Len(heap) : Verbatim(heap'[m], heap[m])
    BY <2>6 DEF Verbatim
  <2>. QED  BY <1>15, <2>4, <2>5, <2>6, <2>8, <2>9, <2>10, <2>11
<1>. QED  BY <1>16, <1>17

\* Only run() at the bottom ends a compilation with a template.
LEMMA StepInlInv == ASSUME IncInv, InlInv, [Next]_vars PROVE InlInv'
<1>1. CASE UNCHANGED vars
  <2>1. UNCHANGED <<files, heap, deletes, stack, thrown, outcome>>
    BY <1>1 DEF vars
  <2>2. \A p : Nodes(p)' = Nodes(p)
    BY <2>1 DEF Nodes
  <2>3. \A i : TextOK(i)' <=> TextOK(i)
    BY <2>1, <2>2 DEF TextOK
  <2>4. \A i : Link(i)' <=> Link(i)
    BY <2>1, <2>2 DEF Link
  <2>5. TextsKnown => TextsKnown'
    BY <2>1, <2>3, <2>4 DEF TextsKnown, PathOK
  <2>6. ResolvedIsInlining'
    <3>1. PICK p : p = outcome.result
      OBVIOUS
    <3>2. Text(p)' = Text(p)
      BY <2>1, <2>2 DEF Text
    <3>3. outcome.status = "done" =>
             /\ Text(p) = Inlining(files)[Len(heap)][Root]
             /\ Resolved(Text(p))
      BY <3>1 DEF InlInv, ResolvedIsInlining
    <3>4. Text(outcome.result)' = Text(p)
      BY <2>1, <2>2, <3>1, <3>2 DEF Text
    <3>. QED  BY <2>1, <3>3, <3>4 DEF ResolvedIsInlining
  <2>. QED  BY <2>1, <2>5, <2>6 DEF InlInv, Running
\* A step that knows what it did, while the compilation goes on.
<1>2. ASSUME Running, outcome' = outcome, thrown' = None => TextsKnown'
      PROVE  InlInv'
  BY <1>2 DEF InlInv, ResolvedIsInlining, Running
<1>3. ASSUME Running, thrown = None PROVE TextsKnown
  BY <1>3 DEF InlInv
<1>4. CASE \E error \in {"NoSuchFile", "SyntaxError"} : ParseFails(error)
  <2>1. Running /\ outcome' = outcome /\ thrown' # None
    BY <1>4, IncludeAssumption DEF ParseFails
  <2>. QED  BY <1>2, <2>1
<1>5. CASE SubstitutionThrows
  <2>1. Running /\ outcome' = outcome /\ thrown' # None
    BY <1>5, IncludeAssumption DEF SubstitutionThrows, Substituting
  <2>. QED  BY <1>2, <2>1
<1>6. CASE ParseSucceeds
  <2>1. Running /\ thrown = None /\ outcome' = outcome
    BY <1>6, Zenon DEF ParseSucceeds
  <2>. QED  BY <1>2, <1>3, <1>6, <2>1, ParseSucceedsReads, SMTT(60)
<1>7. CASE SkipNode
  <2>1. Running /\ thrown = None /\ outcome' = outcome
    BY <1>7 DEF SkipNode, Walking
  <2>. QED  BY <1>2, <1>3, <1>7, <2>1, SkipNodeReads
<1>8. CASE EnterInclude
  <2>1. Running /\ thrown = None /\ outcome' = outcome
    BY <1>8 DEF EnterInclude, Walking
  <2>. QED  BY <1>2, <1>3, <1>8, <2>1, EnterIncludeReads
<1>9. CASE FinishWalk
  <2>1. Running /\ thrown = None /\ outcome' = outcome
    BY <1>9 DEF FinishWalk, Walking
  <2>. QED  BY <1>2, <1>3, <1>9, <2>1, FinishWalkReads
<1>10. CASE Substitute
  <2>1. Running /\ thrown = None /\ outcome' = outcome
    BY <1>10 DEF Substitute, Substituting
  <2>. QED  BY <1>2, <1>3, <1>10, <2>1, SubstituteReads
<1>11. CASE ReturnInclude
  <2>1. Running /\ thrown = None /\ outcome' = outcome
    BY <1>11, ZenonT(60) DEF ReturnInclude
  <2>. QED  BY <1>2, <1>3, <1>11, <2>1, ReturnIncludeReads
<1>12. CASE Unwind
  <2>1. thrown' # None
    BY <1>12 DEF Unwind
  <2>2. outcome'.status # "done"
    BY <1>12 DEF Unwind, Running
  <2>. QED  BY <2>1, <2>2 DEF InlInv, ResolvedIsInlining
<1>13. CASE ReturnTemplate
  <2>1. Running /\ thrown = None /\ ~ Running'
    BY <1>13 DEF ReturnTemplate, Running
  <2>2. ResolvedIsInlining'
    BY <1>3, <1>13, <2>1, ReturnTemplateReads
  <2>. QED  BY <2>1, <2>2 DEF InlInv
<1>. QED  BY <1>1, <1>4, <1>5, <1>6, <1>7, <1>8, <1>9, <1>10, <1>11, <1>12, <1>13 DEF Next

LEMMA InlInvariant == Spec => []InlInv
<1>1. Init => InlInv
  BY InitReads
<1>2. IncInv /\ InlInv /\ [Next]_vars => InlInv'
  BY StepInlInv
<1>. QED  BY <1>1, <1>2, IncInvariant, PTL DEF Spec

\* The template that run() returns is the text of the file with each include block replaced
\* by the text of the file it includes, whose variables stand for what the scopes and the
\* mappings on the way to it say, at any depth of inclusion and for any files.
THEOREM TemplateIsInlined == Spec => []ResolvedIsInlining
<1>1. InlInv => ResolvedIsInlining
  BY DEF InlInv
<1>. QED  BY <1>1, InlInvariant, PTL
=============================================================================
