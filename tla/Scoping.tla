------------------------------- MODULE Scoping -------------------------------
(***************************************************************************)
(* Lexical scoping of loop variables, as a template's author understands   *)
(* it: a name means the variable of the innermost loop around it that      *)
(* declares it, or else the value the script assigned to it.  A loop's     *)
(* else body is inside the loop but does not see its variables.            *)
(***************************************************************************)
EXTENDS Integers, Sequences

CONSTANTS
    Name,       \* names of variables
    Loop,       \* the loops of the templates
    None        \* "this loop has no key variable"

VARIABLES
    scopes,     \* what each name means, outermost scope first
    meaning     \* the last reference that was compiled: its name and meaning

vars == <<scopes, meaning>>

\* The variables of loop i, and the meaning of a name no loop declares.
KeyOf(i) == <<"key", i>>
ValueOf(i) == <<"value", i>>
Assigned == <<"assigned", 0>>

Here == scopes[Len(scopes)]
Global == [x \in Name |-> Assigned]

Init ==
    /\ scopes = <<Global>>
    /\ meaning = <<None, Assigned>>

Refer(x) ==
    /\ meaning' = <<x, Here[x]>>
    /\ UNCHANGED scopes

\* Loop i declares k (unless it is None) and v; if they are the same name it is
\* the value.
Enter(i, k, v) ==
    /\ UNCHANGED meaning
    /\ scopes' = Append(scopes, [x \in Name |->
                    IF x = v THEN ValueOf(i) ELSE IF x = k THEN KeyOf(i)
                                                  ELSE Here[x]])

\* The body ends and the else body starts.
EndBody ==
    /\ Len(scopes) > 1
    /\ scopes' = [scopes EXCEPT ![Len(scopes)] = scopes[Len(scopes) - 1]]
    /\ UNCHANGED meaning

Leave ==
    /\ Len(scopes) > 1
    /\ scopes' = SubSeq(scopes, 1, Len(scopes) - 1)
    /\ UNCHANGED meaning

\* The compilation is abandoned.
Abandon ==
    /\ scopes' = <<Global>>
    /\ meaning' = <<None, Assigned>>

Next ==
    \/ \E x \in Name : Refer(x)
    \/ \E i \in Loop, k \in Name \cup {None}, v \in Name : Enter(i, k, v)
    \/ EndBody
    \/ Leave
    \/ Abandon

Spec == Init /\ [][Next]_vars
=============================================================================
