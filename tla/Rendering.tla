------------------------------ MODULE Rendering ------------------------------
(***************************************************************************)
(* What rendering a template promises, without any buffer: the strings a   *)
(* template prints are delivered, concatenated in the order they were      *)
(* printed, to the script (Template::render) or to standard output         *)
(* (Template::display).                                                    *)
(***************************************************************************)
EXTENDS Sequences

CONSTANTS
    Text,       \* the strings a template can print
    Methods,    \* the two ways a script runs a template
    Nobody      \* no rendering is in progress, or has delivered anything

VARIABLES
    caller,     \* the method that is rendering, or Nobody
    printed,    \* everything printed by the rendering in progress
    delivered   \* the last delivery: its method and its text

vars == <<caller, printed, delivered>>

Init ==
    /\ caller = Nobody
    /\ printed = <<>>
    /\ delivered = [to |-> Nobody, text |-> <<>>]

Begin(m) ==
    /\ caller = Nobody
    /\ caller' = m
    /\ printed' = <<>>
    /\ UNCHANGED delivered

PrintText(s) ==
    /\ caller \in Methods
    /\ printed' = printed \o s
    /\ UNCHANGED <<caller, delivered>>

\* A template may stop early (a failed call returns from the render function):
\* what it printed until then is still what is delivered.
End ==
    /\ caller \in Methods
    /\ delivered' = [to |-> caller, text |-> printed]
    /\ caller' = Nobody
    /\ printed' = <<>>

Next ==
    \/ \E m \in Methods : Begin(m)
    \/ \E s \in Text : PrintText(s)
    \/ End

Spec == Init /\ [][Next]_vars
=============================================================================
