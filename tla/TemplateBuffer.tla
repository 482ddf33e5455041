--------------------------- MODULE TemplateBuffer ---------------------------
(***************************************************************************)
(* The growing output buffer of a rendering template: render_template()    *)
(* and the methods Template::render and Template::display of php_b2.cpp,   *)
(* and add_to_buffer() with the print_* functions compiled templates call  *)
(* (php_bindings_functions.c).                                             *)
(*                                                                         *)
(* The buffer is modelled char by char: its memory is a function from      *)
(* offsets to chars, and a write outside the block that was allocated      *)
(* extends the domain of that function, so that it shows in the state.     *)
(***************************************************************************)
EXTENDS Integers, Sequences

CONSTANTS
    Byte,           \* the values of a char
    NUL,            \* the char 0
    Uninit,         \* content of memory that was allocated and never written
    Text,           \* what the values a template prints convert to
    Methods,        \* Template's methods that render: "render", "display"
    Nobody,         \* no method is running, or has delivered anything
    EstimatedSize,  \* templ->estimatedBufferSize
    ChunkSize,      \* BUFFER_CHUNK_SIZE
    MaxOutput       \* bound: the longest output of one rendering

ASSUME BufferAssumption ==
    /\ NUL \in Byte
    /\ Uninit \notin Byte
    /\ Text \subseteq Seq(Byte)
    /\ Nobody \notin Methods
    /\ EstimatedSize \in Nat \ {0}
    /\ ChunkSize \in Nat \ {0}
    /\ MaxOutput \in Nat

VARIABLES
    caller,      \* the method whose render_template() is running, or Nobody
    mem,         \* buffer->ptr: the memory block, offset -> char
    allocated,   \* buffer->allocated_length
    strLength,   \* buffer->str_length
    printed,     \* history: what the template printed since it started
    delivered    \* the last string handed to the script or to stdout

vars == <<caller, mem, allocated, strLength, printed, delivered>>

Cell == Byte \cup {Uninit}

(***************************************************************************)
(* Memory.                                                                 *)
(***************************************************************************)
Alloc(n) == [i \in 0 .. n - 1 |-> Uninit]

(***************************************************************************)
(* Plausible bugs, each caught by a property below; the specification does *)
(* not use them.  A buffer that is not copied when it grows, a string that *)
(* takes its terminator along, and a growth by one chunk whatever the      *)
(* length of the string.                                                   *)
(***************************************************************************)
ReallocFresh(m, n) == Alloc(n)

PrefixTerminated(m, n) == [i \in 1 .. n + 1 |-> m[i - 1]]

NewLengthOneChunk(n) == allocated + ChunkSize

\* erealloc() keeps what was there and leaves the rest uninitialized.
Realloc(m, n) ==
    [i \in 0 .. n - 1 |-> IF i \in DOMAIN m THEN m[i] ELSE Uninit]

\* memcpy() of the chars of s to m at offset at.
Copy(m, at, s) ==
    LET dest == at .. at + Len(s) - 1
    IN  [i \in DOMAIN m \cup dest |->
            IF i \in dest THEN s[i - at + 1] ELSE m[i]]

\* The chars of m from 0 up to (not including) n.
Prefix(m, n) == [i \in 1 .. n |-> m[i - 1]]

\* The size add_to_buffer() asks for: one chunk more, or as much as the new
\* string and its terminator if that is more than a chunk.
NewLength(n) ==
    allocated + IF n + 1 > ChunkSize THEN n + 1 ELSE ChunkSize

Init ==
    /\ caller = Nobody
    /\ mem = Alloc(0)
    /\ allocated = 0
    /\ strLength = 0
    /\ printed = <<>>
    /\ delivered = [to |-> Nobody, text |-> <<>>, terminator |-> NUL]

\* render_template() up to the call of the render function.
RenderTemplate(m) ==
    /\ caller = Nobody
    /\ caller' = m
    /\ mem' = Alloc(EstimatedSize)
    /\ allocated' = EstimatedSize
    /\ strLength' = 0
    /\ printed' = <<>>
    /\ UNCHANGED delivered

\* A print_* function of the template converts its value to the string s and
\* appends it.
AddToBuffer(s) ==
    LET n      == Len(s)
        grows  == strLength + n + 1 > allocated
        size   == IF grows THEN NewLength(n) ELSE allocated
        block  == IF grows THEN Realloc(mem, size) ELSE mem
        filled == Copy(block, strLength, s)
    IN  /\ caller \in Methods
        /\ strLength + n <= MaxOutput
        /\ mem' = Copy(filled, strLength + n, <<NUL>>)
        /\ allocated' = size
        /\ strLength' = strLength + n
        /\ printed' = printed \o s
        /\ UNCHANGED <<caller, delivered>>

\* The render function returned (at its end or because a call failed): the zval
\* takes over the block, the buffer itself is freed and the method delivers the
\* string.  "terminator" is the char after the last one of the string.
Deliver ==
    /\ caller \in Methods
    /\ delivered' = [to |-> caller,
                     text |-> Prefix(mem, strLength),
                     terminator |-> mem[strLength]]
    /\ caller' = Nobody
    /\ mem' = Alloc(0)
    /\ allocated' = 0
    /\ strLength' = 0
    /\ printed' = <<>>

Next ==
    \/ \E m \in Methods : RenderTemplate(m)
    \/ \E s \in Text : AddToBuffer(s)
    \/ Deliver

Spec == Init /\ [][Next]_vars

-----------------------------------------------------------------------------
\* Types of the variables: offsets are never negative and a delivered string
\* has a destination, a text and a terminator (struct template_buffer and the
\* zval that render_template() fills).
TypeOK ==
    /\ caller \in Methods \cup {Nobody}
    /\ DOMAIN mem \subseteq Nat
    /\ \A i \in DOMAIN mem : mem[i] \in Cell
    /\ allocated \in Nat
    /\ strLength \in Nat
    /\ printed \in Seq(Byte)
    /\ delivered \in [to : Methods \cup {Nobody}, text : Seq(Cell),
                     terminator : Cell]

\* add_to_buffer() never writes outside the block it allocated, however the
\* printed lengths fall on the chunk boundaries, and always leaves room for the
\* terminator.
NoOverrun ==
    /\ DOMAIN mem = 0 .. allocated - 1
    /\ caller \in Methods => strLength < allocated

\* The buffer holds exactly what the template printed, in order, across every
\* reallocation, and once a char was printed it is terminated; so is the string
\* that is delivered, unless it is empty (an empty one is only terminated if the
\* template printed an empty string).
BufferHoldsOutput ==
    /\ strLength = Len(printed)
    /\ Prefix(mem, strLength) = printed
    /\ printed # <<>> => mem[strLength] = NUL
    /\ delivered.text # <<>> => delivered.terminator = NUL

\* Rendering: the buffer delivers what the abstract rendering delivers.
AbstractDelivered == [to |-> delivered.to, text |-> delivered.text]

R == INSTANCE Rendering WITH delivered <- AbstractDelivered

\* Rendering through the buffer implements the abstract rendering: the script
\* gets the concatenation of what was printed, whole and in order.
ImplementsRendering == R!Spec
=============================================================================
