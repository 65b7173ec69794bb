----------------------------- MODULE MCHeapKit -----------------------------
(***************************************************************************)
(* Instances of HeapKit for TLC: the field lines of two data files.        *)
(***************************************************************************)
EXTENDS HeapKit, TLC

CONSTANTS T, U

\* A text and what may spoil it; a pointer and a rounded number.
MCFieldLines ==
    <<{<<"a", "char">>, <<"b", "string">>},
      {<<"a", "ptr">>, <<"a", "float">>}>>

\* The names of types are interchangeable.
TypeSymmetry == Permutations(TypeNames)

=============================================================================
