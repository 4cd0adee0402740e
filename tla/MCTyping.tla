------------------------------- MODULE MCTyping --------------------------------
(* Instances of Typing for TLC. *)
EXTENDS Typing, TLC

CONSTANTS m1, m2

Alike == Permutations(Members)

\* A key at a time, and a short paste.
SmallMessages ==
    {<<"char">>, <<"enter">>, <<"erase">>, <<"char", "enter">>, <<"erase", "char">>}

=============================================================================
