----------------------------- MODULE MCTerminal -----------------------------
(* A small instance of Terminal for TLC.                                   *)
EXTENDS Terminal

\* A line of two characters is full.  A line that ends early, a full one, a full one with a
\* newline behind it, and numbers of one and two digits.
SomeTexts ==
    {[kind |-> "literal", chars |-> <<"a", "nl">>],
     [kind |-> "literal", chars |-> <<"a", "b">>],
     [kind |-> "literal", chars |-> <<"b", "a", "nl">>],
     [kind |-> "number", chars |-> <<"1">>],
     [kind |-> "number", chars |-> <<"1", "2">>]}

\* The handler prints a literal, or a scan code.
SomeKeyTexts ==
    {[kind |-> "literal", chars |-> <<"k", "nl">>],
     [kind |-> "number", chars |-> <<"2", "k">>]}
=============================================================================
