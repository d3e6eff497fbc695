--------------------------- MODULE MCExceptionTop ---------------------------
(* Instances of ExceptionTop for TLC. *)
EXTENDS ExceptionTop, TLC

\* Not to be parsed, a count without a time, a time without a count, and more than
\* the top holds with a time ahead of the clock.
SomeGarbled ==
    {NoTop,
     [count |-> 1 :> 5, last_time |-> <<>>],
     [count |-> <<>>, last_time |-> 2 :> 1],
     [count |-> 1 :> 1 @@ 2 :> 2 @@ 3 :> 2, last_time |-> 1 :> 2 @@ 3 :> 9]}
=============================================================================
