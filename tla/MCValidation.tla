---------------------------- MODULE MCValidation ----------------------------
(***************************************************************************)
(* A bounded instance of Validation: three symbols in batches of two, a    *)
(* request of sixteen days in windows of five and one of eleven at once,   *)
(* holes in the history of a candidate, of the benchmark or of neither.    *)
(***************************************************************************)
EXTENDS Validation

Three == <<"AAA", "BBB", "SPY">>

Days == 0 .. 19

Service ==
  {[s \in ToSet(Three) |-> Days \ IF s = hole THEN missing ELSE {}] :
     hole \in {"AAA", "SPY"}, missing \in {{}, {6}, 7 .. 9, 0 .. 9}}

Requests == {[from |-> 1, to |-> 17], [from |-> 4, to |-> 15]}

=============================================================================
