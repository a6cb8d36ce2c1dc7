------------------------------ MODULE IndexSet -------------------------------
(***************************************************************************)
(* What a bitset promises: it is a set of indices below Size, and its      *)
(* iterator lists them in ascending order, each once.                      *)
(***************************************************************************)
EXTENDS Naturals, FiniteSets

CONSTANTS
  Size,     \* one more than the largest index
  Operands  \* the other sets it is combined with

VARIABLES
  set,    \* the indices
  rest,   \* those the iterator has not returned yet
  answer  \* the last call with its argument and what it returned

vars == <<set, rest, answer>>

Indices == 0 .. Size - 1

Init == set = {} /\ rest = {} /\ answer = <<"new">>

Become(next, call) == set' = next /\ answer' = call /\ UNCHANGED rest
Tell(call) == answer' = call /\ UNCHANGED <<set, rest>>

(* What the set becomes under an operator and another set.                 *)
Combined(operator, other) ==
  CASE operator = "and" -> set \cap other
    [] operator = "or"  -> set \cup other
    [] operator = "xor" -> (set \cup other) \ (set \cap other)
    [] operator = "difference" -> set \ other

(* Without an iterator the set may change.                                 *)
Change ==
  /\ rest = {}
  /\ \/ \E i \in Indices :
          \/ Become(set \cup {i}, <<"set", i>>)
          \/ Become(set \ {i}, <<"clear", i>>)
          \/ Become({i}, <<"from_index", i>>)
     \/ Become(Indices \ set, <<"not">>)
     \/ \E operator \in {"and", "or", "xor", "difference"}, other \in Operands :
          Become(Combined(operator, other), <<operator, other>>)

Ask == \E i \in Indices : Tell(<<"test", i, i \in set>>)

IterIndices == rest' = set /\ answer' = <<"iter_indices">> /\ UNCHANGED set

Least(s) == CHOOSE i \in s : \A j \in s : i <= j

NextIndex ==
  /\ rest # {}
  /\ answer' = <<"next", Least(rest)>>
  /\ rest' = rest \ {Least(rest)}
  /\ UNCHANGED set

NoIndex == rest = {} /\ Tell(<<"next">>)

(* An iterator may be given up before its end.                             *)
EndIteration == rest' = {} /\ answer' = <<"end">> /\ UNCHANGED set

Next ==
  \/ Change
  \/ Ask
  \/ IterIndices
  \/ NextIndex
  \/ NoIndex
  \/ EndIteration

Spec == Init /\ [][Next]_vars

=============================================================================
