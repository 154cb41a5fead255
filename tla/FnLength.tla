------------------------------ MODULE FnLength ------------------------------
(***************************************************************************)
(* _FunctionState and CheckForFunctionLengths of cpplint.py: the lines of  *)
(* a function are counted from its head to the "}" that stands alone on an *)
(* unindented line.                                                        *)
(*                                                                         *)
(* "fn" and "TEST" are the words before the "(" of a function's head, of   *)
(* an ordinary one and of a test; "if", "while" and "asm" pass for one on  *)
(* an unindented line.                                                     *)
(***************************************************************************)
EXTENDS Cleansing

CONSTANTS NormalTrigger, TestTrigger

ASSUME TriggerAssumption == NormalTrigger \in Nat \ {0} /\ TestTrigger \in Nat \ {0}

FunctionState == [in_a_function |-> FALSE, lines_in_function |-> 0, test |-> FALSE]

Begin(test) == [in_a_function |-> TRUE, lines_in_function |-> 0, test |-> test]
End(st) == [st EXCEPT !.in_a_function = FALSE]

CountLine(st) == IF st.in_a_function THEN [st EXCEPT !.lines_in_function = @ + 1] ELSE st

\* How often the length doubles the trigger, 5 at most.
ErrorLevel(length, base) == Cardinality({e \in 1 .. 5 : base * 2 ^ e <= length})

Check(st, verbose) ==
  LET base == IF st.test THEN TestTrigger ELSE NormalTrigger IN
  IF st.in_a_function /\ st.lines_in_function > base * 2 ^ verbose
  THEN <<[category |-> <<"readability", "fn_size">>,
          confidence |-> ErrorLevel(st.lines_in_function, base)]>>
  ELSE <<>>

StartsFunction(line) == Len(line) > 1 /\ line[1] \in {"fn", "TEST", "if", "while", "asm"} /\ line[2] = "("

\* From the head of a function to the line that holds its brace, or a ";" or
\* "}", which make it a declaration or a trivial function.
BodyLines(lines, n) ==
  {m \in n .. Len(lines) : \E k \in DOMAIN lines[m] : lines[m][k] \in {"{", "}", ";", "extern"}}

CheckForFunctionLengths(st, lines, n, verbose) ==
  LET line == lines[n]
      ends == BodyLines(lines, n)
      end == lines[CHOOSE m \in ends : \A k \in ends : m <= k]
  IN CASE StartsFunction(line) /\ ends = {} ->
            [st |-> st, reports |-> <<[category |-> <<"readability", "fn_size">>, confidence |-> 5]>>]
       [] StartsFunction(line) /\ ends # {} ->
            [st |-> IF Count(end, {";", "}"}) = 0 THEN Begin(line[1] = "TEST") ELSE st,
             reports |-> <<>>]
       [] line = <<"}">> -> [st |-> End(st), reports |-> Check(st, verbose)]
       [] ~StartsFunction(line) /\ line # <<"}">> ->
            [st |-> IF Stripped(line) = <<>> THEN st ELSE CountLine(st), reports |-> <<>>]
==============================================================================
