---------------------------- MODULE HttpFraming ----------------------------
(***************************************************************************)
(* How the body of an HTTP message is delimited, whoever parses it: after  *)
(* the head there is no body, a body of a fixed length, or a sequence of   *)
(* chunks that ends with an empty one and a trailer.  A part that was      *)
(* announced is taken byte for byte before anything else happens, and      *)
(* after the last one there are no more bytes.                             *)
(***************************************************************************)
EXTENDS Naturals

VARIABLES
  phase,  \* "head", "fixed", "chunks", "trailer", "done" or "refused"
  due,    \* bytes of the part announced that are still to come
  body    \* bytes taken

vars == <<phase, due, body>>

Init == phase = "head" /\ due = 0 /\ body = 0

FixedBody ==
  /\ phase = "head"
  /\ phase' = "fixed" /\ due' \in Nat \ {0} /\ UNCHANGED body

ChunkedBody ==
  /\ phase = "head"
  /\ phase' = "chunks" /\ UNCHANGED <<due, body>>

Chunk ==
  /\ phase = "chunks" /\ due = 0
  /\ due' \in Nat \ {0} /\ UNCHANGED <<phase, body>>

Byte ==
  /\ due > 0 /\ phase \in {"fixed", "chunks"}
  /\ due' = due - 1 /\ body' = body + 1
  /\ phase' = IF phase = "fixed" /\ due = 1 THEN "done" ELSE phase

LastChunk ==
  /\ phase = "chunks" /\ due = 0
  /\ phase' = "trailer" /\ UNCHANGED <<due, body>>

Complete ==
  /\ phase \in {"head", "trailer"}
  /\ phase' = "done" /\ UNCHANGED <<due, body>>

Refuse ==
  /\ phase \notin {"done", "refused"}
  /\ phase' = "refused" /\ UNCHANGED <<due, body>>

Next == FixedBody \/ ChunkedBody \/ Chunk \/ Byte \/ LastChunk \/ Complete \/ Refuse

Spec == Init /\ [][Next]_vars
=============================================================================
