------------------------------ MODULE FifoLock ------------------------------
(***************************************************************************)
(* What a mutex promises its callers: they stand in one line, whoever is   *)
(* at its head may be in the critical section, and nobody jumps the line.  *)
(***************************************************************************)
EXTENDS Sequences

CONSTANT Callers

VARIABLE line

InLine == {line[i] : i \in DOMAIN line}

Init == line = <<>>

Join(c) == /\ c \notin InLine
           /\ line' = Append(line, c)

Leave == /\ line # <<>>
         /\ line' = Tail(line)

Next == Leave \/ \E c \in Callers : Join(c)

Spec == Init /\ [][Next]_line
=============================================================================
