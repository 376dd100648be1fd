------------------------------ MODULE InOrder -------------------------------
(***************************************************************************)
(* What a receiver of a stream promises: the items it delivers are items   *)
(* that were sent, unchanged, in the order they were sent and each at most *)
(* once.  A receiver on a line that may lose skips items; the others never *)
(* do.                                                                     *)
(***************************************************************************)
EXTENDS Integers, Sequences

CONSTANT Sendable    \* the sequences that may be sent
VARIABLES todo, done, lossy
vars == <<todo, done, lossy>>

Init == todo \in Sendable /\ done = <<>> /\ lossy \in BOOLEAN

(* Skip the first items, deliver those that follow up to the last-th. *)
Deliver(skipped, last) ==
    /\ skipped > 0 => lossy
    /\ done' = done \o SubSeq(todo, skipped + 1, last)
    /\ todo' = SubSeq(todo, last + 1, Len(todo))
    /\ lossy' = lossy
(* The two lengths say how many: a step is checked without a search. *)
Next ==
    \E last \in {Len(todo) - Len(todo')} : \E skipped \in {last - (Len(done') - Len(done))} :
        last > 0 /\ skipped \in 0 .. last - 1 /\ Deliver(skipped, last)
Spec == Init /\ [][Next]_vars
=============================================================================
