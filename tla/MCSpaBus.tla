------------------------------ MODULE MCSpaBus ------------------------------
(* SpaBus with a user who switches the first pump. *)
EXTENDS SpaBus
BusCommands == {Toggle(1)}
=============================================================================
