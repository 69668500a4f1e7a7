----------------------------- MODULE MCFbdevApp -----------------------------
(* Devices whose line length the mode switch keeps (with padding), grows,   *)
(* shrinks so that frames only come out wrong, and shrinks so that they are *)
(* longer than video memory.                                                *)
EXTENDS FbdevApp

Device(user, bench, mem) ==
  [line |-> [user |-> user, bench |-> bench], row |-> 3, height |-> 2, mem |-> mem]
MCDevices == {Device(4, 4, 8), Device(2, 4, 16), Device(4, 3, 8), Device(5, 3, 8)}
=============================================================================
