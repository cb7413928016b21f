------------------------------ MODULE MCAtaPio ------------------------------
(***************************************************************************)
(* Two machines: two 48-bit drives on one channel, and a 48-bit master and *)
(* a 24-bit slave on a channel each.                                       *)
(***************************************************************************)
EXTENDS AtaPio

Drive(c, s, l) == [channel |-> c, slave |-> s, lba48 |-> l]

Machines == {{Drive(0, FALSE, TRUE), Drive(0, TRUE, TRUE)},
             {Drive(0, FALSE, TRUE), Drive(1, TRUE, FALSE)}}

Calls == {<<"read", 0, 2>>, <<"write", 1, 2>>}
=============================================================================
