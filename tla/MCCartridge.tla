---------------------------- MODULE MCCartridge ----------------------------
(* Cartridges of both controllers, with and without a battery, and of each *)
(* size of RAM.                                                            *)
EXTENDS Cartridge

Header(t, s) == [type |-> t, size |-> s]
mcHeaders == {Header("MBC_1RB", 3), Header("MBC_3TRB", 0), Header("MBC_1R", 2),
              Header("MBC_3RB", 2), Header("unknown", 1)}
=============================================================================
