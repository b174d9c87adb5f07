------------------------ MODULE MCSettingsAuthority -------------------------
(***************************************************************************)
(* SettingsAuthority for TLC: the clients run the same commands, so states *)
(* that differ by an exchange of clients are one.                          *)
(***************************************************************************)
EXTENDS SettingsAuthority, TLC

ClientSymmetry == Permutations(Clients)
=============================================================================
