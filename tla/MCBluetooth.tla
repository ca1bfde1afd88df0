----------------------------- MODULE MCBluetooth -----------------------------
(* A small instance of Bluetooth: both remotes are paired. *)
EXTENDS Bluetooth

CONSTANTS r1, r2

MCBoth == <<r1, r2>>
====
