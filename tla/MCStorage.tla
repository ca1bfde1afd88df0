------------------------------ MODULE MCStorage ------------------------------
(***************************************************************************)
(* Two consoles.  A Wii U with an SD card, FAT with an npll.cfg, and its   *)
(* memory, WFS with a gumboot.lst; and a Wii with such a card, a USB       *)
(* stick, FAT with an npll.cfg, and its memory, SFFS with a gumboot.lst.   *)
(* The entries are a channel, a Linux image with its device tree next to   *)
(* the configuration and its kernel elsewhere, and plain executables.      *)
(***************************************************************************)
EXTENDS Storage

CONSTANTS sd, usb, memory, p1, p2, p3

WiiUPartsOf == sd :> <<p1>> @@ memory :> <<p2>>
WiiPartsOf == WiiUPartsOf @@ usb :> <<p3>>
WiiUFsOf == p1 :> "FAT" @@ p2 :> "WFS"
WiiFsOf == p1 :> "FAT" @@ p2 :> "other" @@ p3 :> "FAT"

Channel == [paths |-> <<>>, linux |-> FALSE, hook |-> FALSE]
Linux == [paths |-> <<"self", p2>>, linux |-> TRUE, hook |-> TRUE]
Image == [paths |-> <<"self">>, linux |-> FALSE, hook |-> FALSE]
Config(timeout, default, entries) ==
  [timeout |-> timeout, default |-> default, entries |-> entries]

WiiUNpll == p1 :> Config(1, 1, <<Channel, Linux>>) @@ p2 :> Absent
WiiUGumboot == p1 :> Absent @@ p2 :> Config(0, 0, <<Image>>)

WiiNpll == WiiUNpll @@ p3 :> Config(0, 0, <<Image>>)
WiiGumboot == WiiUGumboot @@ p3 :> Absent
=============================================================================
