---------------------------- MODULE MCLevelZero ----------------------------
(* Instances of LevelZero for TLC: two drivers with a device each; or one  *)
(* device with two engine groups of the same type, as cards with several   *)
(* media engines have.                                                     *)
EXTENDS LevelZero

Node(p, k, s, t) == [parent |-> p, kind |-> k, sub |-> s, type |-> t]

TwoCards ==
  << Node(0, "driver", "root", "none"), Node(0, "driver", "root", "none"),
     Node(1, "device", "root", "none"), Node(2, "device", "root", "none"),
     Node(3, "power", "root", "none"),  Node(3, "power", "root", "none"),
     Node(4, "engine", "tile", "copy") >>

MediaCard ==
  << Node(0, "driver", "root", "none"), Node(1, "device", "root", "none"),
     Node(2, "engine", "root", "media"), Node(2, "engine", "root", "media") >>

PowerAndEngine == <<"power", "engine">>
EngineOnly     == <<"engine">>
Functions      == <<"zesInit", "zesDriverGet", "zesMemoryGetBandwidth">>
=============================================================================
