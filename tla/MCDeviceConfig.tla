--------------------------- MODULE MCDeviceConfig ---------------------------
(* Instances of DeviceConfig for TLC. *)
EXTENDS DeviceConfig

(* Every command asks for keywords of its own. *)
MCFiltersOf == [c \in Commands |-> <<"/", c>>]
=============================================================================
