--------------------------- MODULE MCConfigStore ----------------------------
(* Small instances of ConfigStore for TLC.                                 *)
EXTENDS ConfigStore

CONSTANTS s1, s2, base, wide, unauthentic, malformed

\* base and wide can be applied; the auth plugin refuses one configuration,
\* validation the other.
MixedConfigs  == {base, wide, unauthentic, malformed}
MixedServices == [c \in MixedConfigs |-> IF c = base THEN {s1} ELSE {s1, s2}]
=============================================================================
