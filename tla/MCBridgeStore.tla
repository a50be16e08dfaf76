--------------------------- MODULE MCBridgeStore ---------------------------
(* Instances of BridgeStore for TLC: writers are alike.  One version is    *)
(* fetched alone, and again with another content, and with another version. *)
EXTENDS BridgeStore, TLC

CONSTANTS ver1, ver2, body1, body2

Versions == {ver1, ver2}
Contents == {body1, body2}
Fetches == {{<<ver1, body1>>}, {<<ver1, body2>>}, {<<ver1, body1>>, <<ver2, body1>>}}

Alike == Permutations(Writer)

=============================================================================
