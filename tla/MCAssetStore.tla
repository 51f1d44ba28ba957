---------------------------- MODULE MCAssetStore ----------------------------
(* Two preparations of one version, as two releases make them: the second   *)
(* makes another table and no licence file.  Two installers and the reader  *)
(* are of the first release, one installer is of the second.                *)
EXTENDS AssetStore, TLC

CONSTANTS p1, p2, table, licence, old, new, text, i3

MCPrepared ==
  (p1 :> (table :> old @@ licence :> text)) @@ (p2 :> (table :> new))
MCWanted == [a \in Actors |-> IF a = i3 THEN p2 ELSE p1]
=============================================================================
