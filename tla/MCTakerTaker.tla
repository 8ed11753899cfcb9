---------------------------- MODULE MCTakerTaker ----------------------------
(* Values of the constants that a .cfg cannot write down.                  *)
EXTENDS TakerTaker

MCSnapshots == {"a"}
MCFlat == {0}
MCStart == {-1, 0, 2}
MCPnl == {-1, 1}
=============================================================================
