----------------------------- MODULE MCGenerator -----------------------------
(* Generator on one and on two layers; the cfg files choose the flags and    *)
(* the faults.                                                               *)
EXTENDS Generator

CONSTANTS bronze, silver

OneLayer == <<bronze>>
TwoLayers == <<bronze, silver>>
=============================================================================
