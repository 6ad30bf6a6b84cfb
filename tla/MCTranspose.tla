----------------------------- MODULE MCTranspose ----------------------------
EXTENDS Transpose, TLC

MCShapes   == {<<32, 32>>, <<64, 64>>, <<61, 67>>, <<3, 5>>}
MCReported == <<32, 32>> :> 275 @@ <<64, 64>> :> 1291 @@ <<61, 67>> :> 1953
=============================================================================
