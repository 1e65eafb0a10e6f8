----------------------------- MODULE MCDisplay ------------------------------
(* Displays for the model checker: one in HDR, with a mode that has HDR    *)
(* and a larger one that has not, and one that has the smaller mode only.  *)
EXTENDS Display

Rate(size) == [size |-> size, num |-> 60, den |-> 1]

MCOutputs ==
    {[hdr |-> TRUE, white |-> 2000, native |-> 3,
      sdrModes |-> {Rate(1), Rate(2), Rate(3)}, hdrModes |-> {Rate(1), Rate(2)}],
     [hdr |-> FALSE, white |-> 1000, native |-> 3,
      sdrModes |-> {Rate(1), Rate(2)}, hdrModes |-> {Rate(2)}]}

MCLevelSets == {{1}, {1, 2}}
=============================================================================
