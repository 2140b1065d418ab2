--------------------------- MODULE MCNativeLadder ---------------------------
(* An instance of NativeLadder for TLC.                                    *)
EXTENDS NativeLadder

CONSTANT NumStates

Frames == 1..NumStates

(* Transition systems over the frames with frame 1 initial, with and       *)
(* without a frame the constraints exclude.  No later frame leads back to  *)
(* frame 1.                                                                *)
MCDesigns ==
    [init  : {{1}},
     trans : SUBSET ((Frames \X (Frames \ {1})) \cup {<<1, 1>>}),
     bad   : SUBSET Frames,
     ok    : {Frames, Frames \ {NumStates}}]
=============================================================================
