------------------------------ MODULE MCChannels ------------------------------
(* TLC instance of Channels: two wrappers, two tasks and four items in    *)
(* channels with room for two; one of the items is a long message.         *)
EXTENDS Channels, TLC

CONSTANTS i1, i2, i3, i4

Symmetric ==
  Permutations(Objects) \cup Permutations(Handles) \cup Permutations(Tasks)
    \cup Permutations(Bits) \cup Permutations(Items \ Big)
=============================================================================
