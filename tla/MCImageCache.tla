--------------------------- MODULE MCImageCache ---------------------------
(***************************************************************************)
(* ImageCache on seven fragments of four blocks, two of them used again,   *)
(* with a cache that holds these two and nothing more; and on five         *)
(* fragments of three blocks with a cache that holds any two of them.      *)
(***************************************************************************)
EXTENDS ImageCache

MCNeed == <<1, 2, 2, 1, 2, 3, 4>>
MCSize == <<3, 7, 8, 8>>

StallNeed == <<1, 2, 2, 3, 1>>
StallSize == <<3, 4, 3>>
=============================================================================
