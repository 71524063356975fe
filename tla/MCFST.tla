--------------------------------- MODULE MCFST ---------------------------------
(* Builder and Enum for TLC: words that are prefixes of one another, share    *)
(* prefixes and share suffixes, and targets before, between and after them.   *)
EXTENDS FSTEnum

MCWords ==
    {<<>>, <<1>>, <<1, 2>>, <<1, 2, 2>>, <<1, 2, 3>>, <<2, 3, 2>>, <<3, 2>>, <<3, 3>>}

MCTargets == MCWords \cup {<<2>>, <<3, 1>>, <<4>>}
================================================================================
