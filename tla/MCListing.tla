------------------------------ MODULE MCListing ------------------------------
(* Three rows with two keys, pages of one or two rows.                      *)
EXTENDS Listing

MCIds == 1..3
MCKeys == 1..2
MCLimits == 1..2
MCAsks == 1..2

\* Nothing tells one value of the column from another.
MCSymmetry == Permutations(Filters)
=============================================================================
