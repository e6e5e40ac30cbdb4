-------------------------- MODULE MCListingReview --------------------------
EXTENDS ListingReview, TLC
CONSTANTS a1, a2
MCWindows == {<<0, 1>>, <<1, 2>>}
MCSymmetry == Permutations({a1, a2})
=============================================================================
