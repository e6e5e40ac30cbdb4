-------------------------- MODULE MCListingLocks --------------------------
EXTENDS ListingLocks
MCListings == 1..2
=============================================================================
