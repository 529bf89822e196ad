------------------------------ MODULE MCUploads ------------------------------
(* A small instance of Uploads for TLC: two callers, one directory for both. *)
EXTENDS Uploads

CONSTANTS alice, good, other

TheIdentities == { [user |-> u, groups |-> {}] : u \in {alice} }
TheOffers == { {"discover", "write", "share"} }
TheExpectations == { {good} }
NoRevisions == [n \in Node |-> 1]
==============================================================================
