---------------------------- MODULE MCFilesystem ----------------------------
(* Small instances of Filesystem for TLC: alice is a member of a group, bob *)
(* is not. Names are alike, nothing but their equality counts; nodes are    *)
(* not, the first of them is drawn first (IsFresh).                         *)
EXTENDS Filesystem, TLC

CONSTANTS alice, bob, staff

TheIdentities == { [user |-> alice, groups |-> {staff}], [user |-> bob, groups |-> {}] }
TheOffers == { {"discover", "write", "share"} }
MaxRevisions == [n \in Node |-> IF n = Root THEN 1 ELSE 2]
TheSymmetry == Permutations(Name)

\* No action and no property looks at what was shown of a policy.
TheView == <<node, drawn, policies, home, announced,
             [c \in Client |-> IF view[c] = None THEN None
                              ELSE <<view[c].node, view[c].row, view[c].rights, view[c].policy>>]>>
=============================================================================
