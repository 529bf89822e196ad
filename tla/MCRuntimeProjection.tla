------------------------ MODULE MCRuntimeProjection ------------------------
(***************************************************************************)
(* Small instances of RuntimeProjection for TLC.                           *)
(***************************************************************************)
EXTENDS RuntimeProjection

\* Three of reconcile()'s projections, in its order: the downstream snapshot
\* is torn between two stores, the permissions survive a failed reload.
MCStages == <<"downstream", "openapi", "permissions">>
MCStore == {"publication", "catalog", "grant"}
MCReads == [downstream |-> <<"publication", "catalog">>,
            openapi |-> <<"publication">>,
            permissions |-> <<"grant">>]

\* Publishing, replacing a connector, granting, and a filtered event.
MCTransactions == {{"publication"}, {"publication", "catalog"}, {"grant"}, {}}
=============================================================================
