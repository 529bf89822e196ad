----------------------------- MODULE Filesystem -----------------------------
(***************************************************************************)
(* Filesystem (core/filesystem): one tree of directories and files, and    *)
(* the owner and the grants of each node.  Every operation is one          *)
(* serialized write transaction; between two of them a client holds what   *)
(* it last read (a view), and edits against its revision.                  *)
(*                                                                         *)
(* Access is per node: owners may do everything, others what the grants on *)
(* that very node give them or one of their groups.  Nothing is inherited. *)
(***************************************************************************)
EXTENDS Integers, FiniteSets

CONSTANTS
    Node, Root,     \* identities of nodes (uuid4), and the fixed one of the root
    Name,
    User, Group,
    System,         \* SYSTEM_ROOT_OWNER
    None,
    Identity,       \* verified callers: [user, groups]
    Offers,         \* sets of permissions that are granted
    Client,         \* those who hold a view
    MaxRevision,    \* bound: revisions of each node
    MaxDirectories, \* bound: directories, with the root
    MaxGrants       \* bound: grants at a time

Permission == {"discover", "read", "write", "delete", "share"}
Principal == User \cup Group
Kind == {"directory", "file"}
Row == [kind : Kind, parent : Node \cup {None}, name : Name \cup {None},
        revision : Nat \ {0}]
Rights == [Principal -> SUBSET Permission]

ASSUME FilesystemAssumption ==
    /\ Root \in Node
    /\ None \notin Node /\ None \notin Name /\ None \notin Row
    /\ System \notin User /\ None \notin User \cup {System}
    /\ User \cap Group = {}
    /\ Identity \subseteq [user : User, groups : SUBSET Group]
    /\ Offers \subseteq (SUBSET Permission) \ {{}}
    /\ MaxRevision \in [Node -> Nat]

VARIABLES
    node,       \* node[n]: its row, or None (NODE_TABLE)
    drawn,      \* identities given to a node so far
    owner,      \* owner[n], or None (OWNER_TABLE)
    grants,     \* grants[n][p], {} if there is no row (GRANT_TABLE)
    groups,     \* registered groups (GROUP_TABLE)
    home,       \* home[u]: the node bound to u, or None
    announced,  \* an event has been appended that its reader has not seen
    view        \* view[c]: what client c has read of a node, or None

policies == <<owner, grants, groups>>
vars == <<node, drawn, policies, home, announced, view>>

Live == { n \in Node : node[n] # None }
IsDirectory(n) == n \in Live /\ node[n].kind = "directory"
NoRights == [p \in Principal |-> {}]

\* Mutant: no event is appended.
Silent == UNCHANGED announced

(* append_discovery_changed, in the transaction that makes the change. *)
Announces == announced' = TRUE

Init ==
    /\ node = [n \in Node |-> IF n = Root THEN [kind |-> "directory", parent |-> None,
                                                name |-> None, revision |-> 1] ELSE None]
    /\ drawn = {Root}
    /\ owner = [n \in Node |-> None]
    /\ grants = [n \in Node |-> NoRights]
    /\ groups = {}
    /\ home = [u \in User |-> None]
    /\ announced = TRUE
    /\ view = [c \in Client |-> None]

-----------------------------------------------------------------------------
(* Authorization.                                                          *)

(* effective_permissions of a caller on a node. *)
Effective(i, n) ==
    IF n \notin Live \/ owner[n] = None THEN {}
    ELSE IF owner[n] = i.user THEN Permission
    ELSE UNION { grants[n][p] : p \in {i.user} \cup i.groups }

CanWrite(i, n) == {"discover", "write"} \subseteq Effective(i, n)
CanDelete(i, n) == {"discover", "delete"} \subseteq Effective(i, n)
CanShare(i, n) == {"discover", "share"} \subseteq Effective(i, n)

(* What permitted_operations of any caller is computed from. *)
Discovery == <<[n \in Node |-> IF n \in Live THEN node[n].kind ELSE None], owner, grants>>

-----------------------------------------------------------------------------
(* Creation.                                                               *)

NameIsFree(p, nm) == \A n \in Live : ~(node[n].parent = p /\ node[n].name = nm)

(* An identity that no node has had (uuid4): it does not matter which.     *)
IsFresh(n) == n \notin drawn /\ n = CHOOSE m \in Node : m \notin drawn

(* create_node and set_owner, and update_node if there is content: the new *)
(* node has no policies of its own (require_unowned_unshared_node).        *)
Creates(n, p, nm, kind, revision) ==
    /\ IsFresh(n)
    /\ IsDirectory(p) /\ NameIsFree(p, nm)
    /\ owner[n] = None /\ grants[n] = NoRights
    /\ node' = [node EXCEPT ![n] = [kind |-> kind, parent |-> p, name |-> nm,
                                    revision |-> revision]]
    /\ Cardinality({ m \in Node : node'[m] # None /\ node'[m].kind = "directory" })
         <= MaxDirectories
    /\ drawn' = drawn \cup {n}
    /\ Announces

Create(i, n, p, nm, kind) ==
    /\ Creates(n, p, nm, kind, 1)
    /\ CanWrite(i, p)
    /\ owner' = [owner EXCEPT ![n] = i.user]
    /\ UNCHANGED <<grants, groups, home, view>>

(* bootstrap_completed does not raise: only an empty root has no owner. *)
RootIsSound ==
    \/ owner[Root] = System
    \/ /\ owner[Root] = None /\ grants[Root] = NoRights
       /\ \A n \in Live : node[n].parent # Root

(* HomeService.get_or_provision: a directory under the root, for which no  *)
(* permission on the root is needed.  Its own name is unique (uuid4).      *)
ProvisionHome(i, n, nm) ==
    /\ home[i.user] = None /\ RootIsSound
    /\ Creates(n, Root, nm, "directory", 1)
    /\ owner' = [owner EXCEPT ![n] = i.user, ![Root] = System]
    /\ home' = [home EXCEPT ![i.user] = n]
    /\ UNCHANGED <<grants, groups, view>>

-----------------------------------------------------------------------------
(* Updates and deletion, against the revision in a client's view.          *)

Matches(c, n) ==
    /\ n \in Live
    /\ view[c].node = n /\ view[c].row.revision = node[n].revision

\* Mutant: an update keeps the revision.
SameRevision(row) == row

(* updated_metadata: every new version of a row has a revision of its own. *)
Revised(row) == [row EXCEPT !.revision = @ + 1]

\* Mutant: only a move of a node into itself is refused.
AnotherThan(n, p) == p # n

(* _validate_destination walks from p to the root, and must not meet n: so *)
(* some set that contains p and the parents of its members leaves n out.   *)
OutsideOf(n, p) ==
    \E S \in SUBSET Live :
        /\ p \in S /\ n \notin S
        /\ \A m \in S \ {Root} : node[m].parent \in S

(* update_node with a new name or a new parent. *)
Place(c, i, n, nm, p) ==
    /\ Matches(c, n) /\ node[n].revision < MaxRevision[n]
    /\ CanWrite(i, n)
    /\ n # Root /\ <<nm, p>> # <<node[n].name, node[n].parent>>
    /\ p # node[n].parent => CanWrite(i, node[n].parent) /\ CanWrite(i, p)
    /\ IsDirectory(p) /\ OutsideOf(n, p) /\ NameIsFree(p, nm)
    /\ node' = [node EXCEPT ![n] = [Revised(@) EXCEPT !.parent = p, !.name = nm]]
    /\ Announces
    /\ UNCHANGED <<drawn, policies, home, view>>

(* update_node with new metadata only, which no event announces. *)
Describe(c, i, n) ==
    /\ Matches(c, n) /\ node[n].revision < MaxRevision[n]
    /\ CanWrite(i, n)
    /\ node' = [node EXCEPT ![n] = Revised(@)]
    /\ UNCHANGED <<drawn, policies, home, announced, view>>

(* clear_node. *)
ClearPolicies(n) ==
    /\ owner' = [owner EXCEPT ![n] = None]
    /\ grants' = [grants EXCEPT ![n] = NoRights]

(* delete_file: the row and the policies; directories stay. *)
Delete(c, i, n) ==
    /\ Matches(c, n)
    /\ CanDelete(i, n) /\ node[n].kind = "file"
    /\ node' = [node EXCEPT ![n] = None]
    /\ ClearPolicies(n)
    /\ Announces
    /\ UNCHANGED <<drawn, groups, home, view>>

-----------------------------------------------------------------------------
(* Sharing.  Every grant can be managed: the services write direct, non-   *)
(* recursive grants to observed users and registered groups only.          *)

Registered(p) == p \in User \cup groups
GrantRows(g) == { x \in Node \X Principal : g[x[1]][x[2]] # {} }

(* The state of its row, owner and grants that a policy's revision hashes. *)
PolicyRevision(n) ==
    <<"sharing", n, node[n], owner[n], grants[n], { g \in groups : grants[n][g] # {} }>>
RootRevision == <<"root", node[Root], owner[Root], grants[Root],
                  owner[Root] = None /\ \E n \in Live : node[n].parent = Root>>

(* What those read who may not share. *)
Withheld == <<"withheld">>

(* share: adds to what the principal has, whatever anyone has read. *)
Share(i, n, p, offer) ==
    /\ CanShare(i, n) /\ Registered(p)
    /\ ~(offer \subseteq grants[n][p])
    /\ grants' = [grants EXCEPT ![n][p] = @ \cup offer]
    /\ Cardinality(GrantRows(grants')) <= MaxGrants
    /\ Announces
    /\ UNCHANGED <<node, drawn, owner, groups, home, view>>

\* Mutant: the replacement does not ask what its author has read.
ReplaceBlindly(c, i, n, type, asked) ==
    /\ n \in Live /\ CanShare(i, n)
    /\ \A p \in type : asked[p] # {} => Registered(p)
    /\ grants' = [grants EXCEPT ![n] = [p \in Principal |-> IF p \in type THEN asked[p] ELSE @[p]]]
    /\ Cardinality(GrantRows(grants')) <= MaxGrants
    /\ Announces
    /\ UNCHANGED <<node, drawn, owner, groups, home, view>>

(* replace: all the grants of one type of recipient, be it the one that was  *)
(* shown or the other.                                                      *)
Replace(c, i, n, type, asked) ==
    /\ n \in Live
    /\ view[c].policy = PolicyRevision(n)
    /\ CanShare(i, n)
    /\ \A p \in type : asked[p] # {} => Registered(p)
    /\ grants' = [grants EXCEPT ![n] = [p \in Principal |-> IF p \in type THEN asked[p] ELSE @[p]]]
    /\ Cardinality(GrantRows(grants')) <= MaxGrants
    /\ Announces
    /\ UNCHANGED <<node, drawn, owner, groups, home, view>>

(* RootGroupPolicyService.save, for an administrator: registers the groups *)
(* it names, and provisions the root if need be.                           *)
SaveRootPolicy(c, asked) ==
    /\ view[c].policy = RootRevision /\ RootIsSound
    /\ owner' = [owner EXCEPT ![Root] = System]
    /\ grants' = [grants EXCEPT ![Root] = [p \in Principal |-> IF p \in Group THEN asked[p] ELSE @[p]]]
    /\ Cardinality(GrantRows(grants')) <= MaxGrants
    /\ groups' = groups \cup { g \in Group : asked[g] # {} }
    /\ Announces
    /\ UNCHANGED <<node, drawn, home, view>>

(* RootProvisioningService.provision: once, not after a home or a policy   *)
(* has given the root its owner.                                           *)
Provision(p, offer) ==
    /\ owner[Root] = None /\ RootIsSound
    /\ owner' = [owner EXCEPT ![Root] = System]
    /\ grants' = [grants EXCEPT ![Root][p] = offer]
    /\ groups' = groups \cup ({p} \cap Group)
    /\ Announces
    /\ UNCHANGED <<node, drawn, home, view>>

Register(g) ==
    /\ g \notin groups
    /\ groups' = groups \cup {g}
    /\ UNCHANGED <<node, drawn, owner, grants, home, announced, view>>

\* Mutant: only ownership keeps a group in use.
Owns(g) == \E n \in Node : owner[n] = g

InUse(g) == \E n \in Node : grants[n][g] # {} \/ owner[n] = g

(* delete_group, which asks FilesystemGroupUsage in its transaction. *)
Unregister(g) ==
    /\ g \in groups /\ ~InUse(g)
    /\ groups' = groups \ {g}
    /\ UNCHANGED <<node, drawn, owner, grants, home, announced, view>>

-----------------------------------------------------------------------------
(* Reading.                                                                *)

(* A policy is read whole (rights), shown in part, and the revision that    *)
(* comes with what is shown is that of the whole.                           *)
Sees(c, n, shown, policy) ==
    /\ view' = [view EXCEPT ![c] = [node |-> n, row |-> node[n], rights |-> grants[n],
                                    shown |-> shown, policy |-> policy]]
    /\ UNCHANGED <<node, drawn, policies, home, announced>>

\* ?recipient_type= of inspect: one type, or both.
Scopes == {User, Group, Principal}

(* get, and inspect for a caller who may share. *)
Look(c, i, n, scope) ==
    /\ "discover" \in Effective(i, n)
    /\ IF CanShare(i, n)
        THEN Sees(c, n, scope, PolicyRevision(n))
        ELSE Sees(c, n, {}, Withheld)

(* RootGroupPolicyService.inspect. *)
LookAtRoot(c) == Sees(c, Root, Group, RootRevision)

(* The reader of the events computes everybody's operations again. *)
Notice ==
    /\ announced
    /\ announced' = FALSE
    /\ UNCHANGED <<node, drawn, policies, home, view>>

Readers == { c \in Client : view[c] # None }
Asked(type) == [type -> Offers \cup {{}}]

Edits ==
    \/ \E i \in Identity, n, p \in Node, nm \in Name, kind \in Kind : Create(i, n, p, nm, kind)
    \/ \E i \in Identity, n \in Node, nm \in Name : ProvisionHome(i, n, nm)
    \/ \E c \in Readers, i \in Identity :
         \/ \E nm \in Name, p \in Node : Place(c, i, view[c].node, nm, p)
         \/ Describe(c, i, view[c].node)
         \/ Delete(c, i, view[c].node)

Sharing ==
    \/ \E i \in Identity, n \in Node, p \in Principal, offer \in Offers : Share(i, n, p, offer)
    \/ \E c \in Readers, i \in Identity, type \in {User, Group} :
         \E asked \in Asked(type) : Replace(c, i, view[c].node, type, asked)
    \/ \E c \in Readers, asked \in Asked(Group) : SaveRootPolicy(c, asked)
    \/ \E p \in Principal, offer \in Offers : Provision(p, offer)
    \/ \E g \in Group : Register(g) \/ Unregister(g)

Reading ==
    \/ \E c \in Client, i \in Identity, n \in Node, scope \in Scopes : Look(c, i, n, scope)
    \/ \E c \in Client : LookAtRoot(c)
    \/ Notice

Next == Edits \/ Sharing \/ Reading

Spec == Init /\ [][Next]_vars

-----------------------------------------------------------------------------
(* Properties.                                                             *)

TypeOK ==
    /\ node \in [Node -> Row \cup {None}]
    /\ drawn \subseteq Node
    /\ owner \in [Node -> User \cup {System, None}]
    /\ grants \in [Node -> Rights]
    /\ groups \subseteq Group
    /\ home \in [User -> Node \cup {None}]
    /\ announced \in BOOLEAN
    /\ DOMAIN view = Client
    /\ \A c \in Readers :
         /\ view[c].node \in Node /\ view[c].row \in Row
         /\ view[c].rights \in Rights /\ view[c].shown \subseteq Principal

(* The directories are a tree below the root, whatever is moved: every     *)
(* node but the root is in a directory, and no set of nodes contains the   *)
(* parents of all its members.  (get, list and the walk of a later move    *)
(* would fail or never end.)                                               *)
IsTree ==
    /\ IsDirectory(Root) /\ node[Root].parent = None
    /\ \A n \in Live \ {Root} : IsDirectory(node[n].parent)
    /\ \A S \in SUBSET (Live \ {Root}) :
         S # {} => \E n \in S : node[n].parent \notin S

(* A path names one node. *)
SiblingsDiffer ==
    \A m, n \in Live : node[m].parent = node[n].parent /\ node[m].name = node[n].name => m = n

(* Policies live and die with their nodes: a node has an owner as soon as  *)
(* it exists, and what is left of a deleted one is nothing at all.  Only   *)
(* a root that is not provisioned has no owner, and then no grants and no  *)
(* children: provisioning never runs into its conflict.                    *)
PoliciesFollowNodes ==
    /\ \A n \in Node : n \notin Live => owner[n] = None /\ grants[n] = NoRights
    /\ \A n \in Live \ {Root} : owner[n] \in User
    /\ owner[Root] = None => Live = {Root} /\ grants[Root] = NoRights

(* A group that a grant names is registered: the check of the deletion and *)
(* the registration by grants, shares and policies see each other.         *)
GrantedGroupsExist == \A n \in Node, g \in Group : grants[n][g] # {} => g \in groups

(* The home of a user stays a directory of that user, and of no one else.  *)
HomesLast ==
    \A u \in User : home[u] # None => IsDirectory(home[u]) /\ owner[home[u]] = u

(* The namespace by itself, whatever is created, moved and deleted: a tree *)
(* in which a path names one node.                                         *)
NamespaceInv == TypeOK /\ IsTree /\ SiblingsDiffer

(* What the other tables say of it: they are written by other stores, one  *)
(* statement after the other, and are told of its deletions.               *)
SharingInv == PoliciesFollowNodes /\ GrantedGroupsExist /\ HomesLast

(* A revision that a client has read, and that still matches, stands for   *)
(* the very version the client has read: no edit overwrites another.       *)
RevisionsIdentifyVersions ==
    \A c \in Readers : Matches(c, view[c].node) =>
        view[c].row = node[view[c].node]

(* Who withdraws or narrows a grant has read the policy when the grant was  *)
(* just what it is now: none is lost that was made or changed since, unless *)
(* the file is deleted with it.  That she was shown it is not said: who     *)
(* asks for one type of recipient may replace the grants of the other.      *)
NoLaterGrantLost ==
    [][ \A n \in Node, p \in Principal :
          ~(grants[n][p] \subseteq grants'[n][p]) =>
            \/ node'[n] = None
            \/ \E c \in Readers : view[c].node = n /\ view[c].rights[p] = grants[n][p] ]_vars

(* A change of what anybody may do is announced in the same transaction:   *)
(* a reader that has seen all events offers what the policies permit.      *)
ChangesAreAnnounced == [][ Discovery' # Discovery => announced' ]_vars
=============================================================================
