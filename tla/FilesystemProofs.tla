-------------------------- MODULE FilesystemProofs --------------------------
(***************************************************************************)
(* The safety properties of Filesystem and of Uploads, for any number of   *)
(* nodes, names, users, groups, clients, sessions and streams.             *)
(***************************************************************************)
EXTENDS Uploads, TLAPS

-----------------------------------------------------------------------------
(* The inductive invariant of the namespace and its policies.              *)

(* Identities are given once; the root is nobody's. *)
IdentityInv == /\ Live \subseteq drawn
               /\ owner[Root] \in {System, None}

(* What a client holds: a row that was, and the policy it came with.       *)
ViewInv(c) ==
    /\ view[c].node \in drawn
    /\ view[c].node \in Live =>
         /\ view[c].row.revision =< node[view[c].node].revision
         /\ view[c].row.revision = node[view[c].node].revision =>
              view[c].row = node[view[c].node]
    /\ \/ view[c].policy = Withheld
       \/ \E row, o, gs :
            view[c].policy = <<"sharing", view[c].node, row, o, view[c].rights, gs>>
       \/ /\ view[c].node = Root
          /\ \E row, o, b : view[c].policy = <<"root", row, o, view[c].rights, b>>

FInv == /\ NamespaceInv /\ SharingInv
        /\ IdentityInv /\ \A c \in Readers : ViewInv(c)

-----------------------------------------------------------------------------
(* The inductive invariant of the uploads.                                 *)

(* A stream fills a session that has been begun, with a body that fits as   *)
(* soon as it is staged; a delegated one holds the session's claim, and     *)
(* only a put fills a session that is not delegated.                        *)
StreamInv(t) ==
    /\ stream[t].kind = "file" <=> Of(t) = None
    /\ Of(t) # None =>
         /\ Of(t) \in Begun
         /\ stream[t].step = "staged" => stream[t].body \in upload[Of(t)].accepts
         /\ stream[t].kind = "put" <=> upload[Of(t)].transfer = "none"
    /\ stream[t].kind = "delegated" =>
         upload[Of(t)].transfer = "claimed" /\ upload[Of(t)].claim = t
    /\ stream[t].step = "releasing" => stream[t].kind = "delegated"

(* A claim is that of a delegated stream, or of one that is gone. *)
ClaimInv(s) ==
    /\ upload[s].transfer = "claimed" <=> upload[s].claim # None
    /\ upload[s].claim \in Task =>
         /\ stream[upload[s].claim] # None /\ Of(upload[s].claim) = s
         /\ stream[upload[s].claim].kind = "delegated"

(* A session holds a body that fits, and its file the same one. *)
FileInv(s) ==
    /\ upload[s].progress = "pending" <=> upload[s].body = None
    /\ upload[s].body # None => upload[s].body \in upload[s].accepts
    /\ upload[s].progress = "completed" /\ upload[s].result \in Live =>
         /\ content[upload[s].result] = upload[s].body
         /\ owner[upload[s].result] = upload[s].owner

(* A session has answered with the one file it has become. *)
ResultInv(s) ==
    /\ s \notin Begun => told[s] = {}
    /\ s \in Begun =>
         /\ upload[s].progress # "completed" => upload[s].result = None /\ told[s] = {}
         /\ upload[s].progress = "completed" =>
              upload[s].result \in drawn /\ told[s] = {upload[s].result}

UInv == /\ FInv /\ UploadTypeOK
        /\ \A t \in Streaming : StreamInv(t)
        /\ \A s \in Begun : ClaimInv(s) /\ FileInv(s)
        /\ \A s \in Upload : ResultInv(s)

-----------------------------------------------------------------------------
(* Rows and rights.                                                        *)

LEMMA LiveRows ==
    ASSUME TypeOK, NEW n \in Live
    PROVE  /\ n \in Node /\ node[n] \in Row
           /\ node[n].kind \in Kind /\ node[n].parent \in Node \cup {None}
           /\ node[n].name \in Name \cup {None} /\ node[n].revision \in Nat \ {0}
  <1>1. node[n] \in Row  BY DEF TypeOK, Live
  <1> QED  BY <1>1 DEF Live, Row

(* The row that Place writes. *)
Moved(row, nm, p) == [Revised(row) EXCEPT !.parent = p, !.name = nm]

LEMMA RowChanges ==
    ASSUME NEW row \in Row, NEW nm \in Name \cup {None}, NEW p \in Node \cup {None}
    PROVE  /\ Revised(row) \in Row
           /\ Revised(row).kind = row.kind /\ Revised(row).parent = row.parent
           /\ Revised(row).name = row.name /\ Revised(row).revision = row.revision + 1
           /\ Moved(row, nm, p) \in Row
           /\ Moved(row, nm, p).kind = row.kind
           /\ Moved(row, nm, p).parent = p
           /\ Moved(row, nm, p).name = nm
           /\ Moved(row, nm, p).revision = row.revision + 1
           /\ row.revision \in Nat \ {0}
  <1>1. row.revision \in Nat \ {0}  BY DEF Row
  <1> PICK r \in Nat \ {0} : r = row.revision + 1  BY <1>1
  <1>2. Revised(row) = [row EXCEPT !.revision = r]  BY DEF Revised
  <1>3. /\ [row EXCEPT !.revision = r] \in Row
        /\ [row EXCEPT !.revision = r].kind = row.kind
        /\ [row EXCEPT !.revision = r].parent = row.parent
        /\ [row EXCEPT !.revision = r].name = row.name
        /\ [row EXCEPT !.revision = r].revision = r
    BY DEF Row
  <1> PICK v \in Row : v = Revised(row)  BY <1>2, <1>3
  <1>4. /\ [v EXCEPT !.parent = p, !.name = nm] \in Row
        /\ [v EXCEPT !.parent = p, !.name = nm].kind = v.kind
        /\ [v EXCEPT !.parent = p, !.name = nm].parent = p
        /\ [v EXCEPT !.parent = p, !.name = nm].name = nm
        /\ [v EXCEPT !.parent = p, !.name = nm].revision = v.revision
    BY DEF Row
  <1>5. Moved(row, nm, p) = [v EXCEPT !.parent = p, !.name = nm]  BY DEF Moved
  <1> QED  BY <1>1, <1>2, <1>3, <1>4, <1>5

(* Whoever may do anything with a node does it with one that is there. *)
LEMMA EffectiveOnLive ==
    ASSUME NEW i, NEW n, NEW permission, permission \in Effective(i, n)
    PROVE  n \in Live /\ owner[n] # None
  BY DEF Effective

LEMMA CanOnLive ==
    ASSUME NEW i, NEW n, CanWrite(i, n) \/ CanDelete(i, n) \/ CanShare(i, n)
    PROVE  n \in Live /\ owner[n] # None
  BY EffectiveOnLive DEF CanWrite, CanDelete, CanShare

(* Nobody can do anything before the root has its owner. *)
LEMMA RootIsOwned ==
    ASSUME FInv, NEW n \in Live, owner[n] # None
    PROVE  owner[Root] = System
  BY DEF FInv, SharingInv, PoliciesFollowNodes, IdentityInv

LEMMA NoRightsType == NoRights \in Rights
  BY DEF NoRights, Rights

(* What the operations on policies leave alone. *)
LEMMA NamespaceKept ==
    ASSUME FInv, TypeOK', UNCHANGED <<node, drawn, view>>
    PROVE  /\ NamespaceInv' /\ (Live \subseteq drawn)'
           /\ (\A c \in Readers : ViewInv(c))'
  <1>1. UNCHANGED <<Live, Readers>>  BY DEF Live, Readers
  <1>2. IsTree'  BY <1>1 DEF FInv, NamespaceInv, IsTree, IsDirectory
  <1>3. SiblingsDiffer'  BY <1>1 DEF FInv, NamespaceInv, SiblingsDiffer
  <1>4. (\A c \in Readers : ViewInv(c))'
    BY <1>1 DEF FInv, ViewInv
  <1> QED  BY <1>1, <1>2, <1>3, <1>4 DEF FInv, NamespaceInv, IdentityInv

-----------------------------------------------------------------------------
(* Creation, by whichever operation.                                       *)

(* A new leaf closes no cycle: without it, the nodes of a cycle had their   *)
(* parents among them before.                                               *)
LEMMA LeafKeepsTree ==
    ASSUME TypeOK, IsTree, NEW n \in Node, n \notin Live, n # Root,
           NEW row \in Row, IsDirectory(row.parent),
           node' = [node EXCEPT ![n] = row]
    PROVE  IsTree'
  <1>1. /\ Live' = Live \cup {n} /\ node'[n] = row
        /\ \A m \in Live : m # n /\ node'[m] = node[m]
    BY FilesystemAssumption DEF Live, TypeOK
  <1>2. row.parent \in Live /\ row.parent # n  BY DEF IsDirectory
  <1>3. \A m \in Node : IsDirectory(m) => IsDirectory(m)'
    BY <1>1 DEF IsDirectory
  <1>4. IsDirectory(Root)' /\ node'[Root].parent = None
    BY <1>1, <1>3, FilesystemAssumption DEF IsTree, IsDirectory
  <1>5. ASSUME NEW m \in Live' \ {Root}
        PROVE  \E d \in Live' : node'[m].parent = d /\ node'[d].kind = "directory"
    <2>1. CASE m = n  BY <1>1, <1>2, <2>1 DEF IsDirectory
    <2>2. CASE m # n
      <3>1. m \in Live \ {Root}  BY <1>1, <2>2
      <3>2. node[m].parent \in Live /\ node[node[m].parent].kind = "directory"
        BY <3>1 DEF IsTree, IsDirectory
      <3> PICK d \in Live : d = node[m].parent  BY <3>2
      <3> QED  BY <1>1, <3>1, <3>2
    <2> QED  BY <2>1, <2>2
  <1>6. ASSUME NEW S \in SUBSET (Live' \ {Root}), S # {}, \A m \in S : node'[m].parent \in S
        PROVE  FALSE
    <2>1. \A m \in S \ {n} : node[m].parent \in S \ {n}
      BY <1>1, <1>6 DEF IsTree, IsDirectory
    <2>2. S \ {n} # {}
      <3>1. CASE n \in S  BY <1>1, <1>2, <1>6, <3>1
      <3>2. CASE n \notin S  BY <1>6, <3>2
      <3> QED  BY <3>1, <3>2
    <2>3. S \ {n} \in SUBSET (Live \ {Root})  BY <1>1
    <2> QED  BY <2>1, <2>2, <2>3 DEF IsTree
  <1>7. \A m \in Live' \ {Root} : IsDirectory(node[m].parent)'
    BY <1>5 DEF IsDirectory
  <1> QED  BY <1>4, <1>6, <1>7 DEF IsTree

(* What Creates does to the rows. *)
LEMMA CreatesRow ==
    ASSUME FInv, NEW n \in Node, NEW p \in Node, NEW nm \in Name, NEW kind \in Kind,
           NEW revision \in Nat \ {0}, Creates(n, p, nm, kind, revision)
    PROVE  /\ n \notin Live /\ n \notin drawn /\ n # Root /\ p # n
           /\ owner[n] = None /\ grants[n] = NoRights
           /\ Live' = Live \cup {n}
           /\ \A m \in Live : node'[m] = node[m]
           /\ \A m \in Node \ {n} : node'[m] = node[m]
           /\ node'[n] = [kind |-> kind, parent |-> p, name |-> nm, revision |-> revision]
           /\ node'[n] \in Row
           /\ drawn' = drawn \cup {n} /\ announced' = TRUE
           /\ node' \in [Node -> Row \cup {None}]
  <1> DEFINE row == [kind |-> kind, parent |-> p, name |-> nm, revision |-> revision]
  <1>1. row \in Row  BY DEF Row
  <1>2. /\ node' = [node EXCEPT ![n] = row]
        /\ n \notin drawn /\ IsDirectory(p)
        /\ owner[n] = None /\ grants[n] = NoRights
        /\ drawn' = drawn \cup {n} /\ announced' = TRUE
    BY DEF Creates, IsFresh, Announces
  <1>3. n \notin Live /\ n # Root /\ p # n
    BY <1>2 DEF FInv, IdentityInv, NamespaceInv, IsTree, IsDirectory
  <1>4. node \in [Node -> Row \cup {None}]  BY DEF FInv, NamespaceInv, TypeOK
  <1> HIDE DEF row
  <1>5. /\ node'[n] = row /\ node' \in [Node -> Row \cup {None}]
        /\ \A m \in Node \ {n} : node'[m] = node[m]
    BY <1>1, <1>2, <1>4
  <1>6. Live' = Live \cup {n} /\ \A m \in Live : node'[m] = node[m]
    BY <1>1, <1>3, <1>5, FilesystemAssumption DEF Live
  <1> QED  BY <1>1, <1>2, <1>3, <1>5, <1>6 DEF row

(* What follows of them, without the row. *)
LEMMA CreatesNode ==
    ASSUME FInv, NEW n \in Node, NEW p \in Node, NEW nm \in Name, NEW kind \in Kind,
           NEW revision \in Nat \ {0}, Creates(n, p, nm, kind, revision)
    PROVE  /\ n \notin Live /\ n \notin drawn /\ n # Root
           /\ Live' = Live \cup {n} /\ drawn' = drawn \cup {n}
           /\ node'[n].parent = p
  <1> DEFINE row == [kind |-> kind, parent |-> p, name |-> nm, revision |-> revision]
  <1>1. /\ n \notin Live /\ n \notin drawn /\ n # Root
        /\ Live' = Live \cup {n} /\ drawn' = drawn \cup {n}
    BY CreatesRow
  <1>2. row.parent = p  OBVIOUS
  <1>3. node' = [node EXCEPT ![n] = row]  BY DEF Creates
  <1>4. node \in [Node -> Row \cup {None}]  BY DEF FInv, NamespaceInv, TypeOK
  <1> HIDE DEF row
  <1> QED  BY <1>1, <1>2, <1>3, <1>4

(* A client's view is of another identity than the one just drawn. *)
LEMMA CreatesViews ==
    ASSUME FInv, NEW n \in Node, n \notin drawn, drawn' = drawn \cup {n}, view' = view,
           Live' = Live \cup {n}, \A m \in Live : node'[m] = node[m]
    PROVE  (\A c \in Readers : ViewInv(c))'
  <1>1. Readers' = Readers  BY DEF Readers
  <1>2. ASSUME NEW c \in Readers PROVE ViewInv(c)'
    <2>1. ViewInv(c)  BY DEF FInv
    <2>2. view[c].node \in drawn /\ view[c].node # n  BY <2>1 DEF ViewInv
    <2>3. view[c].node \in Live' => view[c].node \in Live  BY <2>2
    <2> QED  BY <2>1, <2>2, <2>3 DEF ViewInv
  <1> QED  BY <1>1, <1>2

(* A node is created, with an owner; the root has, or gets, its own. *)
LEMMA CreationStep ==
    ASSUME FInv, NEW n \in Node, NEW p \in Node, NEW nm \in Name, NEW kind \in Kind,
           NEW revision \in Nat \ {0}, NEW u \in User,
           Creates(n, p, nm, kind, revision),
           owner'[n] = u, owner'[Root] = System,
           \A m \in Node \ {n, Root} : owner'[m] = owner[m],
           owner' \in [Node -> User \cup {System, None}],
           \/ home' = home
           \/ kind = "directory" /\ home' = [home EXCEPT ![u] = n],
           UNCHANGED <<grants, groups, view>>
    PROVE  FInv'
  <1> DEFINE row == [kind |-> kind, parent |-> p, name |-> nm, revision |-> revision]
  <1>0. TypeOK /\ IsTree /\ SiblingsDiffer  BY DEF FInv, NamespaceInv
  <1>1. /\ n \notin Live /\ n \notin drawn /\ n # Root
        /\ grants[n] = NoRights
        /\ Live' = Live \cup {n}
        /\ \A m \in Live : node'[m] = node[m]
        /\ \A m \in Node \ {n} : node'[m] = node[m]
        /\ node'[n] = row /\ row \in Row
        /\ drawn' = drawn \cup {n} /\ announced' = TRUE
        /\ node' \in [Node -> Row \cup {None}]
    BY CreatesRow
  <1>2. /\ node' = [node EXCEPT ![n] = row] /\ IsDirectory(p) /\ NameIsFree(p, nm)
    BY DEF Creates
  <1>3. row.parent = p /\ row.name = nm /\ row.kind = kind  OBVIOUS
  <1> HIDE DEF row
  <1>4. TypeOK'
    <2>1. Readers' = Readers  BY DEF Readers
    <2>2. home' \in [User -> Node \cup {None}]  BY <1>0 DEF TypeOK
    <2> QED  BY <1>0, <1>1, <2>1, <2>2 DEF TypeOK
  <1>5. IsTree'  BY <1>0, <1>1, <1>2, <1>3, LeafKeepsTree
  <1>6. SiblingsDiffer'
    <2>1. \A m \in Live : ~(node'[m].parent = p /\ node'[m].name = nm)
      BY <1>1, <1>2 DEF NameIsFree
    <2> QED  BY <1>0, <1>1, <1>3, <2>1 DEF SiblingsDiffer
  <1>7. PoliciesFollowNodes'
    <2>1. PoliciesFollowNodes  BY DEF FInv, SharingInv
    <2>2. \A m \in Node : m \notin Live' => owner'[m] = None /\ grants'[m] = NoRights
      <3>1. Root \in Live  BY <1>0 DEF IsTree, IsDirectory
      <3> QED  BY <1>1, <2>1, <3>1 DEF PoliciesFollowNodes
    <2>3. \A m \in Live' \ {Root} : owner'[m] \in User
      BY <1>1, <2>1 DEF PoliciesFollowNodes, Live
    <2>4. owner'[Root] # None  BY FilesystemAssumption
    <2> QED  BY <2>2, <2>3, <2>4 DEF PoliciesFollowNodes
  <1>8. GrantedGroupsExist'  BY DEF FInv, SharingInv, GrantedGroupsExist
  <1>9. HomesLast'
    <2>1. HomesLast /\ IdentityInv /\ PoliciesFollowNodes  BY DEF FInv, SharingInv
    <2>2. ASSUME NEW v \in User, NEW h \in Node, home[v] = h
          PROVE  IsDirectory(h)' /\ owner'[h] = v
      <3>1. h \in Live /\ node[h].kind = "directory" /\ owner[h] = v
        BY <2>1, <2>2, FilesystemAssumption DEF HomesLast, IsDirectory
      <3>2. h # n /\ h # Root
        BY <1>1, <2>1, <3>1, FilesystemAssumption DEF IdentityInv
      <3> QED  BY <1>1, <3>1, <3>2 DEF IsDirectory
    <2>3. kind = "directory" => IsDirectory(n)'
      BY <1>1, <1>3 DEF IsDirectory
    <2>4. ASSUME NEW v \in User, home'[v] # None
          PROVE  \E h \in Node : home'[v] = h /\ IsDirectory(h)' /\ owner'[h] = v
      <3>1. home[v] \in Node \cup {None}  BY <1>0 DEF TypeOK
      <3>2. CASE home' = home  BY <2>2, <2>4, <3>1, <3>2
      <3>3. CASE kind = "directory" /\ home' = [home EXCEPT ![u] = n]
        <4>1. CASE v = u  BY <1>0, <2>3, <3>3, <4>1 DEF TypeOK
        <4>2. CASE v # u  BY <1>0, <2>2, <2>4, <3>1, <3>3, <4>2 DEF TypeOK
        <4> QED  BY <4>1, <4>2
      <3> QED  BY <3>2, <3>3
    <2> QED  BY <2>4 DEF HomesLast, IsDirectory
  <1>10. IdentityInv'  BY <1>1 DEF FInv, IdentityInv
  <1>11. (\A c \in Readers : ViewInv(c))'  BY <1>1, CreatesViews
  <1> QED
    BY <1>4, <1>5, <1>6, <1>7, <1>8, <1>9, <1>10, <1>11 DEF FInv, NamespaceInv, SharingInv

LEMMA Identities ==
    ASSUME NEW i \in Identity PROVE i.user \in User /\ i.groups \in SUBSET Group
  BY FilesystemAssumption

LEMMA CreateStep ==
    ASSUME FInv, NEW i \in Identity, NEW n \in Node, NEW p \in Node, NEW nm \in Name,
           NEW kind \in Kind, Create(i, n, p, nm, kind)
    PROVE  FInv'
  <1>1. owner[Root] = System  BY CanOnLive, RootIsOwned DEF Create
  <1>2. Creates(n, p, nm, kind, 1)  BY DEF Create
  <1>3. n # Root
    <2>1. 1 \in Nat \ {0}  OBVIOUS
    <2> QED  BY <1>2, <2>1, CreatesRow
  <1>4. i.user \in User  BY Identities
  <1>5. /\ owner'[n] = i.user /\ owner'[Root] = System
        /\ \A m \in Node \ {n, Root} : owner'[m] = owner[m]
        /\ owner' \in [Node -> User \cup {System, None}]
    BY <1>1, <1>3, <1>4, FilesystemAssumption DEF Create, FInv, NamespaceInv, TypeOK
  <1> QED  BY <1>2, <1>4, <1>5, CreationStep DEF Create

LEMMA ProvisionHomeStep ==
    ASSUME FInv, NEW i \in Identity, NEW n \in Node, NEW nm \in Name,
           ProvisionHome(i, n, nm)
    PROVE  FInv'
  <1>1. Creates(n, Root, nm, "directory", 1)  BY DEF ProvisionHome
  <1>2. Root \in Node /\ "directory" \in Kind /\ 1 \in Nat \ {0}
    BY FilesystemAssumption DEF Kind
  <1>3. n # Root  BY <1>1, <1>2, CreatesRow
  <1>4. i.user \in User  BY Identities
  <1>5. /\ owner'[n] = i.user /\ owner'[Root] = System
        /\ \A m \in Node \ {n, Root} : owner'[m] = owner[m]
        /\ owner' \in [Node -> User \cup {System, None}]
    BY <1>2, <1>3, <1>4 DEF ProvisionHome, FInv, NamespaceInv, TypeOK
  <1> QED  BY <1>1, <1>2, <1>4, <1>5, CreationStep DEF ProvisionHome

-----------------------------------------------------------------------------
(* Updates and deletion.                                                   *)

(* A new version of a row that keeps the tree and the names. *)
LEMMA RevisionStep ==
    ASSUME FInv, NEW n \in Live, NEW row \in Row,
           row.kind = node[n].kind, row.revision = node[n].revision + 1,
           node' = [node EXCEPT ![n] = row],
           announced' \in BOOLEAN, UNCHANGED <<drawn, policies, home, view>>,
           IsTree', SiblingsDiffer'
    PROVE  FInv'
  <1>0. TypeOK /\ SharingInv /\ IdentityInv  BY DEF FInv, NamespaceInv
  <1>1. /\ n \in Node /\ node'[n] = row
        /\ \A m \in Node \ {n} : node'[m] = node[m]
        /\ node' \in [Node -> Row \cup {None}]
    BY <1>0 DEF Live, TypeOK
  <1>2. Live' = Live  BY <1>1, FilesystemAssumption DEF Live
  <1>3. \A m \in Live : node'[m].kind = node[m].kind
    BY <1>1 DEF Live
  <1>4. Readers' = Readers  BY DEF Readers
  <1>5. TypeOK'  BY <1>0, <1>1, <1>4 DEF TypeOK, policies
  <1>6. PoliciesFollowNodes'
    BY <1>0, <1>2 DEF SharingInv, PoliciesFollowNodes, policies
  <1>7. GrantedGroupsExist'  BY <1>0 DEF SharingInv, GrantedGroupsExist, policies
  <1>8. HomesLast'
    BY <1>0, <1>2, <1>3 DEF SharingInv, HomesLast, IsDirectory, policies
  <1>9. IdentityInv'  BY <1>0, <1>2 DEF IdentityInv, policies
  <1>10. ASSUME NEW c \in Readers PROVE ViewInv(c)'
    <2>1. ViewInv(c)  BY DEF FInv
    <2>2. CASE view[c].node # n
      <3>1. view[c].node \in Live => node'[view[c].node] = node[view[c].node]
        BY <1>1, <2>2 DEF Live
      <3> QED  BY <1>2, <2>1, <3>1 DEF ViewInv
    <2>3. CASE view[c].node = n
      <3>1. view[c].row.revision =< node[n].revision  BY <2>1, <2>3 DEF ViewInv
      <3>2. view[c].row.revision \in Nat /\ node[n].revision \in Nat
        BY <1>0, LiveRows DEF TypeOK, Row
      <3>3. node'[n].revision = node[n].revision + 1  BY <1>1
      <3>4. /\ view[c].row.revision =< node'[n].revision
            /\ view[c].row.revision # node'[n].revision
        BY <3>1, <3>2, <3>3
      <3> QED  BY <2>1, <2>3, <3>4 DEF ViewInv
    <2> QED  BY <2>2, <2>3
  <1> QED
    BY <1>4, <1>5, <1>6, <1>7, <1>8, <1>9, <1>10 DEF FInv, NamespaceInv, SharingInv

(* A node that is moved to a place outside of what is below it closes no    *)
(* cycle: of a cycle through it, the part in the set that _validate_        *)
(* destination has walked was one already.                                  *)
LEMMA MoveKeepsTree ==
    ASSUME TypeOK, IsTree, NEW n \in Live, n # Root, NEW p, IsDirectory(p), OutsideOf(n, p),
           NEW row \in Row, row.parent = p, row.kind = node[n].kind,
           node' = [node EXCEPT ![n] = row]
    PROVE  IsTree'
  <1>1. /\ n \in Node /\ node'[n] = row
        /\ \A m \in Node \ {n} : node'[m] = node[m]
    BY DEF Live, TypeOK
  <1>2. Live' = Live  BY <1>1, FilesystemAssumption DEF Live
  <1>3. \A m \in Live : node'[m].kind = node[m].kind /\ (m # n => node'[m] = node[m])
    BY <1>1 DEF Live
  <1>4. IsDirectory(Root)' /\ node'[Root].parent = None
    BY <1>2, <1>3 DEF IsTree, IsDirectory
  <1>5. ASSUME NEW m \in Live \ {Root}
        PROVE  \E d \in Live : node'[m].parent = d /\ node'[d].kind = "directory"
    BY <1>1, <1>3 DEF IsTree, IsDirectory
  <1>6. ASSUME NEW S \in SUBSET (Live \ {Root}), S # {}, \A m \in S : node'[m].parent \in S
        PROVE  FALSE
    <2>1. CASE n \notin S
      <3>1. \A m \in S : node[m].parent \in S  BY <1>3, <1>6, <2>1
      <3> QED  BY <1>6, <3>1 DEF IsTree
    <2>2. CASE n \in S
      <3>1. PICK T \in SUBSET Live :
               /\ p \in T /\ n \notin T
               /\ \A m \in T \ {Root} : node[m].parent \in T
        BY DEF OutsideOf
      <3>2. p \in S  BY <1>1, <1>6, <2>2
      <3>3. \A m \in S \cap T : node[m].parent \in S \cap T
        BY <1>3, <1>6, <3>1
      <3>4. S \cap T \in SUBSET (Live \ {Root}) /\ S \cap T # {}
        BY <3>1, <3>2
      <3> QED  BY <3>3, <3>4 DEF IsTree
    <2> QED  BY <2>1, <2>2
  <1>7. \A m \in Live' \ {Root} : IsDirectory(node[m].parent)'
    BY <1>2, <1>5 DEF IsDirectory
  <1> QED  BY <1>2, <1>4, <1>6, <1>7 DEF IsTree

LEMMA PlaceStep ==
    ASSUME FInv, NEW c \in Readers, NEW i \in Identity, NEW n, NEW nm \in Name,
           NEW p \in Node, Place(c, i, n, nm, p)
    PROVE  FInv'
  <1> DEFINE row == Moved(node[n], nm, p)
  <1>0. TypeOK /\ IsTree /\ SiblingsDiffer  BY DEF FInv, NamespaceInv
  <1>1. /\ n \in Live /\ n # Root /\ IsDirectory(p) /\ OutsideOf(n, p) /\ NameIsFree(p, nm)
        /\ node' = [node EXCEPT ![n] = row]
        /\ announced' = TRUE
        /\ UNCHANGED <<drawn, policies, home, view>>
    BY DEF Place, Matches, Announces, Moved
  <1>2. /\ row \in Row /\ row.kind = node[n].kind /\ row.parent = p /\ row.name = nm
        /\ row.revision = node[n].revision + 1
    <2>1. node[n] \in Row /\ nm \in Name \cup {None} /\ p \in Node \cup {None}
      BY <1>0, <1>1, LiveRows
    <2> QED  BY <2>1, RowChanges
  <1> HIDE DEF row
  <1>3. IsTree'  BY <1>0, <1>1, <1>2, MoveKeepsTree
  <1>4. SiblingsDiffer'
    <2>1. /\ node'[n] = row /\ \A m \in Live \ {n} : node'[m] = node[m]
          /\ Live' = Live
      BY <1>0, <1>1, <1>2, FilesystemAssumption DEF Live, TypeOK
    <2>2. \A m \in Live : ~(node[m].parent = p /\ node[m].name = nm)
      BY <1>1 DEF NameIsFree
    <2> QED  BY <1>0, <1>2, <2>1, <2>2 DEF SiblingsDiffer
  <1> QED  BY <1>1, <1>2, <1>3, <1>4, RevisionStep

LEMMA DescribeStep ==
    ASSUME FInv, NEW c \in Readers, NEW i \in Identity, NEW n, Describe(c, i, n)
    PROVE  FInv'
  <1> DEFINE row == Revised(node[n])
  <1>0. TypeOK /\ IsTree /\ SiblingsDiffer  BY DEF FInv, NamespaceInv
  <1>1. /\ n \in Live /\ node' = [node EXCEPT ![n] = row]
        /\ announced' \in BOOLEAN
        /\ UNCHANGED <<drawn, policies, home, view>>
    BY <1>0 DEF Describe, Matches, TypeOK
  <1>2. /\ row \in Row /\ row.kind = node[n].kind /\ row.parent = node[n].parent
        /\ row.name = node[n].name /\ row.revision = node[n].revision + 1
    BY <1>0, <1>1, LiveRows, RowChanges
  <1> HIDE DEF row
  <1>3. /\ Live' = Live
        /\ \A m \in Live : /\ node'[m].kind = node[m].kind
                           /\ node'[m].parent = node[m].parent
                           /\ node'[m].name = node[m].name
    <2>1. /\ n \in Node /\ node'[n] = row
          /\ \A m \in Node \ {n} : node'[m] = node[m]
      BY <1>0, <1>1 DEF Live, TypeOK
    <2>2. Live' = Live  BY <1>1, <1>2, <2>1, FilesystemAssumption DEF Live
    <2>3. ASSUME NEW m \in Live
          PROVE  /\ node'[m].kind = node[m].kind
                 /\ node'[m].parent = node[m].parent
                 /\ node'[m].name = node[m].name
      <3>1. CASE m = n  BY <1>2, <2>1, <3>1
      <3>2. CASE m # n
        <4>1. node'[m] = node[m]  BY <2>1, <3>2 DEF Live
        <4> QED  BY <4>1
      <3> QED  BY <3>1, <3>2
    <2> QED  BY <2>2, <2>3
  <1>4. IsTree'
    <2>1. IsDirectory(Root)' /\ node'[Root].parent = None
      BY <1>0, <1>3 DEF IsTree, IsDirectory
    <2>2. ASSUME NEW m \in Live \ {Root}
          PROVE  \E d \in Live : node'[m].parent = d /\ node'[d].kind = "directory"
      BY <1>0, <1>3 DEF IsTree, IsDirectory
    <2>3. \A m \in Live' \ {Root} : IsDirectory(node[m].parent)'
      BY <1>3, <2>2 DEF IsDirectory
    <2>4. \A S \in SUBSET (Live' \ {Root}) : S # {} => \E m \in S : node'[m].parent \notin S
      BY <1>0, <1>3 DEF IsTree
    <2> QED  BY <2>1, <2>3, <2>4 DEF IsTree
  <1>5. SiblingsDiffer'  BY <1>0, <1>3 DEF SiblingsDiffer
  <1> QED  BY <1>1, <1>2, <1>4, <1>5, RevisionStep

LEMMA DeleteStep ==
    ASSUME FInv, NEW c \in Readers, NEW i \in Identity, NEW n, Delete(c, i, n)
    PROVE  FInv'
  <1>0. /\ TypeOK /\ IsTree /\ SiblingsDiffer /\ IdentityInv
        /\ PoliciesFollowNodes /\ GrantedGroupsExist /\ HomesLast
    BY DEF FInv, NamespaceInv, SharingInv
  <1>1. /\ n \in Live /\ n \in Node /\ node[n].kind = "file"
        /\ owner[Root] = System
        /\ node' = [node EXCEPT ![n] = None]
        /\ owner' = [owner EXCEPT ![n] = None]
        /\ grants' = [grants EXCEPT ![n] = NoRights]
        /\ announced' = TRUE
        /\ UNCHANGED <<drawn, groups, home, view>>
    BY CanOnLive, RootIsOwned DEF Delete, Matches, ClearPolicies, Announces, Live
  <1>2. n # Root  BY <1>0, <1>1 DEF IsTree, IsDirectory
  <1>3. /\ node'[n] = None /\ owner'[n] = None /\ grants'[n] = NoRights
        /\ \A m \in Node \ {n} : /\ node'[m] = node[m] /\ owner'[m] = owner[m]
                                 /\ grants'[m] = grants[m]
    BY <1>0, <1>1 DEF TypeOK
  <1>4. /\ Live' = Live \ {n}
        /\ \A m \in Live' : node'[m] = node[m] /\ m \in Node
    BY <1>1, <1>3 DEF Live
  <1>5. Readers' = Readers  BY <1>1 DEF Readers
  <1>6. TypeOK'
    BY <1>0, <1>1, <1>5, NoRightsType DEF TypeOK
  <1>7. IsTree'
    <2>1. IsDirectory(Root)' /\ node'[Root].parent = None
      BY <1>0, <1>2, <1>4 DEF IsTree, IsDirectory
    <2>2. ASSUME NEW m \in Live' \ {Root}
          PROVE  \E d \in Live' : node'[m].parent = d /\ node'[d].kind = "directory"
      BY <1>0, <1>1, <1>4 DEF IsTree, IsDirectory
    <2>3. \A m \in Live' \ {Root} : IsDirectory(node[m].parent)'
      BY <2>2 DEF IsDirectory
    <2>4. \A S \in SUBSET (Live' \ {Root}) : S # {} => \E m \in S : node'[m].parent \notin S
      BY <1>0, <1>4 DEF IsTree
    <2> QED  BY <2>1, <2>3, <2>4 DEF IsTree
  <1>8. SiblingsDiffer'  BY <1>0, <1>4 DEF SiblingsDiffer
  <1>9. PoliciesFollowNodes'
    <2>1. \A m \in Node : m \notin Live' => owner'[m] = None /\ grants'[m] = NoRights
      BY <1>0, <1>3, <1>4 DEF PoliciesFollowNodes
    <2>2. \A m \in Live' \ {Root} : owner'[m] \in User
      BY <1>0, <1>3, <1>4 DEF PoliciesFollowNodes
    <2>3. owner'[Root] # None
      BY <1>1, <1>2, <1>3, FilesystemAssumption
    <2> QED  BY <2>1, <2>2, <2>3 DEF PoliciesFollowNodes
  <1>10. GrantedGroupsExist'
    <2>1. \A m \in Node, g \in Group : grants'[m][g] # {} => grants[m][g] # {}
      BY <1>3 DEF NoRights, Principal
    <2> QED  BY <1>0, <1>1, <2>1 DEF GrantedGroupsExist
  <1>11. HomesLast'
    <2>1. ASSUME NEW v \in User, NEW h \in Node, home[v] = h
          PROVE  IsDirectory(h)' /\ owner'[h] = v
      <3>1. h \in Live /\ node[h].kind = "directory" /\ owner[h] = v
        BY <1>0, <2>1, FilesystemAssumption DEF HomesLast, IsDirectory
      <3> QED  BY <1>1, <1>3, <1>4, <3>1 DEF IsDirectory
    <2>2. \A v \in User : home[v] \in Node \cup {None}  BY <1>0 DEF TypeOK
    <2> QED  BY <1>1, <2>1, <2>2 DEF HomesLast, IsDirectory
  <1>12. IdentityInv'
    BY <1>0, <1>1, <1>2, <1>3, <1>4, FilesystemAssumption DEF IdentityInv
  <1>13. ASSUME NEW d \in Readers PROVE ViewInv(d)'
    <2>1. ViewInv(d)  BY DEF FInv
    <2> QED  BY <1>1, <1>4, <2>1 DEF ViewInv
  <1> QED
    BY <1>5, <1>6, <1>7, <1>8, <1>9, <1>10, <1>11, <1>12, <1>13
    DEF FInv, NamespaceInv, SharingInv

-----------------------------------------------------------------------------
(* Sharing.                                                                *)

(* Policies change, of nodes that are there and have an owner by now; at    *)
(* most the root gets its own.                                             *)
LEMMA PolicyStep ==
    ASSUME FInv, UNCHANGED <<node, drawn, home, view>>,
           grants' \in [Node -> Rights], groups' \subseteq Group, announced' \in BOOLEAN,
           owner' = owner \/ owner' = [owner EXCEPT ![Root] = System],
           \A n \in Node : grants'[n] # grants[n] => n \in Live /\ owner'[n] # None,
           GrantedGroupsExist'
    PROVE  FInv'
  <1>0. /\ TypeOK /\ IsTree /\ IdentityInv /\ PoliciesFollowNodes /\ HomesLast
    BY DEF FInv, NamespaceInv, SharingInv
  <1>1. Live' = Live /\ Readers' = Readers  BY DEF Live, Readers
  <1>2. /\ \A n \in Node \ {Root} : owner'[n] = owner[n]
        /\ owner'[Root] \in {owner[Root], System}
        /\ owner' \in [Node -> User \cup {System, None}]
    BY <1>0, FilesystemAssumption DEF TypeOK
  <1>3. TypeOK'  BY <1>0, <1>1, <1>2 DEF TypeOK
  <1>4. Root \in Live  BY <1>0 DEF IsTree, IsDirectory
  <1>5. PoliciesFollowNodes'
    <2>1. \A n \in Node : n \notin Live' => owner'[n] = None /\ grants'[n] = NoRights
      BY <1>0, <1>1, <1>2, <1>4 DEF PoliciesFollowNodes
    <2>2. \A n \in Live' \ {Root} : owner'[n] \in User
      BY <1>0, <1>1, <1>2 DEF PoliciesFollowNodes, Live
    <2>3. owner'[Root] = None => Live' = {Root} /\ grants'[Root] = NoRights
      BY <1>0, <1>1, <1>2, FilesystemAssumption DEF PoliciesFollowNodes
    <2> QED  BY <2>1, <2>2, <2>3 DEF PoliciesFollowNodes
  <1>6. HomesLast'
    <2>1. ASSUME NEW v \in User, NEW h \in Node, home[v] = h
          PROVE  IsDirectory(h)' /\ owner'[h] = v
      <3>1. h \in Live /\ node[h].kind = "directory" /\ owner[h] = v
        BY <1>0, <2>1, FilesystemAssumption DEF HomesLast, IsDirectory
      <3>2. h # Root  BY <1>0, <3>1, FilesystemAssumption DEF IdentityInv
      <3> QED  BY <1>1, <1>2, <3>1, <3>2 DEF IsDirectory
    <2>2. \A v \in User : home[v] \in Node \cup {None}  BY <1>0 DEF TypeOK
    <2> QED  BY <2>1, <2>2 DEF HomesLast, IsDirectory
  <1>7. owner'[Root] \in {System, None}  BY <1>0, <1>2 DEF IdentityInv
  <1> QED
    BY <1>3, <1>5, <1>6, <1>7, NamespaceKept DEF FInv, SharingInv, IdentityInv

LEMMA ShareStep ==
    ASSUME FInv, NEW i \in Identity, NEW n \in Node, NEW p \in Principal,
           NEW offer \in Offers, Share(i, n, p, offer)
    PROVE  FInv'
  <1>1. TypeOK /\ GrantedGroupsExist  BY DEF FInv, NamespaceInv, SharingInv
  <1>2. offer \in SUBSET Permission  BY FilesystemAssumption
  <1>3. /\ grants' = [grants EXCEPT ![n] = [grants[n] EXCEPT ![p] = grants[n][p] \cup offer]]
        /\ n \in Live /\ owner[n] # None /\ Registered(p) /\ announced' = TRUE
        /\ UNCHANGED <<node, drawn, owner, groups, home, view>>
    BY CanOnLive DEF Share, Announces
  <1>4. /\ grants' \in [Node -> Rights]
        /\ \A m \in Node \ {n} : grants'[m] = grants[m]
        /\ \A q \in Principal \ {p} : grants'[n][q] = grants[n][q]
    <2>1. grants \in [Node -> Rights] /\ grants[n] \in [Principal -> SUBSET Permission]
      BY <1>1 DEF TypeOK, Rights
    <2>2. [grants[n] EXCEPT ![p] = grants[n][p] \cup offer] \in [Principal -> SUBSET Permission]
      BY <1>2, <2>1
    <2>3. grants'[n] = [grants[n] EXCEPT ![p] = grants[n][p] \cup offer]
      BY <1>3, <2>1
    <2> QED  BY <1>3, <2>1, <2>2, <2>3 DEF Rights
  <1>5. ASSUME NEW m \in Node, NEW g \in Group, grants'[m][g] # {}
        PROVE  g \in groups'
    <2>1. CASE m = n /\ g = p
      BY <1>3, <2>1, FilesystemAssumption DEF Registered
    <2>2. CASE ~(m = n /\ g = p)
      <3>1. grants[m][g] # {}  BY <1>4, <1>5, <2>2 DEF Principal
      <3> QED  BY <1>1, <1>3, <3>1 DEF GrantedGroupsExist
    <2> QED  BY <2>1, <2>2
  <1>6. GrantedGroupsExist'  BY <1>5 DEF GrantedGroupsExist
  <1>7. groups' \subseteq Group /\ announced' \in BOOLEAN  BY <1>1, <1>3 DEF TypeOK
  <1> QED  BY <1>3, <1>4, <1>6, <1>7, PolicyStep

(* The rights of a node, after those of one type of recipient are replaced. *)
LEMMA ReplacedRights ==
    ASSUME TypeOK, NEW n \in Node, NEW type \in {User, Group}, NEW asked \in Asked(type)
    PROVE  [p \in Principal |-> IF p \in type THEN asked[p] ELSE grants[n][p]] \in Rights
  <1>1. \A p \in type : asked[p] \in SUBSET Permission
    BY FilesystemAssumption DEF Asked
  <1> QED  BY <1>1 DEF TypeOK, Rights

LEMMA ReplaceStep ==
    ASSUME FInv, NEW c \in Readers, NEW i \in Identity, NEW n,
           NEW type \in {User, Group}, NEW asked \in Asked(type),
           Replace(c, i, n, type, asked)
    PROVE  FInv'
  <1> DEFINE rights == [p \in Principal |-> IF p \in type THEN asked[p] ELSE grants[n][p]]
  <1>1. TypeOK /\ GrantedGroupsExist  BY DEF FInv, NamespaceInv, SharingInv
  <1>2. /\ grants' = [grants EXCEPT ![n] = rights]
        /\ n \in Live /\ n \in Node /\ owner[n] # None /\ announced' = TRUE
        /\ \A p \in type : asked[p] # {} => Registered(p)
        /\ UNCHANGED <<node, drawn, owner, groups, home, view>>
    BY CanOnLive DEF Replace, Announces, Live
  <1>3. rights \in Rights  BY <1>1, <1>2, ReplacedRights
  <1>4. \A g \in Group : rights[g] = IF g \in type THEN asked[g] ELSE grants[n][g]
    BY DEF Principal
  <1> HIDE DEF rights
  <1>5. /\ grants' \in [Node -> Rights] /\ grants'[n] = rights
        /\ \A m \in Node \ {n} : grants'[m] = grants[m]
    BY <1>1, <1>2, <1>3 DEF TypeOK
  <1>6. ASSUME NEW m \in Node, NEW g \in Group, grants'[m][g] # {}
        PROVE  g \in groups'
    <2>1. CASE m = n /\ g \in type
      BY <1>2, <1>4, <1>5, <1>6, <2>1, FilesystemAssumption DEF Registered
    <2>2. CASE ~(m = n /\ g \in type)
      <3>1. grants[m][g] # {}  BY <1>4, <1>5, <1>6, <2>2
      <3> QED  BY <1>1, <1>2, <3>1 DEF GrantedGroupsExist
    <2> QED  BY <2>1, <2>2
  <1>7. GrantedGroupsExist'  BY <1>6 DEF GrantedGroupsExist
  <1>8. groups' \subseteq Group /\ announced' \in BOOLEAN  BY <1>1, <1>2 DEF TypeOK
  <1> QED  BY <1>2, <1>5, <1>7, <1>8, PolicyStep

LEMMA SaveRootPolicyStep ==
    ASSUME FInv, NEW c \in Readers, NEW asked \in Asked(Group), SaveRootPolicy(c, asked)
    PROVE  FInv'
  <1> DEFINE rights == [p \in Principal |-> IF p \in Group THEN asked[p] ELSE grants[Root][p]]
  <1>1. TypeOK /\ GrantedGroupsExist /\ IsTree  BY DEF FInv, NamespaceInv, SharingInv
  <1>2. /\ grants' = [grants EXCEPT ![Root] = rights]
        /\ owner' = [owner EXCEPT ![Root] = System]
        /\ groups' = groups \cup { g \in Group : asked[g] # {} }
        /\ announced' = TRUE
        /\ UNCHANGED <<node, drawn, home, view>>
    BY DEF SaveRootPolicy, Announces
  <1>3. Root \in Live /\ Root \in Node  BY <1>1 DEF IsTree, IsDirectory, Live
  <1>4. rights \in Rights  BY <1>1, <1>3, ReplacedRights
  <1>5. \A g \in Group : rights[g] = asked[g]  BY DEF Principal
  <1> HIDE DEF rights
  <1>6. /\ grants' \in [Node -> Rights] /\ grants'[Root] = rights
        /\ \A m \in Node \ {Root} : grants'[m] = grants[m]
    BY <1>1, <1>2, <1>3, <1>4 DEF TypeOK
  <1>7. GrantedGroupsExist'
    BY <1>1, <1>2, <1>5, <1>6 DEF GrantedGroupsExist
  <1>8. /\ groups' \subseteq Group /\ announced' \in BOOLEAN
        /\ owner'[Root] # None
    BY <1>1, <1>2, <1>3, FilesystemAssumption DEF TypeOK
  <1> QED  BY <1>2, <1>3, <1>6, <1>7, <1>8, PolicyStep

LEMMA ProvisionStep ==
    ASSUME FInv, NEW p \in Principal, NEW offer \in Offers, Provision(p, offer)
    PROVE  FInv'
  <1>1. TypeOK /\ GrantedGroupsExist /\ IsTree  BY DEF FInv, NamespaceInv, SharingInv
  <1>2. offer \in SUBSET Permission  BY FilesystemAssumption
  <1>3. /\ grants' = [grants EXCEPT ![Root] = [@ EXCEPT ![p] = offer]]
        /\ owner' = [owner EXCEPT ![Root] = System]
        /\ groups' = groups \cup ({p} \cap Group)
        /\ announced' = TRUE
        /\ UNCHANGED <<node, drawn, home, view>>
    BY DEF Provision, Announces
  <1>4. Root \in Live /\ Root \in Node  BY <1>1 DEF IsTree, IsDirectory, Live
  <1>5. /\ grants' \in [Node -> Rights]
        /\ \A m \in Node \ {Root} : grants'[m] = grants[m]
        /\ \A q \in Principal \ {p} : grants'[Root][q] = grants[Root][q]
    BY <1>1, <1>2, <1>3, <1>4 DEF TypeOK, Rights
  <1>6. ASSUME NEW m \in Node, NEW g \in Group, grants'[m][g] # {}
        PROVE  g \in groups'
    <2>1. CASE g = p  BY <1>3, <2>1
    <2>2. CASE g # p
      <3>1. grants[m][g] # {}  BY <1>4, <1>5, <1>6, <2>2 DEF Principal
      <3> QED  BY <1>1, <1>3, <3>1 DEF GrantedGroupsExist
    <2> QED  BY <2>1, <2>2
  <1>7. GrantedGroupsExist'  BY <1>6 DEF GrantedGroupsExist
  <1>8. /\ groups' \subseteq Group /\ announced' \in BOOLEAN
        /\ owner'[Root] # None
    BY <1>1, <1>3, <1>4, FilesystemAssumption DEF TypeOK
  <1> QED  BY <1>3, <1>4, <1>5, <1>7, <1>8, PolicyStep

LEMMA RegisterStep ==
    ASSUME FInv, NEW g \in Group, Register(g) \/ Unregister(g) PROVE FInv'
  <1>1. TypeOK /\ GrantedGroupsExist  BY DEF FInv, NamespaceInv, SharingInv
  <1>2. /\ UNCHANGED <<node, drawn, owner, grants, home, announced, view>>
        /\ groups' \subseteq Group
    BY <1>1 DEF Register, Unregister, TypeOK
  <1>3. \A n \in Node, h \in Group : grants[n][h] # {} => h \in groups'
    BY <1>1 DEF GrantedGroupsExist, Register, Unregister, InUse
  <1>4. GrantedGroupsExist'  BY <1>2, <1>3 DEF GrantedGroupsExist
  <1>5. grants' \in [Node -> Rights] /\ announced' \in BOOLEAN  BY <1>1, <1>2 DEF TypeOK
  <1> QED  BY <1>2, <1>4, <1>5, PolicyStep

-----------------------------------------------------------------------------
(* Reading.                                                                *)

(* A client sees a row that is there, and the policy it comes with. *)
LEMMA SeesStep ==
    ASSUME FInv, NEW c \in Client, NEW n \in Live, NEW shown \in SUBSET Principal,
           NEW policy, Sees(c, n, shown, policy),
           \/ policy = Withheld
           \/ \E row, o, gs : policy = <<"sharing", n, row, o, grants[n], gs>>
           \/ n = Root /\ \E row, o, b : policy = <<"root", row, o, grants[n], b>>
    PROVE  FInv'
  <1> DEFINE seen == [node |-> n, row |-> node[n], rights |-> grants[n],
                 shown |-> shown, policy |-> policy]
  <1>1. /\ TypeOK /\ IsTree /\ SiblingsDiffer /\ IdentityInv
        /\ PoliciesFollowNodes /\ GrantedGroupsExist /\ HomesLast
    BY DEF FInv, NamespaceInv, SharingInv
  <1>2. /\ view' = [view EXCEPT ![c] = seen]
        /\ UNCHANGED <<node, drawn, policies, home, announced>>
    BY DEF Sees
  <1>3. /\ seen.node = n /\ seen.row = node[n] /\ seen.rights = grants[n]
        /\ seen.shown = shown /\ seen.policy = policy
    OBVIOUS
  <1>4. n \in Node /\ node[n] \in Row /\ grants[n] \in Rights /\ n \in drawn
    BY <1>1, LiveRows DEF TypeOK, IdentityInv
  <1> HIDE DEF seen
  <1>5. /\ DOMAIN view' = Client /\ view'[c] = seen
        /\ \A d \in Client \ {c} : view'[d] = view[d]
    BY <1>1, <1>2 DEF TypeOK
  <1>6. Live' = Live  BY <1>2 DEF Live
  <1>7. ASSUME NEW d \in Readers', d # c
        PROVE  d \in Readers /\ view'[d] = view[d]
    BY <1>5, <1>7 DEF Readers
  <1>8. TypeOK'
    <2>1. ASSUME NEW d \in Readers'
          PROVE  /\ view'[d].node \in Node /\ view'[d].row \in Row
                 /\ view'[d].rights \in Rights /\ view'[d].shown \subseteq Principal
      BY <1>1, <1>3, <1>4, <1>5, <1>7 DEF TypeOK
    <2> QED  BY <1>1, <1>2, <1>5, <2>1 DEF TypeOK, policies
  <1>9. ASSUME NEW d \in Readers' PROVE ViewInv(d)'
    <2>1. CASE d = c
      <3>1. view'[d].node \in drawn' /\ view'[d].row = node'[view'[d].node]
        BY <1>2, <1>3, <1>4, <1>5, <2>1
      <3>2. node[n].revision =< node[n].revision  BY <1>4 DEF Row
      <3>3. \/ view'[d].policy = Withheld
            \/ \E row, o, gs :
                 view'[d].policy = <<"sharing", view'[d].node, row, o, view'[d].rights, gs>>
            \/ /\ view'[d].node = Root
               /\ \E row, o, b : view'[d].policy = <<"root", row, o, view'[d].rights, b>>
        BY <1>3, <1>5, <2>1
      <3>4. view'[d].row.revision =< node'[view'[d].node].revision
        BY <1>2, <1>3, <1>5, <2>1, <3>2
      <3>5. Withheld' = Withheld  BY DEF Withheld
      <3> QED  BY <3>1, <3>3, <3>4, <3>5 DEF ViewInv
    <2>2. CASE d # c
      <3>1. d \in Readers /\ view'[d] = view[d]  BY <1>7, <2>2
      <3>2. ViewInv(d)  BY <3>1 DEF FInv
      <3> QED  BY <1>2, <1>6, <3>1, <3>2 DEF ViewInv
    <2> QED  BY <2>1, <2>2
  <1>10. IsTree'  BY <1>1, <1>2, <1>6 DEF IsTree, IsDirectory
  <1>11. SiblingsDiffer'  BY <1>1, <1>2, <1>6 DEF SiblingsDiffer
  <1>12. PoliciesFollowNodes'  BY <1>1, <1>2, <1>6 DEF PoliciesFollowNodes, policies
  <1>13. GrantedGroupsExist'  BY <1>1, <1>2 DEF GrantedGroupsExist, policies
  <1>14. HomesLast'  BY <1>1, <1>2, <1>6 DEF HomesLast, IsDirectory, policies
  <1>15. IdentityInv'  BY <1>1, <1>2, <1>6 DEF IdentityInv, policies
  <1> QED
    BY <1>8, <1>9, <1>10, <1>11, <1>12, <1>13, <1>14, <1>15
    DEF FInv, NamespaceInv, SharingInv

LEMMA LookStep ==
    ASSUME FInv, NEW c \in Client, NEW i \in Identity, NEW n \in Node, NEW scope \in Scopes,
           Look(c, i, n, scope)
    PROVE  FInv'
  <1>1. n \in Live  BY EffectiveOnLive DEF Look
  <1>2. CASE CanShare(i, n)
    <2>1. scope \in SUBSET Principal  BY DEF Scopes, Principal
    <2> QED  BY <1>1, <1>2, <2>1, SeesStep DEF Look, PolicyRevision
  <1>3. CASE ~CanShare(i, n)
    <2>1. {} \in SUBSET Principal  OBVIOUS
    <2> QED  BY <1>1, <1>3, <2>1, SeesStep DEF Look
  <1> QED  BY <1>2, <1>3

LEMMA LookAtRootStep ==
    ASSUME FInv, NEW c \in Client, LookAtRoot(c) PROVE FInv'
  <1>1. Root \in Live  BY DEF FInv, NamespaceInv, IsTree, IsDirectory
  <1>2. Group \in SUBSET Principal  BY DEF Principal
  <1> QED  BY <1>1, <1>2, SeesStep DEF LookAtRoot, RootRevision

(* Nothing but the events, or nothing at all. *)
LEMMA NoticeStep ==
    ASSUME FInv, announced' \in BOOLEAN, UNCHANGED <<node, drawn, policies, home, view>>
    PROVE  FInv'
  <1>1. UNCHANGED <<owner, grants, groups>>  BY DEF policies
  <1>2. GrantedGroupsExist'
    BY <1>1 DEF FInv, SharingInv, GrantedGroupsExist
  <1>3. grants' \in [Node -> Rights] /\ groups' \subseteq Group
    BY <1>1 DEF FInv, NamespaceInv, TypeOK
  <1> QED  BY <1>1, <1>2, <1>3, PolicyStep

-----------------------------------------------------------------------------
(* The namespace and its policies, by themselves.                          *)

LEMMA FInvInit == ASSUME Init PROVE FInv
  <1>1. /\ node[Root] = [kind |-> "directory", parent |-> None, name |-> None,
                         revision |-> 1]
        /\ \A n \in Node \ {Root} : node[n] = None
        /\ drawn = {Root} /\ Root \in Node
        /\ owner = [n \in Node |-> None] /\ grants = [n \in Node |-> NoRights]
        /\ groups = {} /\ home = [u \in User |-> None] /\ announced = TRUE
        /\ view = [c \in Client |-> None]
    BY FilesystemAssumption DEF Init
  <1>2. node[Root] \in Row
    BY <1>1 DEF Row, Kind
  <1>3. node \in [Node -> Row \cup {None}]
    BY <1>2 DEF Init, Row, Kind
  <1>4. Live = {Root}  BY <1>1, <1>2, FilesystemAssumption DEF Live
  <1>5. Readers = {}  BY <1>1 DEF Readers
  <1>6. TypeOK  BY <1>1, <1>3, <1>5, NoRightsType DEF TypeOK
  <1>7. IsTree  BY <1>1, <1>4 DEF IsTree, IsDirectory
  <1>8. SiblingsDiffer  BY <1>4 DEF SiblingsDiffer
  <1>9. PoliciesFollowNodes  BY <1>1, <1>4 DEF PoliciesFollowNodes
  <1>10. GrantedGroupsExist
    BY <1>1 DEF GrantedGroupsExist, NoRights, Principal
  <1>11. HomesLast  BY <1>1 DEF HomesLast
  <1>12. IdentityInv  BY <1>1, <1>4 DEF IdentityInv
  <1> QED
    BY <1>5, <1>6, <1>7, <1>8, <1>9, <1>10, <1>11, <1>12
    DEF FInv, NamespaceInv, SharingInv

LEMMA EditsStep == ASSUME FInv, Edits PROVE FInv'
  BY CreateStep, ProvisionHomeStep, PlaceStep, DescribeStep, DeleteStep DEF Edits

LEMMA SharingStep == ASSUME FInv, Sharing PROVE FInv'
  BY ShareStep, ReplaceStep, SaveRootPolicyStep, ProvisionStep, RegisterStep
  DEF Sharing

LEMMA ReadingStep == ASSUME FInv, Reading PROVE FInv'
  <1>1. CASE Notice  BY <1>1, NoticeStep DEF Notice
  <1> QED  BY <1>1, LookStep, LookAtRootStep DEF Reading

LEMMA FInvNext == ASSUME FInv, [Next]_vars PROVE FInv'
  <1>1. CASE UNCHANGED vars
    <2>1. announced' \in BOOLEAN  BY <1>1 DEF vars, FInv, NamespaceInv, TypeOK
    <2> QED  BY <1>1, <2>1, NoticeStep DEF vars
  <1> QED  BY <1>1, EditsStep, SharingStep, ReadingStep DEF Next

(* The inductive invariant of the namespace and its policies. *)
THEOREM FilesystemInvariance == Spec => []FInv
  <1>1. Init => FInv  BY FInvInit
  <1>2. FInv /\ [Next]_vars => FInv'  BY FInvNext
  <1> QED  BY <1>1, <1>2, PTL DEF Spec

(* Whatever is created, moved and deleted, the directories are a tree in    *)
(* which a path names one node (_validate_destination, _require_available). *)
THEOREM NamespaceInvariance == Spec => []NamespaceInv
  <1>1. FInv => NamespaceInv  BY DEF FInv
  <1> QED  BY <1>1, FilesystemInvariance, PTL

(* Owners, grants, groups and homes are those of nodes that are there,      *)
(* though other stores write them (the access control store, the groups'   *)
(* deletion, and the provisioning of homes and of the root).               *)
THEOREM SharingInvariance == Spec => []SharingInv
  <1>1. FInv => SharingInv  BY DEF FInv
  <1> QED  BY <1>1, FilesystemInvariance, PTL

(* A revision that still matches stands for the version that was read: no   *)
(* edit overwrites another one (require_revision).                          *)
THEOREM RevisionsCorrect == Spec => []RevisionsIdentifyVersions
  <1>1. FInv => RevisionsIdentifyVersions
    BY DEF FInv, ViewInv, RevisionsIdentifyVersions, Matches
  <1> QED  BY <1>1, FilesystemInvariance, PTL

(* Whoever replaces a policy, and finds the revision unchanged, has read    *)
(* the policy when the rights that are replaced stood in it.                *)
LEMMA ReadersHaveSeen ==
    ASSUME FInv, NEW c \in Readers, NEW n \in Node,
           \/ view[c].node = n /\ view[c].policy = PolicyRevision(n)
           \/ n = Root /\ view[c].policy = RootRevision
    PROVE  view[c].node = n /\ view[c].rights = grants[n]
  <1>1. ViewInv(c)  BY DEF FInv
  <1>2. CASE view[c].policy = Withheld
    <2>1. view[c].policy[1] = "withheld"  BY <1>2 DEF Withheld
    <2>2. view[c].policy[1] \in {"sharing", "root"}  BY DEF PolicyRevision, RootRevision
    <2> QED  BY <2>1, <2>2
  <1>3. ASSUME NEW row, NEW o, NEW gs,
               view[c].policy = <<"sharing", view[c].node, row, o, view[c].rights, gs>>
        PROVE  view[c].node = n /\ view[c].rights = grants[n]
    <2>1. /\ view[c].policy[1] = "sharing"
          /\ view[c].policy[5] = view[c].rights
      BY <1>3
    <2>2. CASE view[c].node = n /\ view[c].policy = PolicyRevision(n)
      <3>1. view[c].policy[5] = grants[n]  BY <2>2 DEF PolicyRevision
      <3> QED  BY <2>1, <2>2, <3>1
    <2>3. CASE view[c].policy = RootRevision
      <3>1. view[c].policy[1] = "root"  BY <2>3 DEF RootRevision
      <3> QED  BY <2>1, <3>1
    <2> QED  BY <2>2, <2>3
  <1>4. ASSUME NEW row, NEW o, NEW b, view[c].node = Root,
               view[c].policy = <<"root", row, o, view[c].rights, b>>
        PROVE  view[c].node = n /\ view[c].rights = grants[n]
    <2>1. /\ view[c].policy[1] = "root"
          /\ view[c].policy[4] = view[c].rights
      BY <1>4
    <2>2. CASE view[c].node = n /\ view[c].policy = PolicyRevision(n)
      <3>1. view[c].policy[1] = "sharing"  BY <2>2 DEF PolicyRevision
      <3> QED  BY <2>1, <3>1
    <2>3. CASE n = Root /\ view[c].policy = RootRevision
      <3>1. view[c].policy[4] = grants[Root]  BY <2>3 DEF RootRevision
      <3> QED  BY <1>4, <2>1, <2>3, <3>1
    <2> QED  BY <2>2, <2>3
  <1> QED  BY <1>1, <1>2, <1>3, <1>4 DEF ViewInv

(* A grant is lost with its node, or to somebody who has read its policy. *)
LEMMA GrantsLost ==
    ASSUME FInv, Next, NEW n \in Node, NEW p \in Principal,
           ~(grants[n][p] \subseteq grants'[n][p])
    PROVE  \/ node'[n] = None
           \/ \E c \in Readers : view[c].node = n /\ view[c].rights[p] = grants[n][p]
  <1>0. TypeOK /\ grants' # grants  BY DEF FInv, NamespaceInv, Rights
  <1>1. CASE Edits
    <2>1. PICK c \in Readers, i \in Identity : Delete(c, i, view[c].node)
      BY <1>0, <1>1 DEF Edits, Create, ProvisionHome, Place, Describe, policies
    <2> QED
      BY <1>0, <2>1 DEF Delete, ClearPolicies, TypeOK
  <1>2. ASSUME NEW i \in Identity, NEW m \in Node, NEW q \in Principal, NEW offer \in Offers,
               Share(i, m, q, offer)
        PROVE  FALSE
    <2>1. grants' = [grants EXCEPT ![m] = [grants[m] EXCEPT ![q] = grants[m][q] \cup offer]]
      BY <1>2 DEF Share
    <2>2. grants[m] \in [Principal -> SUBSET Permission] /\ grants \in [Node -> Rights]
      BY <1>0 DEF TypeOK, Rights
    <2> QED  BY <2>1, <2>2
  <1>3. ASSUME NEW c \in Readers, NEW i \in Identity, NEW type \in {User, Group},
               NEW asked \in Asked(type), Replace(c, i, view[c].node, type, asked)
        PROVE  view[c].node = n /\ view[c].rights[p] = grants[n][p]
    <2>1. view[c].policy = PolicyRevision(view[c].node)  BY <1>3 DEF Replace
    <2>2. view[c].node = n  BY <1>0, <1>3 DEF Replace, TypeOK
    <2> QED  BY <2>1, <2>2, ReadersHaveSeen
  <1>4. ASSUME NEW c \in Readers, NEW asked \in Asked(Group), SaveRootPolicy(c, asked)
        PROVE  view[c].node = n /\ view[c].rights[p] = grants[n][p]
    <2>1. view[c].policy = RootRevision  BY <1>4 DEF SaveRootPolicy
    <2>2. n = Root  BY <1>0, <1>4 DEF SaveRootPolicy, TypeOK
    <2> QED  BY <2>1, <2>2, ReadersHaveSeen
  <1>5. ASSUME NEW q \in Principal, NEW offer \in Offers, Provision(q, offer)
        PROVE  FALSE
    <2>1. grants[Root] = NoRights
      BY <1>5, FilesystemAssumption DEF Provision, RootIsSound
    <2>2. n = Root  BY <1>0, <1>5 DEF Provision, TypeOK
    <2> QED  BY <2>1, <2>2 DEF NoRights
  <1>6. ASSUME NEW g \in Group, Register(g) \/ Unregister(g) PROVE FALSE
    BY <1>0, <1>6 DEF Register, Unregister
  <1>7. CASE Sharing
    BY <1>2, <1>3, <1>4, <1>5, <1>6, <1>7 DEF Sharing
  <1>8. CASE Reading
    BY <1>0, <1>8 DEF Reading, Look, LookAtRoot, Sees, Notice, policies
  <1> QED  BY <1>1, <1>7, <1>8 DEF Next

(* No grant that was made or changed after the policy was read is withdrawn *)
(* or narrowed, unless its file is deleted: the revision is that of all the *)
(* grants, shown or not (SharingService.replace, the root's save).          *)
THEOREM NoLaterGrantLostCorrect == Spec => NoLaterGrantLost
  <1>1. FInv /\ [Next]_vars =>
          [ \A n \in Node, p \in Principal :
              ~(grants[n][p] \subseteq grants'[n][p]) =>
                \/ node'[n] = None
                \/ \E c \in Readers : view[c].node = n /\ view[c].rights[p] = grants[n][p] ]_vars
    BY GrantsLost
  <1> QED  BY <1>1, FilesystemInvariance, PTL DEF Spec, NoLaterGrantLost

(* A step that appends no event changes nobody's operations. *)
LEMMA UnannouncedSteps ==
    ASSUME FInv, Next, ~announced' PROVE Discovery' = Discovery
  <1>0. TypeOK  BY DEF FInv, NamespaceInv
  <1>1. ASSUME UNCHANGED <<node, owner, grants>> PROVE Discovery' = Discovery
    BY <1>1 DEF Discovery, Live
  <1>2. CASE Edits
    <2>1. PICK c \in Readers, i \in Identity : Describe(c, i, view[c].node)
      BY <1>2 DEF Edits, Create, ProvisionHome, Creates, Place, Delete, Announces
    <2> PICK n \in Live : n = view[c].node  BY <2>1 DEF Describe, Matches
    <2>2. /\ node' = [node EXCEPT ![n] = Revised(node[n])]
          /\ UNCHANGED <<owner, grants>>
      BY <2>1 DEF Describe, policies
    <2>3. Revised(node[n]) \in Row /\ Revised(node[n]).kind = node[n].kind
      BY <1>0, LiveRows, RowChanges
    <2>4. Live' = Live /\ \A m \in Live : node'[m].kind = node[m].kind
      <3>1. \A m \in Node : m # n => node'[m] = node[m]
        BY <1>0, <2>2 DEF TypeOK
      <3>2. node'[n] = Revised(node[n])  BY <1>0, <2>2 DEF TypeOK, Live
      <3> QED  BY <2>3, <3>1, <3>2, FilesystemAssumption DEF Live
    <2>5. [m \in Node |-> IF m \in Live' THEN node'[m].kind ELSE None]
            = [m \in Node |-> IF m \in Live THEN node[m].kind ELSE None]
      BY <2>4
    <2> QED  BY <2>2, <2>5 DEF Discovery
  <1>3. CASE Sharing
    BY <1>1, <1>3
    DEF Sharing, Share, Replace, SaveRootPolicy, Provision, Register, Unregister, Announces
  <1>4. CASE Reading
    BY <1>1, <1>4 DEF Reading, Look, LookAtRoot, Sees, Notice, policies
  <1> QED  BY <1>2, <1>3, <1>4 DEF Next

(* A change of what anybody may do is announced in its own transaction      *)
(* (append_discovery_changed).                                              *)
THEOREM ChangesAreAnnouncedCorrect == Spec => ChangesAreAnnounced
  <1>1. FInv /\ [Next]_vars => [ Discovery' # Discovery => announced' ]_vars
    BY UnannouncedSteps
  <1> QED  BY <1>1, FilesystemInvariance, PTL DEF Spec, ChangesAreAnnounced

-----------------------------------------------------------------------------
(* Sessions and streams.                                                   *)

LEMMA SessionFields ==
    ASSUME UploadTypeOK, NEW s \in Begun
    PROVE  /\ s \in Upload /\ upload[s] \in Session
           /\ upload[s].owner \in User /\ upload[s].parent \in Node
           /\ upload[s].name \in Name /\ upload[s].accepts \in Expectations
           /\ upload[s].identity \in Identity
           /\ upload[s].transfer \in {"none", "available", "claimed", "consumed"}
           /\ upload[s].claim \in Task \cup {None, Lost}
           /\ upload[s].progress \in Unfinished \cup {"completed"}
           /\ upload[s].body \in Body \cup {None}
           /\ upload[s].result \in Node \cup {None}
  <1>1. s \in Upload /\ upload[s] \in Session  BY DEF UploadTypeOK, Begun
  <1> QED  BY <1>1 DEF Session

LEMMA StreamFields ==
    ASSUME UploadTypeOK, NEW t \in Streaming
    PROVE  /\ t \in Task /\ stream[t] \in Stream
           /\ stream[t].kind \in {"put", "delegated", "file"}
           /\ Of(t) \in Upload \cup {None}
           /\ stream[t].identity \in Identity /\ stream[t].parent \in Node
           /\ stream[t].name \in Name /\ stream[t].body \in Body
           /\ stream[t].step \in {"staging", "staged", "releasing"}
  <1>1. t \in Task /\ stream[t] \in Stream  BY DEF UploadTypeOK, Streaming
  <1> QED  BY <1>1 DEF Stream, Of

(* A stored session, and all the others. *)
LEMMA Saved ==
    ASSUME UploadTypeOK, NEW s \in Upload, NEW session \in Session, Save(s, session)
    PROVE  /\ upload' \in [Upload -> Session \cup {None}]
           /\ upload'[s] = session
           /\ \A r \in Upload \ {s} : upload'[r] = upload[r]
           /\ Begun' = Begun \cup {s}
  <1>1. /\ upload' \in [Upload -> Session \cup {None}]
        /\ upload'[s] = session
        /\ \A r \in Upload \ {s} : upload'[r] = upload[r]
    BY DEF Save, UploadTypeOK
  <1>2. session # None  BY UploadsAssumption
  <1> QED  BY <1>1, <1>2 DEF Begun

(* A stream that begins, goes on or ends, and all the others. *)
LEMMA Streamed ==
    ASSUME UploadTypeOK, NEW t \in Task, NEW str \in Stream \cup {None},
           stream' = [stream EXCEPT ![t] = str]
    PROVE  /\ stream' \in [Task -> Stream \cup {None}]
           /\ stream'[t] = str
           /\ \A r \in Task \ {t} : stream'[r] = stream[r]
  BY DEF UploadTypeOK

(* What a step leaves of a stream, of a claim, and of a session's file.     *)
LEMMA StreamStays ==
    ASSUME NEW t \in Streaming, StreamInv(t), stream'[t] = stream[t],
           Of(t) \in Begun =>
              /\ Of(t) \in Begun'
              /\ upload'[Of(t)].accepts = upload[Of(t)].accepts
              /\ upload'[Of(t)].transfer = "none" <=> upload[Of(t)].transfer = "none"
              /\ upload[Of(t)].transfer = "claimed" /\ upload[Of(t)].claim = t =>
                   upload'[Of(t)].transfer = "claimed" /\ upload'[Of(t)].claim = t,
           None \notin Begun
    PROVE  StreamInv(t)'
  <1>1. Of(t)' = Of(t)  BY DEF Of
  <1>2. stream[t].kind = "delegated" => Of(t) # None  BY DEF StreamInv
  <1>3. CASE Of(t) = None  BY <1>1, <1>2, <1>3 DEF StreamInv
  <1>4. CASE Of(t) # None
    <2>1. Of(t) \in Begun  BY <1>4 DEF StreamInv
    <2> QED  BY <1>1, <1>4, <2>1 DEF StreamInv
  <1> QED  BY <1>3, <1>4

LEMMA ClaimStays ==
    ASSUME NEW s \in Begun, ClaimInv(s),
           upload'[s].transfer = upload[s].transfer, upload'[s].claim = upload[s].claim,
           upload[s].claim \in Task /\ stream[upload[s].claim].kind = "delegated" =>
              /\ stream'[upload[s].claim] # None
              /\ stream'[upload[s].claim].upload = stream[upload[s].claim].upload
              /\ stream'[upload[s].claim].kind = stream[upload[s].claim].kind
    PROVE  ClaimInv(s)'
  BY DEF ClaimInv, Of

LEMMA FileStays ==
    ASSUME NEW s \in Begun, FileInv(s),
           upload'[s].progress = upload[s].progress, upload'[s].body = upload[s].body,
           upload'[s].result = upload[s].result, upload'[s].accepts = upload[s].accepts,
           upload'[s].owner = upload[s].owner,
           upload[s].progress = "completed" /\ upload[s].result \in Live' =>
              /\ upload[s].result \in Live
              /\ content'[upload[s].result] = content[upload[s].result]
              /\ owner'[upload[s].result] = owner[upload[s].result]
    PROVE  FileInv(s)'
  BY DEF FileInv

LEMMA ResultStays ==
    ASSUME NEW s \in Upload, ResultInv(s), s \in Begun <=> s \in Begun',
           s \in Begun => /\ upload'[s].progress = upload[s].progress
                          /\ upload'[s].result = upload[s].result,
           told'[s] = told[s], drawn \subseteq drawn'
    PROVE  ResultInv(s)'
  BY DEF ResultInv

(* What becomes of the files that sessions have become: their identities    *)
(* stay drawn, and while they are there they keep content and owner.        *)
FilesKept ==
    /\ drawn \subseteq drawn'
    /\ \A n \in drawn : n \in Live' =>
         /\ n \in Live /\ content'[n] = content[n]
         /\ owner[n] \in User => owner'[n] = owner[n]

(* A step of session s and stream t changes nothing of the others, so that  *)
(* what remains to be shown of it is about these two.                       *)
LEMMA Elsewhere ==
    ASSUME UInv, FInv', UploadTypeOK', FilesKept, NEW s, NEW t,
           \A r \in Upload \ {s} : upload'[r] = upload[r] /\ told'[r] = told[r],
           \A r \in Task \ {t} : stream'[r] = stream[r],
           s \in Begun => /\ s \in Begun'
                          /\ upload'[s].accepts = upload[s].accepts
                          /\ upload'[s].transfer = "none" <=> upload[s].transfer = "none"
                          /\ upload[s].claim \in Task \ {t} =>
                               /\ upload'[s].transfer = upload[s].transfer
                               /\ upload'[s].claim = upload[s].claim,
           t \in Streaming /\ stream[t].kind = "delegated" /\ Of(t) # s =>
              /\ stream'[t] # None
              /\ stream'[t].kind = stream[t].kind /\ stream'[t].upload = stream[t].upload,
           t \in Streaming' => StreamInv(t)',
           s \in Begun' => ClaimInv(s)' /\ FileInv(s)',
           s \in Upload => ResultInv(s)'
    PROVE  UInv'
  <1>0. UploadTypeOK /\ None \notin Begun  BY UploadsAssumption DEF UInv, Begun
  <1>1. ASSUME NEW r \in Streaming', r # t PROVE StreamInv(r)'
    <2>1. r \in Streaming /\ stream'[r] = stream[r]
      <3>1. r \in Task /\ stream'[r] # None  BY <1>1 DEF Streaming
      <3> QED  BY <1>1, <3>1 DEF Streaming
    <2>2. StreamInv(r) /\ r \in Task  BY <2>1 DEF UInv, Streaming
    <2>3. Of(r) \in Begun =>
            /\ Of(r) \in Begun'
            /\ upload'[Of(r)].accepts = upload[Of(r)].accepts
            /\ upload'[Of(r)].transfer = "none" <=> upload[Of(r)].transfer = "none"
            /\ upload[Of(r)].transfer = "claimed" /\ upload[Of(r)].claim = r =>
                 upload'[Of(r)].transfer = "claimed" /\ upload'[Of(r)].claim = r
      <3> PICK d : d = Of(r)  OBVIOUS
      <3> SUFFICES ASSUME d \in Begun
                   PROVE  /\ d \in Begun'
                          /\ upload'[d].accepts = upload[d].accepts
                          /\ upload'[d].transfer = "none" <=> upload[d].transfer = "none"
                          /\ upload[d].transfer = "claimed" /\ upload[d].claim = r =>
                               upload'[d].transfer = "claimed" /\ upload'[d].claim = r
        OBVIOUS
      <3>1. CASE d = s  BY <1>1, <2>2, <3>1
      <3>2. CASE d # s
        <4>1. upload'[d] = upload[d] /\ d \in Upload /\ upload[d] # None
          BY <3>2 DEF Begun
        <4> QED  BY <4>1 DEF Begun
      <3> QED  BY <3>1, <3>2
    <2> QED  BY <1>0, <2>1, <2>2, <2>3, StreamStays
  <1>2. ASSUME NEW r \in Begun', r # s PROVE ClaimInv(r)' /\ FileInv(r)'
    <2>1. r \in Upload /\ r \in Begun /\ upload'[r] = upload[r]
      <3>1. r \in Upload /\ upload'[r] # None  BY <1>2 DEF Begun
      <3> QED  BY <1>2, <3>1 DEF Begun
    <2>2. ClaimInv(r) /\ FileInv(r) /\ ResultInv(r)  BY <2>1 DEF UInv
    <2>3. upload[r].owner \in User /\ upload[r].claim \in Task \cup {None, Lost}
      BY <1>0, <2>1, SessionFields
    <2> PICK q : q = upload[r].claim  OBVIOUS
    <2>4. ASSUME q \in Task
          PROVE  /\ stream'[q] # None
                 /\ stream'[q].upload = stream[q].upload
                 /\ stream'[q].kind = stream[q].kind
      <3>1. stream[q] # None /\ stream[q].upload = r  BY <2>2, <2>4 DEF ClaimInv, Of
      <3>2. CASE q # t  BY <2>4, <3>1, <3>2
      <3>3. CASE q = t
        <4>1. t \in Streaming /\ Of(t) = r /\ stream[t].kind = "delegated"
          BY <2>2, <2>4, <3>1, <3>3 DEF Streaming, Of, ClaimInv
        <4> QED  BY <1>2, <3>3, <4>1
      <3> QED  BY <3>2, <3>3
    <2>5. ClaimInv(r)'  BY <2>1, <2>2, <2>4, ClaimStays
    <2>6. upload[r].progress = "completed" /\ upload[r].result \in Live' =>
            /\ upload[r].result \in Live
            /\ content'[upload[r].result] = content[upload[r].result]
            /\ owner'[upload[r].result] = owner[upload[r].result]
      <3> PICK f : f = upload[r].result  OBVIOUS
      <3>1. ASSUME upload[r].progress = "completed", f \in Live'
            PROVE  f \in Live /\ content'[f] = content[f] /\ owner'[f] = owner[f]
        <4>1. f \in drawn  BY <2>1, <2>2, <3>1 DEF ResultInv
        <4>2. f \in Live /\ content'[f] = content[f] /\ (owner[f] \in User => owner'[f] = owner[f])
          BY <3>1, <4>1 DEF FilesKept
        <4>3. owner[f] = upload[r].owner  BY <2>2, <3>1, <4>2 DEF FileInv
        <4> QED  BY <2>3, <4>2, <4>3
      <3> QED  BY <3>1
    <2>7. FileInv(r)'  BY <2>1, <2>2, <2>6, FileStays
    <2> QED  BY <2>5, <2>7
  <1>3. ASSUME NEW r \in Upload, r # s PROVE ResultInv(r)'
    <2>1. ResultInv(r) /\ drawn \subseteq drawn'  BY DEF UInv, FilesKept
    <2>2. upload'[r] = upload[r] /\ told'[r] = told[r]  BY <1>3
    <2>3. r \in Begun <=> r \in Begun'  BY <2>2 DEF Begun
    <2> QED  BY <2>1, <2>2, <2>3, ResultStays
  <1>4. (\A r \in Streaming : StreamInv(r))'  BY <1>1
  <1>5. (\A r \in Begun : ClaimInv(r) /\ FileInv(r))'  BY <1>2
  <1>6. (\A r \in Upload : ResultInv(r))'  BY <1>3
  <1> QED  BY <1>4, <1>5, <1>6 DEF UInv

(* The steps that leave the namespace, and the files in it, alone. *)
LEMMA QuietSteps ==
    ASSUME FInv, UNCHANGED <<vars, content>>
    PROVE  FInv' /\ FilesKept
  <1>1. UNCHANGED <<drawn, owner, node>>  BY DEF vars, policies
  <1>2. Live' = Live  BY <1>1 DEF Live
  <1> QED  BY <1>1, <1>2, FInvNext DEF FilesKept

(* A file is created, with its content. *)
LEMMA CreatesFileStep ==
    ASSUME FInv, NEW i \in Identity, NEW p \in Node, MayAdd(i, p), NEW n \in Node,
           NEW nm \in Name, NEW u \in User, NEW body \in Body,
           content \in [Node -> Body \cup {None}], CreatesFile(n, p, nm, u, body)
    PROVE  /\ FInv' /\ FilesKept
           /\ n \in Live' /\ n \notin drawn /\ n \in drawn'
           /\ content'[n] = body /\ owner'[n] = u /\ node'[n].parent = p
           /\ content' \in [Node -> Body \cup {None}]
           /\ \A m \in Node \ {n} : content'[m] = content[m]
  <1>0. TypeOK  BY DEF FInv, NamespaceInv
  <1>1. owner[Root] = System  BY CanOnLive, RootIsOwned DEF MayAdd
  <1>2. "file" \in Kind /\ 2 \in Nat \ {0}  BY DEF Kind
  <1>3. Creates(n, p, nm, "file", 2)  BY DEF CreatesFile
  <1>4. /\ n \notin Live /\ n \notin drawn /\ n # Root
        /\ Live' = Live \cup {n} /\ drawn' = drawn \cup {n}
        /\ node'[n].parent = p
    <2> PICK kind \in Kind, revision \in Nat \ {0} : kind = "file" /\ revision = 2
      BY <1>2
    <2>1. Creates(n, p, nm, kind, revision)  BY <1>3
    <2> QED  BY <2>1, CreatesNode
  <1>5. /\ owner'[n] = u /\ owner'[Root] = System
        /\ \A m \in Node \ {n} : owner'[m] = owner[m]
        /\ owner' \in [Node -> User \cup {System, None}]
    BY <1>0, <1>1, <1>4, FilesystemAssumption DEF CreatesFile, TypeOK
  <1>6. /\ content'[n] = body /\ \A m \in Node \ {n} : content'[m] = content[m]
        /\ content' \in [Node -> Body \cup {None}]
    BY DEF CreatesFile
  <1>7. FInv'
    <2>1. UNCHANGED <<grants, groups, view>> /\ home' = home  BY DEF CreatesFile
    <2> QED  BY <1>2, <1>3, <1>5, <2>1, CreationStep
  <1>8. FilesKept
    <2>1. drawn \subseteq Node  BY <1>0 DEF TypeOK
    <2> QED  BY <1>4, <1>5, <1>6, <2>1 DEF FilesKept
  <1> QED  BY <1>4, <1>5, <1>6, <1>7, <1>8

(* A step of a session that no stream takes. *)
LEMMA SessionAlone ==
    ASSUME UInv, FInv', UploadTypeOK', FilesKept, UNCHANGED stream, NEW s \in Upload,
           \A r \in Upload \ {s} : upload'[r] = upload[r] /\ told'[r] = told[r],
           s \in Begun => /\ s \in Begun'
                          /\ upload'[s].accepts = upload[s].accepts
                          /\ upload'[s].transfer = upload[s].transfer
                          /\ upload'[s].claim = upload[s].claim,
           s \in Begun' => ClaimInv(s)' /\ FileInv(s)',
           ResultInv(s)'
    PROVE  UInv'
  <1>1. None \notin Streaming /\ None \notin Streaming'
    BY UploadsAssumption DEF Streaming
  <1>2. \A r \in Task \ {None} : stream'[r] = stream[r]  OBVIOUS
  <1> QED  BY <1>1, <1>2, Elsewhere

(* A step of a stream that no session takes. *)
LEMMA StreamAlone ==
    ASSUME UInv, FInv', UploadTypeOK', FilesKept, UNCHANGED <<upload, told>>,
           NEW t \in Task, \A r \in Task \ {t} : stream'[r] = stream[r],
           t \in Streaming /\ stream[t].kind = "delegated" =>
              /\ stream'[t] # None
              /\ stream'[t].kind = stream[t].kind /\ stream'[t].upload = stream[t].upload,
           t \in Streaming' => StreamInv(t)'
    PROVE  UInv'
  <1>1. None \notin Upload /\ None \notin Begun /\ None \notin Begun'
    BY UploadsAssumption DEF Begun
  <1>2. \A r \in Upload \ {None} : upload'[r] = upload[r] /\ told'[r] = told[r]
    OBVIOUS
  <1> QED  BY <1>1, <1>2, Elsewhere

LEMMA BeginStep ==
    ASSUME UInv, NEW s \in Upload, NEW i \in Identity, NEW p \in Node, NEW nm \in Name,
           NEW accepts \in Expectations, NEW transfer \in {"none", "available"},
           Begin(s, i, p, nm, accepts, transfer)
    PROVE  UInv'
  <1> DEFINE session ==
        [owner |-> i.user, parent |-> p, name |-> nm, accepts |-> accepts,
         identity |-> i, transfer |-> transfer, claim |-> None, expired |-> "nothing",
         progress |-> "pending", body |-> None, result |-> None]
  <1>0. FInv /\ UploadTypeOK /\ ResultInv(s)  BY DEF UInv
  <1>1. session \in Session  BY Identities DEF Session, Unfinished
  <1>2. /\ session.transfer # "claimed" /\ session.claim = None
        /\ session.progress = "pending" /\ session.body = None /\ session.result = None
    OBVIOUS
  <1>3. Save(s, session) /\ s \notin Begun /\ UNCHANGED <<vars, stream, content, told>>
    BY DEF Begin
  <1> HIDE DEF session
  <1>4. /\ upload' \in [Upload -> Session \cup {None}]
        /\ upload'[s] = session
        /\ \A r \in Upload \ {s} : upload'[r] = upload[r]
        /\ Begun' = Begun \cup {s}
    BY <1>0, <1>1, <1>3, Saved
  <1>5. UploadTypeOK'  BY <1>0, <1>3, <1>4 DEF UploadTypeOK
  <1>6. FInv' /\ FilesKept  BY <1>0, <1>3, QuietSteps
  <1>7. ClaimInv(s)'  BY <1>2, <1>4, UploadsAssumption DEF ClaimInv
  <1>8. FileInv(s)'  BY <1>2, <1>4 DEF FileInv
  <1>9. ResultInv(s)'  BY <1>0, <1>2, <1>3, <1>4 DEF ResultInv
  <1> QED  BY <1>3, <1>4, <1>5, <1>6, <1>7, <1>8, <1>9, SessionAlone

LEMMA ExpireStep ==
    ASSUME UInv, NEW s \in Upload, NEW what \in {"transfer", "session"}, Expire(s, what)
    PROVE  UInv'
  <1> DEFINE session == [upload[s] EXCEPT !.expired = what]
  <1>0. FInv /\ UploadTypeOK /\ ResultInv(s)  BY DEF UInv
  <1>1. Save(s, session) /\ s \in Begun /\ UNCHANGED <<vars, stream, content, told>>
    BY DEF Expire
  <1>2. upload[s] \in Session  BY <1>0, <1>1, SessionFields
  <1>3. session \in Session  BY <1>2 DEF Session
  <1>4. /\ session.owner = upload[s].owner /\ session.accepts = upload[s].accepts
        /\ session.transfer = upload[s].transfer /\ session.claim = upload[s].claim
        /\ session.progress = upload[s].progress /\ session.body = upload[s].body
        /\ session.result = upload[s].result
    BY <1>2 DEF Session
  <1> HIDE DEF session
  <1>5. /\ upload' \in [Upload -> Session \cup {None}]
        /\ upload'[s] = session
        /\ \A r \in Upload \ {s} : upload'[r] = upload[r]
        /\ Begun' = Begun \cup {s}
    BY <1>0, <1>1, <1>3, Saved
  <1>6. UploadTypeOK'  BY <1>0, <1>1, <1>5 DEF UploadTypeOK
  <1>7. FInv' /\ FilesKept  BY <1>0, <1>1, QuietSteps
  <1>8. ClaimInv(s) /\ FileInv(s)  BY <1>1 DEF UInv
  <1>9. UNCHANGED <<Live, content, owner, drawn>>  BY <1>1 DEF vars, policies, Live
  <1>10. ClaimInv(s)'
    <2>1. /\ upload'[s].transfer = upload[s].transfer /\ upload'[s].claim = upload[s].claim
          /\ stream' = stream
      BY <1>1, <1>4, <1>5
    <2> QED  BY <1>8, <2>1 DEF ClaimInv, Of
  <1>11. FileInv(s)'  BY <1>1, <1>4, <1>5, <1>8, <1>9, FileStays
  <1>12. ResultInv(s)'  BY <1>0, <1>1, <1>4, <1>5, <1>9 DEF ResultInv
  <1> QED  BY <1>1, <1>4, <1>5, <1>6, <1>7, <1>10, <1>11, <1>12, SessionAlone

(* A file comes into a session: it is filled, or has become a file. *)

LEMMA CompleteStep ==
    ASSUME UInv, NEW s \in Upload, NEW i \in Identity, NEW n \in Node, Complete(s, i, n)
    PROVE  UInv'
  <1> DEFINE session == [upload[s] EXCEPT !.progress = "completed", !.result = n]
  <1>0. FInv /\ UploadTypeOK /\ ResultInv(s)  BY DEF UInv
  <1>1. /\ s \in Begun /\ upload[s].owner = i.user /\ MayAdd(i, upload[s].parent)
        /\ upload[s].progress = "uploaded" /\ upload[s].body \in upload[s].accepts
        /\ CreatesFile(n, upload[s].parent, upload[s].name, i.user, upload[s].body)
        /\ Save(s, session) /\ told' = [told EXCEPT ![s] = @ \cup {n}] /\ stream' = stream
    BY DEF Complete, Loads
  <1>2. ClaimInv(s) /\ FileInv(s)  BY <1>1 DEF UInv
  <1>3. /\ upload[s] \in Session /\ upload[s].parent \in Node /\ upload[s].name \in Name
        /\ upload[s].body \in Body /\ upload[s].accepts \in Expectations
    BY <1>0, <1>1, <1>2, SessionFields DEF FileInv
  <1>4. session \in Session  BY <1>3 DEF Session
  <1>5. /\ session.owner = upload[s].owner /\ session.accepts = upload[s].accepts
        /\ session.transfer = upload[s].transfer /\ session.claim = upload[s].claim
        /\ session.progress = "completed" /\ session.body = upload[s].body
        /\ session.result = n
    BY <1>3 DEF Session
  <1> HIDE DEF session
  <1>6. /\ upload' \in [Upload -> Session \cup {None}]
        /\ upload'[s] = session
        /\ \A r \in Upload \ {s} : upload'[r] = upload[r]
        /\ Begun' = Begun \cup {s}
    BY <1>0, <1>1, <1>4, Saved
  <1>7. /\ FInv' /\ FilesKept
        /\ n \in drawn' /\ content'[n] = upload[s].body /\ owner'[n] = i.user
        /\ content' \in [Node -> Body \cup {None}]
    <2> PICK p \in Node, nm \in Name, body \in Body :
               p = upload[s].parent /\ nm = upload[s].name /\ body = upload[s].body
      BY <1>3
    <2>1. MayAdd(i, p) /\ CreatesFile(n, p, nm, i.user, body)  BY <1>1
    <2>2. i.user \in User /\ content \in [Node -> Body \cup {None}]
      BY <1>0, Identities DEF UploadTypeOK
    <2> QED  BY <1>0, <2>1, <2>2, CreatesFileStep
  <1>8. /\ told[s] = {} /\ told'[s] = {n} /\ told' \in [Upload -> SUBSET Node]
        /\ \A r \in Upload \ {s} : told'[r] = told[r]
    <2>1. told[s] = {}  BY <1>0, <1>1 DEF ResultInv
    <2> QED  BY <1>0, <1>1, <2>1 DEF UploadTypeOK
  <1>9. UploadTypeOK'  BY <1>0, <1>1, <1>6, <1>7, <1>8 DEF UploadTypeOK
  <1>10. ClaimInv(s)'
    <2>1. /\ upload'[s].transfer = upload[s].transfer /\ upload'[s].claim = upload[s].claim
      BY <1>5, <1>6
    <2> QED  BY <1>1, <1>2, <2>1 DEF ClaimInv, Of
  <1>11. FileInv(s)'
    <2>1. upload[s].body # None  BY <1>3, UploadsAssumption
    <2> QED  BY <1>1, <1>5, <1>6, <1>7, <2>1 DEF FileInv
  <1>12. ResultInv(s)'  BY <1>1, <1>5, <1>6, <1>7, <1>8 DEF ResultInv
  <1>13. s \in Begun' /\ upload'[s].accepts = upload[s].accepts
         /\ upload'[s].transfer = upload[s].transfer /\ upload'[s].claim = upload[s].claim
    BY <1>5, <1>6
  <1> QED
    BY <1>1, <1>6, <1>7, <1>8, <1>9, <1>10, <1>11, <1>12, <1>13, SessionAlone

LEMMA RepeatStep ==
    ASSUME UInv, NEW s \in Upload, NEW i \in Identity, Repeat(s, i)
    PROVE  UInv'
  <1>0. FInv /\ UploadTypeOK /\ ResultInv(s)  BY DEF UInv
  <1>1. /\ s \in Begun /\ upload[s].progress = "completed" /\ upload[s].result \in Live
        /\ told' = [told EXCEPT ![s] = @ \cup {upload[s].result}]
        /\ UNCHANGED <<vars, upload, stream, content>>
    BY DEF Repeat, Loads
  <1>2. told' = told
    <2>1. told[s] = {upload[s].result}  BY <1>0, <1>1 DEF ResultInv
    <2> QED  BY <1>0, <1>1, <2>1 DEF UploadTypeOK
  <1>3. FInv' /\ FilesKept  BY <1>0, <1>1, QuietSteps
  <1>4. UploadTypeOK'  BY <1>0, <1>1, <1>2 DEF UploadTypeOK
  <1>5. ClaimInv(s) /\ FileInv(s)  BY <1>1 DEF UInv
  <1>6. UNCHANGED <<Live, content, owner, drawn, upload, stream, told, Begun>>
    BY <1>1, <1>2 DEF vars, policies, Live, Begun
  <1>7. ClaimInv(s)'  BY <1>5, <1>6 DEF ClaimInv, Of
  <1>8. FileInv(s)'  BY <1>5, <1>6 DEF FileInv
  <1>9. ResultInv(s)'  BY <1>0, <1>6 DEF ResultInv
  <1> QED  BY <1>3, <1>4, <1>6, <1>7, <1>8, <1>9, SessionAlone

-----------------------------------------------------------------------------
(* Streams begin.                                                          *)

PutStream(kind, s, i, p, nm, body) ==
    [kind |-> kind, upload |-> s, identity |-> i, parent |-> p, name |-> nm,
     body |-> body, step |-> "staging"]

(* What Streams does to the streams. *)
LEMMA StreamBegins ==
    ASSUME UploadTypeOK, NEW t \in Task, NEW kind \in {"put", "delegated", "file"},
           NEW s \in Upload \cup {None}, NEW i \in Identity, NEW p \in Node, NEW nm \in Name,
           NEW body \in Body, Streams(t, kind, s, i, p, nm, body)
    PROVE  /\ stream' \in [Task -> Stream \cup {None}]
           /\ t \notin Streaming /\ t \in Streaming'
           /\ stream'[t].kind = kind /\ stream'[t].upload = s
           /\ stream'[t].step = "staging"
           /\ \A r \in Task \ {t} : stream'[r] = stream[r]
  <1> DEFINE str == PutStream(kind, s, i, p, nm, body)
  <1>1. str \in Stream  BY DEF PutStream, Stream
  <1>2. str.kind = kind /\ str.upload = s /\ str.step = "staging"  BY DEF PutStream
  <1>3. stream[t] = None /\ stream' = [stream EXCEPT ![t] = str]
    BY DEF Streams, PutStream
  <1> HIDE DEF str
  <1>4. str # None  BY <1>1, UploadsAssumption
  <1>5. /\ stream' \in [Task -> Stream \cup {None}]
        /\ stream'[t] = str
        /\ \A r \in Task \ {t} : stream'[r] = stream[r]
    BY <1>1, <1>3, Streamed
  <1> QED  BY <1>2, <1>3, <1>4, <1>5 DEF Streaming

LEMMA PutStep ==
    ASSUME UInv, NEW t \in Task, NEW s \in Upload, NEW i \in Identity, NEW body \in Body,
           Put(t, s, i, body)
    PROVE  UInv'
  <1>0. FInv /\ UploadTypeOK  BY DEF UInv
  <1>1. /\ s \in Begun /\ upload[s].transfer = "none"
        /\ Streams(t, "put", s, i, upload[s].parent, upload[s].name, body)
        /\ UNCHANGED <<vars, upload, content, told>>
    BY DEF Put, Loads
  <1>2. /\ stream' \in [Task -> Stream \cup {None}]
        /\ t \notin Streaming /\ stream'[t].kind = "put" /\ stream'[t].upload = s
        /\ stream'[t].step = "staging"
        /\ \A r \in Task \ {t} : stream'[r] = stream[r]
    <2> PICK p \in Node, nm \in Name : p = upload[s].parent /\ nm = upload[s].name
      BY <1>0, <1>1, SessionFields
    <2>1. Streams(t, "put", s, i, p, nm, body)  BY <1>1
    <2> QED  BY <1>0, <2>1, StreamBegins
  <1>3. FInv' /\ FilesKept  BY <1>0, <1>1, QuietSteps
  <1>4. UploadTypeOK'  BY <1>0, <1>1, <1>2 DEF UploadTypeOK
  <1>5. s # None /\ s \in Begun'  BY <1>1, UploadsAssumption DEF Begun
  <1>6. StreamInv(t)'
    <2>1. upload'[s].transfer = "none"  BY <1>1
    <2> QED  BY <1>2, <1>5, <2>1 DEF StreamInv, Of
  <1> QED  BY <1>1, <1>2, <1>3, <1>4, <1>6, StreamAlone

LEMMA UploadFileStep ==
    ASSUME UInv, NEW t \in Task, NEW i \in Identity, NEW p \in Node, NEW nm \in Name,
           NEW body \in Body, UploadFile(t, i, p, nm, body)
    PROVE  UInv'
  <1>0. FInv /\ UploadTypeOK  BY DEF UInv
  <1>1. Streams(t, "file", None, i, p, nm, body) /\ UNCHANGED <<vars, upload, content, told>>
    BY DEF UploadFile
  <1>2. /\ stream' \in [Task -> Stream \cup {None}]
        /\ t \notin Streaming /\ stream'[t].kind = "file" /\ stream'[t].upload = None
        /\ stream'[t].step = "staging"
        /\ \A r \in Task \ {t} : stream'[r] = stream[r]
    <2>1. None \in Upload \cup {None}  OBVIOUS
    <2> QED  BY <1>0, <1>1, <2>1, StreamBegins
  <1>3. FInv' /\ FilesKept  BY <1>0, <1>1, QuietSteps
  <1>4. UploadTypeOK'  BY <1>0, <1>1, <1>2 DEF UploadTypeOK
  <1>5. StreamInv(t)'  BY <1>2 DEF StreamInv, Of
  <1> QED  BY <1>1, <1>2, <1>3, <1>4, <1>5, StreamAlone

LEMMA ClaimStep ==
    ASSUME UInv, NEW t \in Task, NEW s \in Upload, NEW body \in Body, Claim(t, s, body)
    PROVE  UInv'
  <1> DEFINE session == [upload[s] EXCEPT !.transfer = "claimed", !.claim = t]
  <1>0. FInv /\ UploadTypeOK /\ ResultInv(s)  BY DEF UInv
  <1>1. /\ s \in Begun /\ upload[s].transfer = "available" /\ Save(s, session)
        /\ Streams(t, "delegated", s, upload[s].identity, upload[s].parent, upload[s].name, body)
        /\ UNCHANGED <<vars, content, told>>
    BY DEF Claim, LoadsDelegated
  <1>2. ClaimInv(s) /\ FileInv(s)  BY <1>1 DEF UInv
  <1>3. /\ upload[s] \in Session /\ upload[s].parent \in Node /\ upload[s].name \in Name
        /\ upload[s].identity \in Identity
    BY <1>0, <1>1, SessionFields
  <1>4. session \in Session  BY <1>3 DEF Session
  <1>5. /\ session.owner = upload[s].owner /\ session.accepts = upload[s].accepts
        /\ session.transfer = "claimed" /\ session.claim = t
        /\ session.progress = upload[s].progress /\ session.body = upload[s].body
        /\ session.result = upload[s].result
    BY <1>3 DEF Session
  <1> HIDE DEF session
  <1>6. /\ upload' \in [Upload -> Session \cup {None}]
        /\ upload'[s] = session
        /\ \A r \in Upload \ {s} : upload'[r] = upload[r]
        /\ Begun' = Begun \cup {s}
    BY <1>0, <1>1, <1>4, Saved
  <1>7. /\ stream' \in [Task -> Stream \cup {None}]
        /\ t \notin Streaming /\ t \in Streaming'
        /\ stream'[t].kind = "delegated" /\ stream'[t].upload = s
        /\ stream'[t].step = "staging"
        /\ \A r \in Task \ {t} : stream'[r] = stream[r]
    <2> PICK i \in Identity, p \in Node, nm \in Name :
               i = upload[s].identity /\ p = upload[s].parent /\ nm = upload[s].name
      BY <1>3
    <2>1. Streams(t, "delegated", s, i, p, nm, body)  BY <1>1
    <2> QED  BY <1>0, <2>1, StreamBegins
  <1>8. FInv' /\ FilesKept  BY <1>0, <1>1, QuietSteps
  <1>9. UploadTypeOK'  BY <1>0, <1>1, <1>6, <1>7 DEF UploadTypeOK
  <1>10. UNCHANGED <<Live, content, owner, drawn, told>>
    BY <1>1 DEF vars, policies, Live
  <1>11. s # None /\ t # None /\ stream'[t] # None
    BY <1>7, UploadsAssumption DEF Streaming
  <1>12. upload'[s].transfer = "claimed" /\ upload'[s].claim = t
         /\ upload'[s].accepts = upload[s].accepts
    BY <1>5, <1>6
  <1>13. StreamInv(t)'
    <2>1. s \in Begun'  BY <1>6
    <2> QED  BY <1>7, <1>11, <1>12, <2>1 DEF StreamInv, Of
  <1>14. ClaimInv(s)'  BY <1>7, <1>11, <1>12 DEF ClaimInv, Of
  <1>15. FileInv(s)'  BY <1>1, <1>2, <1>5, <1>6, <1>10, FileStays
  <1>16. ResultInv(s)'  BY <1>0, <1>1, <1>5, <1>6, <1>10 DEF ResultInv
  <1>17. /\ s \in Begun' /\ ~(upload[s].claim \in Task \ {t})
         /\ upload'[s].transfer = "none" <=> upload[s].transfer = "none"
    <2>1. upload[s].claim = None  BY <1>1, <1>2 DEF ClaimInv
    <2> QED  BY <1>1, <1>6, <1>12, <2>1, UploadsAssumption
  <1>18. \A r \in Upload \ {s} : upload'[r] = upload[r] /\ told'[r] = told[r]
    BY <1>6, <1>10
  <1> QED
    BY <1>7, <1>8, <1>9, <1>12, <1>13, <1>14, <1>15, <1>16, <1>17, <1>18, Elsewhere

-----------------------------------------------------------------------------
(* Streams go on, and end.                                                 *)

LEMMA StageStep ==
    ASSUME UInv, NEW t \in Task, Stage(t)
    PROVE  UInv'
  <1> DEFINE str == [stream[t] EXCEPT !.step = "staged"]
  <1>0. FInv /\ UploadTypeOK  BY DEF UInv
  <1>1. /\ t \in Streaming /\ stream[t].step = "staging"
        /\ Of(t) # None => stream[t].body \in upload[Of(t)].accepts
        /\ stream' = [stream EXCEPT ![t] = str]
        /\ UNCHANGED <<vars, upload, content, told>>
    BY DEF Stage, Goes
  <1>2. stream[t] \in Stream  BY <1>0, <1>1, StreamFields
  <1>3. str \in Stream  BY <1>2 DEF Stream
  <1>4. /\ str.kind = stream[t].kind /\ str.upload = stream[t].upload
        /\ str.body = stream[t].body /\ str.step = "staged"
    BY <1>2 DEF Stream
  <1> HIDE DEF str
  <1>5. /\ stream' \in [Task -> Stream \cup {None}]
        /\ stream'[t] = str
        /\ \A r \in Task \ {t} : stream'[r] = stream[r]
    BY <1>0, <1>1, <1>3, Streamed
  <1>6. str # None  BY <1>3, UploadsAssumption
  <1>7. FInv' /\ FilesKept  BY <1>0, <1>1, QuietSteps
  <1>8. UploadTypeOK'  BY <1>0, <1>1, <1>5 DEF UploadTypeOK
  <1>9. StreamInv(t)'
    <2>1. StreamInv(t)  BY <1>1 DEF UInv
    <2>2. UNCHANGED <<upload, Begun>>  BY <1>1 DEF Begun
    <2> QED  BY <1>1, <1>4, <1>5, <2>1, <2>2 DEF StreamInv, Of
  <1> QED  BY <1>1, <1>4, <1>5, <1>6, <1>7, <1>8, <1>9, StreamAlone

LEMMA FailStep ==
    ASSUME UInv, NEW t \in Task, Fail(t)
    PROVE  UInv'
  <1>0. FInv /\ UploadTypeOK  BY DEF UInv
  <1>1. /\ t \in Streaming /\ UNCHANGED <<vars, upload, content, told>>
    BY DEF Fail
  <1>2. FInv' /\ FilesKept  BY <1>0, <1>1, QuietSteps
  <1>3. StreamInv(t)  BY <1>1 DEF UInv
  <1>4. CASE stream[t].kind = "delegated"
    <2> DEFINE str == [stream[t] EXCEPT !.step = "releasing"]
    <2>1. stream' = [stream EXCEPT ![t] = str]  BY <1>4 DEF Fail, Goes
    <2>2. stream[t] \in Stream  BY <1>0, <1>1, StreamFields
    <2>3. str \in Stream  BY <2>2 DEF Stream
    <2>4. /\ str.kind = stream[t].kind /\ str.upload = stream[t].upload
          /\ str.body = stream[t].body /\ str.step = "releasing"
      BY <2>2 DEF Stream
    <2> HIDE DEF str
    <2>5. /\ stream' \in [Task -> Stream \cup {None}]
          /\ stream'[t] = str
          /\ \A r \in Task \ {t} : stream'[r] = stream[r]
      BY <1>0, <2>1, <2>3, Streamed
    <2>6. str # None  BY <2>3, UploadsAssumption
    <2>7. UploadTypeOK'  BY <1>0, <1>1, <2>5 DEF UploadTypeOK
    <2>8. StreamInv(t)'
      <3>1. UNCHANGED <<upload, Begun>>  BY <1>1 DEF Begun
      <3> QED  BY <1>3, <1>4, <2>4, <2>5, <3>1 DEF StreamInv, Of
    <2> QED  BY <1>1, <1>2, <2>4, <2>5, <2>6, <2>7, <2>8, StreamAlone
  <1>5. CASE stream[t].kind # "delegated"
    <2>1. stream' = [stream EXCEPT ![t] = None]  BY <1>5 DEF Fail, Ends
    <2>2. /\ stream' \in [Task -> Stream \cup {None}]
          /\ stream'[t] = None
          /\ \A r \in Task \ {t} : stream'[r] = stream[r]
      BY <1>0, <2>1, Streamed
    <2>3. UploadTypeOK'  BY <1>0, <1>1, <2>2 DEF UploadTypeOK
    <2>4. t \notin Streaming'  BY <2>2 DEF Streaming
    <2> QED  BY <1>1, <1>2, <1>5, <2>2, <2>3, <2>4, StreamAlone
  <1> QED  BY <1>4, <1>5

LEMMA StreamEnds ==
    ASSUME UploadTypeOK, NEW t \in Task, Ends(t)
    PROVE  /\ stream' \in [Task -> Stream \cup {None}]
           /\ t \notin Streaming'
           /\ \A r \in Task \ {t} : stream'[r] = stream[r]
  <1>1. stream' = [stream EXCEPT ![t] = None] /\ None \in Stream \cup {None}  BY DEF Ends
  <1>2. /\ stream' \in [Task -> Stream \cup {None}]
        /\ stream'[t] = None
        /\ \A r \in Task \ {t} : stream'[r] = stream[r]
    BY <1>1, Streamed
  <1> QED  BY <1>2 DEF Streaming

(* A stream ends with what it has done to its session: the session keeps    *)
(* what it is about, and its claim if the stream had none.                  *)
LEMMA StreamSettles ==
    ASSUME UInv, NEW t \in Streaming, NEW s \in Begun, Of(t) = s, Ends(t),
           NEW session \in Session, Save(s, session), UNCHANGED <<vars, content, told>>,
           session.owner = upload[s].owner, session.accepts = upload[s].accepts,
           session.transfer = "none" <=> upload[s].transfer = "none",
           session.transfer = "claimed" <=> session.claim # None,
           session.claim \in Task =>
              /\ session.claim = upload[s].claim /\ upload[s].claim # t,
           upload[s].claim \in Task \ {t} =>
              /\ session.transfer = upload[s].transfer /\ session.claim = upload[s].claim,
           \/ /\ session.progress = upload[s].progress /\ session.body = upload[s].body
              /\ session.result = upload[s].result
           \/ /\ upload[s].progress # "completed" /\ session.result = upload[s].result
              /\ session.progress = "uploaded"
              /\ session.body # None /\ session.body \in session.accepts
    PROVE  UInv'
  <1>0. /\ FInv /\ UploadTypeOK /\ t \in Task /\ s \in Upload
        /\ ResultInv(s) /\ ClaimInv(s) /\ FileInv(s)
    BY DEF UInv, Streaming, Begun
  <1>1. /\ upload' \in [Upload -> Session \cup {None}]
        /\ upload'[s] = session
        /\ \A r \in Upload \ {s} : upload'[r] = upload[r]
        /\ Begun' = Begun \cup {s}
    BY <1>0, Saved
  <1>2. /\ stream' \in [Task -> Stream \cup {None}]
        /\ t \notin Streaming'
        /\ \A r \in Task \ {t} : stream'[r] = stream[r]
    BY <1>0, StreamEnds
  <1>3. FInv' /\ FilesKept  BY <1>0, QuietSteps
  <1>4. UploadTypeOK'  BY <1>0, <1>1, <1>2 DEF UploadTypeOK
  <1>5. UNCHANGED <<Live, content, owner, drawn, told>>  BY DEF vars, policies, Live
  <1>6. ClaimInv(s)'
    <2> PICK q : q = session.claim  OBVIOUS
    <2>1. upload'[s].claim = q /\ upload'[s].transfer = session.transfer  BY <1>1
    <2>2. ASSUME q \in Task
          PROVE  stream'[q] # None /\ stream'[q].upload = s /\ stream'[q].kind = "delegated"
      <3>1. upload[s].claim = q /\ q # t  BY <2>2
      <3>2. stream'[q] = stream[q]  BY <1>2, <2>2, <3>1
      <3> QED  BY <1>0, <2>2, <3>1, <3>2 DEF ClaimInv, Of
    <2> QED  BY <2>1, <2>2 DEF ClaimInv, Of
  <1>7. FileInv(s)'
    <2>1. CASE /\ session.progress = upload[s].progress /\ session.body = upload[s].body
               /\ session.result = upload[s].result
      BY <1>0, <1>1, <1>5, <2>1, FileStays
    <2>2. CASE /\ session.progress = "uploaded"
               /\ session.body # None /\ session.body \in session.accepts
      BY <1>1, <2>2 DEF FileInv
    <2> QED  BY <2>1, <2>2
  <1>8. ResultInv(s)'
    <2>1. s \in Begun'  BY <1>1
    <2> QED  BY <1>0, <1>1, <1>5, <2>1 DEF ResultInv
  <1>9. \A r \in Upload \ {s} : upload'[r] = upload[r] /\ told'[r] = told[r]
    BY <1>1
  <1>10. /\ s \in Begun' /\ upload'[s].accepts = upload[s].accepts
         /\ upload'[s].transfer = "none" <=> upload[s].transfer = "none"
         /\ upload[s].claim \in Task \ {t} =>
              upload'[s].transfer = upload[s].transfer /\ upload'[s].claim = upload[s].claim
    BY <1>1
  <1> QED
    BY <1>2, <1>3, <1>4, <1>6, <1>7, <1>8, <1>9, <1>10, Elsewhere

LEMMA PutSavesStep ==
    ASSUME UInv, NEW t \in Task, PutSaves(t)
    PROVE  UInv'
  <1> PICK s : s = Of(t)  OBVIOUS
  <1> DEFINE session == [upload[s] EXCEPT !.progress = "uploaded", !.body = stream[t].body]
  <1>0. FInv /\ UploadTypeOK  BY DEF UInv
  <1>1. /\ t \in Streaming /\ stream[t].step = "staged" /\ stream[t].kind = "put"
        /\ s \in Begun /\ upload[s].progress # "completed"
        /\ Save(s, session) /\ Ends(t) /\ UNCHANGED <<vars, content, told>>
    BY DEF PutSaves, Staged, Loads
  <1>2. /\ StreamInv(t) /\ ClaimInv(s)  BY <1>1 DEF UInv
  <1>3. upload[s] \in Session /\ stream[t].body \in Body
    BY <1>0, <1>1, SessionFields, StreamFields
  <1>4. session \in Session  BY <1>3 DEF Session, Unfinished
  <1>5. /\ session.owner = upload[s].owner /\ session.accepts = upload[s].accepts
        /\ session.transfer = upload[s].transfer /\ session.claim = upload[s].claim
        /\ session.progress = "uploaded" /\ session.body = stream[t].body
        /\ session.result = upload[s].result
    BY <1>3 DEF Session
  <1> HIDE DEF session
  <1>6. s # None /\ stream[t].body # None
    BY <1>1, <1>3, UploadsAssumption DEF Begun
  <1>7. upload[s].transfer = "none" /\ upload[s].claim = None
        /\ session.body \in session.accepts
    BY <1>1, <1>2, <1>5, <1>6 DEF StreamInv, ClaimInv
  <1> QED
    BY <1>1, <1>4, <1>5, <1>6, <1>7, UploadsAssumption, StreamSettles

LEMMA ConsumeStep ==
    ASSUME UInv, NEW t \in Task, Consume(t)
    PROVE  UInv'
  <1> PICK s : s = Of(t)  OBVIOUS
  <1> DEFINE session == [upload[s] EXCEPT !.progress = "uploaded", !.body = stream[t].body,
                                          !.transfer = "consumed", !.claim = None]
  <1>0. FInv /\ UploadTypeOK  BY DEF UInv
  <1>1. /\ t \in Streaming /\ stream[t].step = "staged"
        /\ s \in Begun /\ upload[s].progress = "pending"
        /\ upload[s].transfer = "claimed" /\ upload[s].claim = t
        /\ Save(s, session) /\ Ends(t) /\ UNCHANGED <<vars, content, told>>
    BY DEF Consume, Staged, LoadsDelegated
  <1>2. StreamInv(t)  BY <1>1 DEF UInv
  <1>3. upload[s] \in Session /\ stream[t].body \in Body
    BY <1>0, <1>1, SessionFields, StreamFields
  <1>4. session \in Session  BY <1>3 DEF Session, Unfinished
  <1>5. /\ session.owner = upload[s].owner /\ session.accepts = upload[s].accepts
        /\ session.transfer = "consumed" /\ session.claim = None
        /\ session.progress = "uploaded" /\ session.body = stream[t].body
        /\ session.result = upload[s].result
    BY <1>3 DEF Session
  <1> HIDE DEF session
  <1>6. s # None /\ stream[t].body # None
    BY <1>1, <1>3, UploadsAssumption DEF Begun
  <1>7. session.body \in session.accepts
    BY <1>1, <1>2, <1>5, <1>6 DEF StreamInv
  <1> QED
    BY <1>1, <1>4, <1>5, <1>6, <1>7, UploadsAssumption, StreamSettles

LEMMA SaveFileStep ==
    ASSUME UInv, NEW t \in Task, NEW n \in Node, SaveFile(t, n)
    PROVE  UInv'
  <1>0. FInv /\ UploadTypeOK  BY DEF UInv
  <1>1. /\ t \in Streaming /\ stream[t].kind = "file"
        /\ MayAdd(stream[t].identity, stream[t].parent)
        /\ CreatesFile(n, stream[t].parent, stream[t].name, stream[t].identity.user,
                       stream[t].body)
        /\ Ends(t) /\ UNCHANGED <<upload, told>>
    BY DEF SaveFile, Staged
  <1>2. FInv' /\ FilesKept /\ content' \in [Node -> Body \cup {None}]
    <2> PICK i \in Identity, p \in Node, nm \in Name, body \in Body :
               /\ i = stream[t].identity /\ p = stream[t].parent
               /\ nm = stream[t].name /\ body = stream[t].body
      BY <1>0, <1>1, StreamFields
    <2>1. MayAdd(i, p) /\ CreatesFile(n, p, nm, i.user, body)  BY <1>1
    <2>2. i.user \in User /\ content \in [Node -> Body \cup {None}]
      BY <1>0, Identities DEF UploadTypeOK
    <2> QED  BY <1>0, <2>1, <2>2, CreatesFileStep
  <1>3. /\ stream' \in [Task -> Stream \cup {None}]
        /\ t \notin Streaming'
        /\ \A r \in Task \ {t} : stream'[r] = stream[r]
    BY <1>0, <1>1, StreamEnds
  <1>4. UploadTypeOK'  BY <1>0, <1>1, <1>2, <1>3 DEF UploadTypeOK
  <1> QED  BY <1>1, <1>2, <1>3, <1>4, StreamAlone

LEMMA ReleaseStep ==
    ASSUME UInv, NEW t \in Task, Release(t)
    PROVE  UInv'
  <1> PICK s : s = Of(t)  OBVIOUS
  <1> DEFINE session == [upload[s] EXCEPT !.transfer = "available", !.claim = None]
  <1>0. FInv /\ UploadTypeOK  BY DEF UInv
  <1>1. /\ t \in Streaming /\ stream[t].step = "releasing"
        /\ Ends(t) /\ UNCHANGED <<vars, content, told>>
    BY DEF Release
  <1>2. StreamInv(t)  BY <1>1 DEF UInv
  <1>3. /\ stream[t].kind = "delegated" /\ s \in Begun
        /\ upload[s].transfer = "claimed" /\ upload[s].claim = t
    BY <1>1, <1>2 DEF StreamInv
  <1>4. Save(s, session)  BY <1>3 DEF Release
  <1>5. upload[s] \in Session  BY <1>0, <1>3, SessionFields
  <1>6. session \in Session  BY <1>5 DEF Session
  <1>7. /\ session.owner = upload[s].owner /\ session.accepts = upload[s].accepts
        /\ session.transfer = "available" /\ session.claim = None
        /\ session.progress = upload[s].progress /\ session.body = upload[s].body
        /\ session.result = upload[s].result
    BY <1>5 DEF Session
  <1> HIDE DEF session
  <1> QED
    BY <1>1, <1>3, <1>4, <1>6, <1>7, UploadsAssumption, StreamSettles

LEMMA CrashStep ==
    ASSUME UInv, NEW t \in Task, Crash(t)
    PROVE  UInv'
  <1> PICK s : s = Of(t)  OBVIOUS
  <1> DEFINE session == [upload[s] EXCEPT !.claim = Lost]
  <1>0. FInv /\ UploadTypeOK  BY DEF UInv
  <1>1. /\ t \in Streaming /\ Ends(t) /\ UNCHANGED <<vars, content, told>>
        /\ upload' = [r \in Upload |-> IF r \in Begun /\ upload[r].claim = t
                                       THEN [upload[r] EXCEPT !.claim = Lost] ELSE upload[r]]
    BY DEF Crash
  <1>2. ASSUME NEW r \in Begun, upload[r].claim = t
        PROVE  r = s /\ stream[t].kind = "delegated"
    BY <1>2 DEF UInv, ClaimInv
  <1>3. CASE s \in Begun /\ upload[s].claim = t
    <2>1. s \in Upload /\ upload[s] \in Session /\ upload[s].transfer = "claimed"
          /\ ClaimInv(s)
      <3>1. ClaimInv(s)  BY <1>3 DEF UInv
      <3>2. t # None  BY UploadsAssumption
      <3> QED  BY <1>0, <1>3, <3>1, <3>2, SessionFields DEF ClaimInv
    <2>2. session \in Session  BY <2>1 DEF Session
    <2>3. /\ session.owner = upload[s].owner /\ session.accepts = upload[s].accepts
          /\ session.transfer = upload[s].transfer /\ session.claim = Lost
          /\ session.progress = upload[s].progress /\ session.body = upload[s].body
          /\ session.result = upload[s].result
      BY <2>1 DEF Session
    <2>4. Save(s, session)
      <3>1. \A r \in Upload : r # s => upload'[r] = upload[r]
        BY <1>1, <1>2
      <3>2. upload'[s] = session  BY <1>1, <1>3, <2>1
      <3>3. upload \in [Upload -> Session \cup {None}] /\ DOMAIN upload' = Upload
        BY <1>0, <1>1 DEF UploadTypeOK
      <3> HIDE DEF session
      <3>4. upload' = [r \in Upload |-> IF r = s THEN session ELSE upload[r]]
        <4>1. \A r \in Upload : upload'[r] = IF r = s THEN session ELSE upload[r]
          BY <3>1, <3>2
        <4>2. upload' = [r \in Upload |-> upload'[r]]  BY <1>1
        <4> QED  BY <4>1, <4>2
      <3> QED  BY <2>1, <3>3, <3>4 DEF Save
    <2> HIDE DEF session
    <2> QED
      BY <1>1, <1>3, <2>1, <2>2, <2>3, <2>4, UploadsAssumption, StreamSettles
  <1>4. CASE ~(s \in Begun /\ upload[s].claim = t)
    <2>1. upload' = upload
      <3>1. \A r \in Upload : ~(r \in Begun /\ upload[r].claim = t)  BY <1>2, <1>4
      <3>2. \A r \in Upload : upload'[r] = upload[r]  BY <1>1, <3>1
      <3> QED  BY <1>0, <1>1, <3>2 DEF UploadTypeOK
    <2>2. stream[t].kind # "delegated"
      <3>1. StreamInv(t)  BY <1>1 DEF UInv
      <3> QED  BY <1>4, <3>1 DEF StreamInv
    <2>3. /\ stream' \in [Task -> Stream \cup {None}]
          /\ t \notin Streaming'
          /\ \A r \in Task \ {t} : stream'[r] = stream[r]
      BY <1>0, <1>1, StreamEnds
    <2>4. FInv' /\ FilesKept  BY <1>0, <1>1, QuietSteps
    <2>5. UploadTypeOK'  BY <1>0, <1>1, <2>1, <2>3 DEF UploadTypeOK
    <2> QED  BY <1>1, <2>1, <2>2, <2>3, <2>4, <2>5, StreamAlone
  <1> QED  BY <1>3, <1>4

-----------------------------------------------------------------------------
(* The namespace goes on, whatever the uploads do.                         *)

(* An identity is not given again, and users stay owners of what is there. *)
LEMMA OwnersLast ==
    ASSUME FInv, Next
    PROVE  /\ drawn \subseteq drawn'
           /\ \A n \in drawn : n \in Live' =>
                n \in Live /\ (owner[n] \in User => owner'[n] = owner[n])
  <1>0. TypeOK /\ owner[Root] \notin User /\ drawn \subseteq Node
    BY FilesystemAssumption DEF FInv, NamespaceInv, IdentityInv, TypeOK
  <1>1. ASSUME NEW i \in Identity, NEW n \in Node, NEW p \in Node, NEW nm \in Name,
               NEW kind \in Kind, Creates(n, p, nm, kind, 1),
               \A m \in Node \ {n, Root} : owner'[m] = owner[m]
        PROVE  /\ drawn \subseteq drawn'
               /\ \A m \in drawn : m \in Live' =>
                    m \in Live /\ (owner[m] \in User => owner'[m] = owner[m])
    <2>1. 1 \in Nat \ {0}  OBVIOUS
    <2>2. n \notin drawn /\ Live' = Live \cup {n} /\ drawn' = drawn \cup {n}
      BY <1>1, <2>1, CreatesNode
    <2> QED  BY <1>0, <1>1, <2>2
  <1>2. ASSUME NEW i \in Identity, NEW n \in Node, NEW p \in Node, NEW nm \in Name,
               NEW kind \in Kind, Create(i, n, p, nm, kind)
        PROVE  /\ Creates(n, p, nm, kind, 1)
               /\ \A m \in Node \ {n, Root} : owner'[m] = owner[m]
    BY <1>0, <1>2 DEF Create, TypeOK
  <1>3. ASSUME NEW i \in Identity, NEW n \in Node, NEW nm \in Name, ProvisionHome(i, n, nm)
        PROVE  /\ Creates(n, Root, nm, "directory", 1)
               /\ \A m \in Node \ {n, Root} : owner'[m] = owner[m]
    BY <1>0, <1>3 DEF ProvisionHome, TypeOK
  <1>4. ASSUME NEW n \in Live, NEW row \in Row, node' = [node EXCEPT ![n] = row],
               UNCHANGED <<drawn, owner>>
        PROVE  Live' = Live
    BY <1>0, <1>4, FilesystemAssumption DEF Live, TypeOK
  <1>5. ASSUME NEW c \in Readers, NEW i \in Identity, NEW nm \in Name, NEW p \in Node,
               Place(c, i, view[c].node, nm, p)
        PROVE  Live' = Live /\ UNCHANGED <<drawn, owner>>
    <2> PICK n \in Live : n = view[c].node  BY <1>5 DEF Place, Matches
    <2>1. node' = [node EXCEPT ![n] = Moved(node[n], nm, p)] /\ UNCHANGED <<drawn, owner>>
      BY <1>5 DEF Place, policies, Moved
    <2>2. Moved(node[n], nm, p) \in Row
      <3>1. node[n] \in Row /\ nm \in Name \cup {None} /\ p \in Node \cup {None}
        BY <1>0, LiveRows
      <3> QED  BY <3>1, RowChanges
    <2> QED  BY <1>4, <2>1, <2>2
  <1>6. ASSUME NEW c \in Readers, NEW i \in Identity, Describe(c, i, view[c].node)
        PROVE  Live' = Live /\ UNCHANGED <<drawn, owner>>
    <2> PICK n \in Live : n = view[c].node  BY <1>6 DEF Describe, Matches
    <2>1. node' = [node EXCEPT ![n] = Revised(node[n])] /\ UNCHANGED <<drawn, owner>>
      BY <1>6 DEF Describe, policies
    <2>2. Revised(node[n]) \in Row  BY <1>0, LiveRows, RowChanges
    <2> QED  BY <1>4, <2>1, <2>2
  <1>7. ASSUME NEW c \in Readers, NEW i \in Identity, Delete(c, i, view[c].node)
        PROVE  /\ drawn' = drawn /\ Live' \subseteq Live
               /\ \A m \in Live' : owner'[m] = owner[m]
    <2> PICK n \in Live : n = view[c].node  BY <1>7 DEF Delete, Matches
    <2>1. /\ node' = [node EXCEPT ![n] = None] /\ owner' = [owner EXCEPT ![n] = None]
          /\ drawn' = drawn
      BY <1>7 DEF Delete, ClearPolicies
    <2>2. node'[n] = None /\ \A m \in Node \ {n} : node'[m] = node[m] /\ owner'[m] = owner[m]
      BY <1>0, <2>1 DEF TypeOK, Live
    <2> QED  BY <2>1, <2>2 DEF Live
  <1>8. CASE Edits
    <2>1. CASE \E i \in Identity, n, p \in Node, nm \in Name, kind \in Kind :
                 Create(i, n, p, nm, kind)
      BY <1>1, <1>2, <2>1
    <2>2. CASE \E i \in Identity, n \in Node, nm \in Name : ProvisionHome(i, n, nm)
      <3>1. Root \in Node /\ "directory" \in Kind  BY FilesystemAssumption DEF Kind
      <3> QED  BY <1>1, <1>3, <2>2, <3>1
    <2>3. CASE \E c \in Readers, i \in Identity :
                 \/ \E nm \in Name, p \in Node : Place(c, i, view[c].node, nm, p)
                 \/ Describe(c, i, view[c].node)
                 \/ Delete(c, i, view[c].node)
      BY <1>5, <1>6, <1>7, <2>3
    <2> QED  BY <1>8, <2>1, <2>2, <2>3 DEF Edits
  <1>9. CASE Sharing
    <2>1. UNCHANGED <<node, drawn>> /\ \A m \in Node \ {Root} : owner'[m] = owner[m]
      BY <1>0, <1>9
      DEF Sharing, Share, Replace, SaveRootPolicy, Provision, Register, Unregister, TypeOK
    <2>2. Live' = Live  BY <2>1 DEF Live
    <2> QED  BY <1>0, <2>1, <2>2
  <1>10. CASE Reading
    <2>1. UNCHANGED <<node, drawn, owner>>
      BY <1>10 DEF Reading, Look, LookAtRoot, Sees, Notice, policies
    <2>2. Live' = Live  BY <2>1 DEF Live
    <2> QED  BY <2>1, <2>2
  <1> QED  BY <1>8, <1>9, <1>10 DEF Next

LEMMA NamespaceStep ==
    ASSUME UInv, FilesystemStep
    PROVE  UInv'
  <1>0. FInv /\ UploadTypeOK  BY DEF UInv
  <1>1. /\ Next /\ content' = [n \in Node |-> IF node'[n] = None THEN None ELSE content[n]]
        /\ UNCHANGED <<upload, stream, told>>
    BY DEF FilesystemStep, sessions
  <1>2. FInv'  BY <1>0, <1>1, FInvNext
  <1>3. FilesKept
    <2>1. \A n \in Live' : content'[n] = content[n]  BY <1>1 DEF Live
    <2> QED  BY <1>0, <1>1, <2>1, OwnersLast DEF FilesKept
  <1>4. UploadTypeOK'  BY <1>0, <1>1 DEF UploadTypeOK
  <1>5. None \notin Streaming /\ None \notin Streaming' /\ None \notin Upload
        /\ None \notin Begun /\ None \notin Begun'
    BY UploadsAssumption DEF Streaming, Begun
  <1>6. /\ \A r \in Upload \ {None} : upload'[r] = upload[r] /\ told'[r] = told[r]
        /\ \A r \in Task \ {None} : stream'[r] = stream[r]
    BY <1>1
  <1> QED  BY <1>2, <1>3, <1>4, <1>5, <1>6, Elsewhere

LEMMA UInvInit == ASSUME UploadInit PROVE UInv
  <1>1. FInv  BY FInvInit DEF UploadInit
  <1>2. UploadTypeOK  BY DEF UploadInit, UploadTypeOK
  <1>3. Streaming = {} /\ Begun = {}  BY DEF UploadInit, Streaming, Begun
  <1>4. \A s \in Upload : ResultInv(s)  BY <1>3 DEF UploadInit, ResultInv
  <1> QED  BY <1>1, <1>2, <1>3, <1>4 DEF UInv

LEMMA UInvNext == ASSUME UInv, [UploadNext]_uploadVars PROVE UInv'
  <1>1. CASE UNCHANGED uploadVars
    <2>1. /\ UNCHANGED <<vars, content, upload, stream, told>>
          /\ FInv /\ UploadTypeOK
      BY <1>1 DEF uploadVars, UInv
    <2>2. FInv' /\ FilesKept  BY <2>1, QuietSteps
    <2>3. UploadTypeOK'  BY <2>1 DEF UploadTypeOK
    <2>4. None \notin Streaming /\ None \notin Streaming' /\ None \notin Upload
          /\ None \notin Begun /\ None \notin Begun'
      BY UploadsAssumption DEF Streaming, Begun
    <2>5. /\ \A r \in Upload \ {None} : upload'[r] = upload[r] /\ told'[r] = told[r]
          /\ \A r \in Task \ {None} : stream'[r] = stream[r]
      BY <2>1
    <2> QED  BY <2>2, <2>3, <2>4, <2>5, Elsewhere
  <1>2. CASE FilesystemStep  BY <1>2, NamespaceStep
  <1>3. CASE SessionStep
    BY <1>3, BeginStep, ExpireStep, CompleteStep, RepeatStep DEF SessionStep
  <1>4. CASE StartStep
    BY <1>4, PutStep, ClaimStep, UploadFileStep DEF StartStep
  <1>5. CASE \E t \in Task : Stage(t) \/ Fail(t) \/ Crash(t) \/ Settles(t)
    BY <1>5, StageStep, FailStep, CrashStep, PutSavesStep, ConsumeStep, SaveFileStep,
       ReleaseStep
    DEF Settles
  <1> QED  BY <1>1, <1>2, <1>3, <1>4, <1>5 DEF UploadNext

-----------------------------------------------------------------------------
(* The properties of the uploads.                                          *)

(* The inductive invariant of the uploads, on top of the namespace's. *)
THEOREM UploadInvariance == UploadSpec => []UInv
  <1>1. UploadInit => UInv  BY UInvInit
  <1>2. UInv /\ [UploadNext]_uploadVars => UInv'  BY UInvNext
  <1> QED  BY <1>1, <1>2, PTL DEF UploadSpec

(* A claim is held by the one request that streams, or lost with it; the    *)
(* file of a completed session holds what was last put, of the declared     *)
(* size and checksum, and belongs to the owner (UploadService).             *)
THEOREM UploadsCorrect == UploadSpec => []UploadInv
  <1>1. ASSUME UInv PROVE UploadInv
    <2>1. ClaimsHaveStreams
      <3>1. \A t \in Streaming : stream[t].kind = "delegated" =>
              upload[Of(t)].transfer = "claimed" /\ upload[Of(t)].claim = t
        BY <1>1 DEF UInv, StreamInv
      <3>2. \A s \in Begun :
              /\ upload[s].transfer = "claimed" <=> upload[s].claim # None
              /\ upload[s].claim \in Task =>
                   stream[upload[s].claim] # None /\ Of(upload[s].claim) = s
        BY <1>1 DEF UInv, ClaimInv
      <3> QED  BY <3>1, <3>2 DEF ClaimsHaveStreams
    <2>2. FilesHoldWhatWasPut  BY <1>1 DEF UInv, FileInv, FilesHoldWhatWasPut
    <2> QED  BY <1>1, <2>1, <2>2 DEF UInv, UploadInv
  <1> QED  BY <1>1, UploadInvariance, PTL

(* A file with content comes into a directory by a step in whose state its *)
(* owner may write there: the right is asked for in the same transaction.  *)
LEMMA ContentComes ==
    ASSUME UInv, UploadNext, NEW n \in Node, content[n] = None, content'[n] # None
    PROVE  \E i \in Identity : i.user = owner'[n] /\ CanWrite(i, node'[n].parent)
  <1>0. FInv /\ UploadTypeOK  BY DEF UInv
  <1>1. ASSUME NEW i \in Identity, NEW p \in Node, MayAdd(i, p), NEW m \in Node,
               NEW nm \in Name, NEW body \in Body, CreatesFile(m, p, nm, i.user, body)
        PROVE  i.user = owner'[n] /\ CanWrite(i, node'[n].parent)
    <2>1. i.user \in User /\ content \in [Node -> Body \cup {None}]
      BY <1>0, Identities DEF UploadTypeOK
    <2>2. /\ owner'[m] = i.user /\ node'[m].parent = p
          /\ \A x \in Node \ {m} : content'[x] = content[x]
      BY <1>0, <1>1, <2>1, CreatesFileStep
    <2>3. n = m  BY <2>2
    <2> QED  BY <1>1, <2>2, <2>3 DEF MayAdd
  <1>2. ASSUME NEW s \in Upload, NEW i \in Identity, NEW m \in Node, Complete(s, i, m)
        PROVE  i.user = owner'[n] /\ CanWrite(i, node'[n].parent)
    <2>1. /\ s \in Begun /\ MayAdd(i, upload[s].parent) /\ upload[s].progress = "uploaded"
          /\ CreatesFile(m, upload[s].parent, upload[s].name, i.user, upload[s].body)
      BY <1>2 DEF Complete, Loads
    <2>2. FileInv(s)  BY <2>1 DEF UInv
    <2> PICK p \in Node, nm \in Name, body \in Body :
               p = upload[s].parent /\ nm = upload[s].name /\ body = upload[s].body
      BY <1>0, <2>1, <2>2, SessionFields DEF FileInv
    <2> QED  BY <1>1, <2>1
  <1>3. ASSUME NEW t \in Task, NEW m \in Node, SaveFile(t, m)
        PROVE  \E i \in Identity : i.user = owner'[n] /\ CanWrite(i, node'[n].parent)
    <2>1. /\ t \in Streaming
          /\ MayAdd(stream[t].identity, stream[t].parent)
          /\ CreatesFile(m, stream[t].parent, stream[t].name, stream[t].identity.user,
                         stream[t].body)
      BY <1>3 DEF SaveFile, Staged
    <2> PICK i \in Identity, p \in Node, nm \in Name, body \in Body :
               /\ i = stream[t].identity /\ p = stream[t].parent
               /\ nm = stream[t].name /\ body = stream[t].body
      BY <1>0, <2>1, StreamFields
    <2> QED  BY <1>1, <2>1
  <1>4. CASE FilesystemStep  BY <1>4 DEF FilesystemStep
  <1>5. CASE SessionStep
    BY <1>2, <1>5 DEF SessionStep, Begin, Expire, Repeat
  <1>6. CASE StartStep
    BY <1>6 DEF StartStep, Put, Claim, UploadFile
  <1>7. CASE \E t \in Task : Stage(t) \/ Fail(t) \/ Crash(t) \/ Settles(t)
    BY <1>3, <1>7 DEF Settles, Stage, Fail, Crash, PutSaves, Consume, Release
  <1> QED  BY <1>4, <1>5, <1>6, <1>7 DEF UploadNext

(* However long its body has streamed, a file with content comes into a     *)
(* directory in a state in which its owner may write there.                *)
THEOREM WritersAddFilesCorrect == UploadSpec => WritersAddFiles
  <1>1. UInv /\ [UploadNext]_uploadVars =>
          [ \A n \in Node : content[n] = None /\ content'[n] # None =>
              \E i \in Identity : i.user = owner'[n] /\ CanWrite(i, node'[n].parent)
          ]_uploadVars
    BY ContentComes
  <1> QED  BY <1>1, UploadInvariance, PTL DEF UploadSpec, WritersAddFiles

-----------------------------------------------------------------------------
(* The promise of a session.                                               *)

(* What a session looks like to its clients. *)
LEMMA Phases ==
    ASSUME UploadTypeOK, NEW s \in Upload
    PROVE  /\ s \notin Begun =>
                /\ Phase[s] = "none" /\ Once[s] = FALSE
                /\ Kept[s] = None /\ Result[s] = None
           /\ s \in Begun =>
                /\ upload[s].progress = "pending" => Phase[s] = "open"
                /\ upload[s].progress = "uploaded" => Phase[s] = "filled"
                /\ upload[s].progress = "completed" => Phase[s] = "done"
                /\ Once[s] = (upload[s].transfer # "none")
                /\ Kept[s] = upload[s].body /\ Result[s] = upload[s].result
  <1>1. s \notin Begun => Progress(s) = "none"  BY DEF Progress
  <1>2. s \in Begun => Progress(s) = upload[s].progress  BY DEF Progress
  <1>3. /\ Progress(s) = "none" => Phase[s] = "none"
        /\ Progress(s) = "pending" => Phase[s] = "open"
        /\ Progress(s) = "uploaded" => Phase[s] = "filled"
        /\ Progress(s) = "completed" => Phase[s] = "done"
    BY DEF Phase, PhaseOf
  <1>4. Kept[s] = (IF s \in Begun THEN upload[s].body ELSE None)
        /\ Result[s] = (IF s \in Begun THEN upload[s].result ELSE None)
    BY DEF Kept, Result
  <1>5. Once[s] = (s \in Begun /\ upload[s].transfer # "none")
    BY DEF Once
  <1> QED  BY <1>1, <1>2, <1>3, <1>4, <1>5

(* A step that leaves a session as it looks. *)
SameLook(s) ==
    /\ s \in Begun <=> s \in Begun'
    /\ s \in Begun => /\ upload'[s].progress = upload[s].progress
                      /\ upload'[s].body = upload[s].body
                      /\ upload'[s].result = upload[s].result
                      /\ upload'[s].transfer = "none" <=> upload[s].transfer = "none"

LEMMA LookStays ==
    ASSUME NEW s \in Upload, SameLook(s)
    PROVE  /\ Phase'[s] = Phase[s] /\ Once'[s] = Once[s]
           /\ Kept'[s] = Kept[s] /\ Result'[s] = Result[s]
  <1>1. Progress(s)' = Progress(s)  BY DEF SameLook, Progress
  <1>2. Phase'[s] = Phase[s]  BY <1>1 DEF Phase
  <1>3. Once'[s] = Once[s]  BY DEF SameLook, Once
  <1>4. Kept'[s] = Kept[s] /\ Result'[s] = Result[s]  BY DEF SameLook, Kept, Result
  <1> QED  BY <1>2, <1>3, <1>4

LEMMA LooksStay ==
    ASSUME \A s \in Upload : SameLook(s), UNCHANGED told
    PROVE  UNCHANGED Promise!vars
  <1>1. Phase' = Phase
    <2>1. \A s \in Upload : Progress(s)' = Progress(s)  BY DEF SameLook, Progress
    <2> QED  BY <2>1 DEF Phase
  <1>2. Once' = Once  BY DEF SameLook, Once
  <1>3. Kept' = Kept  BY DEF SameLook, Kept
  <1>4. Result' = Result  BY DEF SameLook, Result
  <1> QED  BY <1>1, <1>2, <1>3, <1>4 DEF Promise!vars

(* A step that changes how one session looks. *)
LEMMA LookBecomes ==
    ASSUME NEW s \in Upload, \A r \in Upload \ {s} : SameLook(r), s \in Begun'
    PROVE  /\ Phase' = [Phase EXCEPT ![s] = PhaseOf(upload'[s].progress)]
           /\ Once' = [Once EXCEPT ![s] = (upload'[s].transfer # "none")]
           /\ Kept' = [Kept EXCEPT ![s] = upload'[s].body]
           /\ Result' = [Result EXCEPT ![s] = upload'[s].result]
  <1>1. \A r \in Upload \ {s} :
          /\ Phase'[r] = Phase[r] /\ Once'[r] = Once[r]
          /\ Kept'[r] = Kept[r] /\ Result'[r] = Result[r]
    BY LookStays
  <1>2. Progress(s)' = upload'[s].progress  BY DEF Progress
  <1>3. /\ Phase'[s] = PhaseOf(upload'[s].progress)
        /\ Once'[s] = (upload'[s].transfer # "none")
        /\ Kept'[s] = upload'[s].body /\ Result'[s] = upload'[s].result
    <2>1. Phase'[s] = PhaseOf(upload'[s].progress)  BY <1>2 DEF Phase
    <2>2. Once'[s] = (upload'[s].transfer # "none")  BY DEF Once
    <2>3. Kept'[s] = upload'[s].body  BY DEF Kept
    <2>4. Result'[s] = upload'[s].result  BY DEF Result
    <2> QED  BY <2>1, <2>2, <2>3, <2>4
  <1>4. Phase' = [Phase EXCEPT ![s] = PhaseOf(upload'[s].progress)]
    <2> PICK v : v = PhaseOf(upload'[s].progress)  OBVIOUS
    <2> QED  BY <1>1, <1>3 DEF Phase
  <1>5. Once' = [Once EXCEPT ![s] = (upload'[s].transfer # "none")]
    BY <1>1, <1>3 DEF Once
  <1>6. Kept' = [Kept EXCEPT ![s] = upload'[s].body]
    BY <1>1, <1>3 DEF Kept
  <1>7. Result' = [Result EXCEPT ![s] = upload'[s].result]
    BY <1>1, <1>3 DEF Result
  <1> QED  BY <1>4, <1>5, <1>6, <1>7

(* A transfer is one that is delegated, or is not, from the beginning on.  *)
LEMMA LookKeepsOnce ==
    ASSUME NEW s \in Begun, \A r \in Upload \ {s} : SameLook(r), s \in Begun',
           upload'[s].transfer = "none" <=> upload[s].transfer = "none"
    PROVE  Once' = Once
  <1>1. s \in Upload  BY DEF Begun
  <1>2. \A r \in Upload \ {s} : Once'[r] = Once[r]  BY LookStays
  <1>3. Once'[s] = Once[s]  BY <1>1 DEF Once
  <1> QED  BY <1>2, <1>3 DEF Once

(* Saving a session changes how no other looks. *)
LEMMA SavedLooks ==
    ASSUME UploadTypeOK, NEW s \in Upload, NEW session \in Session, Save(s, session)
    PROVE  /\ \A r \in Upload \ {s} : SameLook(r)
           /\ s \in Begun' /\ upload'[s] = session
  <1>1. /\ upload'[s] = session
        /\ \A r \in Upload \ {s} : upload'[r] = upload[r]
        /\ Begun' = Begun \cup {s}
    BY Saved
  <1> QED  BY <1>1 DEF SameLook

LEMMA BeginPromise ==
    ASSUME UInv, NEW s \in Upload, NEW i \in Identity, NEW p \in Node, NEW nm \in Name,
           NEW accepts \in Expectations, NEW transfer \in {"none", "available"},
           Begin(s, i, p, nm, accepts, transfer)
    PROVE  Promise!Begin(s)
  <1> DEFINE session ==
        [owner |-> i.user, parent |-> p, name |-> nm, accepts |-> accepts,
         identity |-> i, transfer |-> transfer, claim |-> None, expired |-> "nothing",
         progress |-> "pending", body |-> None, result |-> None]
  <1>0. UploadTypeOK  BY DEF UInv
  <1>1. session \in Session  BY Identities DEF Session, Unfinished
  <1>2. session.progress = "pending" /\ session.body = None /\ session.result = None
    OBVIOUS
  <1>3. Save(s, session) /\ s \notin Begun /\ told' = told  BY DEF Begin
  <1> HIDE DEF session
  <1>4. /\ \A r \in Upload \ {s} : SameLook(r)
        /\ s \in Begun' /\ upload'[s] = session
    BY <1>0, <1>1, <1>3, SavedLooks
  <1>5. Phase[s] = "none" /\ Kept[s] = None /\ Result[s] = None
    BY <1>0, <1>3, Phases
  <1>6. /\ Phase' = [Phase EXCEPT ![s] = PhaseOf(upload'[s].progress)]
        /\ Once' = [Once EXCEPT ![s] = (upload'[s].transfer # "none")]
        /\ Kept' = [Kept EXCEPT ![s] = upload'[s].body]
        /\ Result' = [Result EXCEPT ![s] = upload'[s].result]
    BY <1>4, LookBecomes
  <1>7. Phase' = [Phase EXCEPT ![s] = "open"]
    <2>1. PhaseOf("pending") = "open"  BY DEF PhaseOf
    <2> QED  BY <1>2, <1>4, <1>6, <2>1
  <1>8. Kept' = Kept /\ Result' = Result
    <2>1. Kept' = [Kept EXCEPT ![s] = None] /\ Result' = [Result EXCEPT ![s] = None]
      BY <1>2, <1>4, <1>6
    <2>2. Kept = [r \in Upload |-> Kept[r]] /\ Result = [r \in Upload |-> Result[r]]
      BY DEF Kept, Result
    <2> QED  BY <1>5, <2>1, <2>2
  <1>9. \E b \in BOOLEAN : Once' = [Once EXCEPT ![s] = b]
    <2>1. (upload'[s].transfer # "none") \in BOOLEAN  OBVIOUS
    <2> QED  BY <1>6, <2>1
  <1> QED  BY <1>3, <1>5, <1>7, <1>8, <1>9 DEF Promise!Begin

(* Whoever fills a session, with whatever is promised of it. *)
LEMMA FillPromise ==
    ASSUME UInv, NEW s \in Begun, NEW body \in Body,
           upload[s].progress = "pending"
             \/ (upload[s].progress = "uploaded" /\ upload[s].transfer = "none"),
           NEW session \in Session, Save(s, session), told' = told,
           session.progress = "uploaded", session.body = body,
           session.result = upload[s].result,
           session.transfer = "none" <=> upload[s].transfer = "none"
    PROVE  Promise!Fill(s, body)
  <1>0. UploadTypeOK /\ s \in Upload  BY DEF UInv, Begun
  <1>1. /\ \A r \in Upload \ {s} : SameLook(r)
        /\ s \in Begun' /\ upload'[s] = session
    BY <1>0, SavedLooks
  <1>2. /\ Phase' = [Phase EXCEPT ![s] = PhaseOf(upload'[s].progress)]
        /\ Kept' = [Kept EXCEPT ![s] = upload'[s].body]
        /\ Result' = [Result EXCEPT ![s] = upload'[s].result]
    BY <1>0, <1>1, LookBecomes
  <1>3. /\ Phase' = [Phase EXCEPT ![s] = "filled"]
        /\ Kept' = [Kept EXCEPT ![s] = body]
    <2>1. PhaseOf("uploaded") = "filled"  BY DEF PhaseOf
    <2> QED  BY <1>1, <1>2, <2>1
  <1>4. Result' = Result
    <2>1. Result[s] = upload[s].result  BY <1>0, Phases
    <2> QED  BY <1>1, <1>2, <2>1 DEF Result
  <1>5. Once' = Once  BY <1>1, LookKeepsOnce
  <1>6. Phase[s] = "open" \/ (Phase[s] = "filled" /\ ~Once[s])
    BY <1>0, Phases
  <1> QED  BY <1>3, <1>4, <1>5, <1>6 DEF Promise!Fill

LEMMA CompletePromise ==
    ASSUME UInv, NEW s \in Upload, NEW i \in Identity, NEW n \in Node, Complete(s, i, n)
    PROVE  Promise!Finish(s, n)
  <1> DEFINE session == [upload[s] EXCEPT !.progress = "completed", !.result = n]
  <1>0. FInv /\ UploadTypeOK /\ ResultInv(s)  BY DEF UInv
  <1>1. /\ s \in Begun /\ upload[s].progress = "uploaded" /\ n \notin drawn
        /\ Save(s, session) /\ told' = [told EXCEPT ![s] = told[s] \cup {n}]
    BY DEF Complete, Loads, CreatesFile, Creates, IsFresh
  <1>2. upload[s] \in Session  BY <1>0, <1>1, SessionFields
  <1>3. session \in Session  BY <1>2 DEF Session
  <1>4. /\ session.transfer = upload[s].transfer /\ session.progress = "completed"
        /\ session.body = upload[s].body /\ session.result = n
    BY <1>2 DEF Session
  <1> HIDE DEF session
  <1>5. /\ \A r \in Upload \ {s} : SameLook(r)
        /\ s \in Begun' /\ upload'[s] = session
    BY <1>0, <1>1, <1>3, SavedLooks
  <1>6. /\ Phase' = [Phase EXCEPT ![s] = PhaseOf(upload'[s].progress)]
        /\ Kept' = [Kept EXCEPT ![s] = upload'[s].body]
        /\ Result' = [Result EXCEPT ![s] = upload'[s].result]
    BY <1>5, LookBecomes
  <1>7. Phase[s] = "filled" /\ Kept[s] = upload[s].body
    BY <1>0, <1>1, Phases
  <1>8. /\ Phase' = [Phase EXCEPT ![s] = "done"]
        /\ Result' = [Result EXCEPT ![s] = n]
    <2>1. PhaseOf("completed") = "done"  BY DEF PhaseOf
    <2> QED  BY <1>4, <1>5, <1>6, <2>1
  <1>9. Kept' = Kept  BY <1>4, <1>5, <1>6, <1>7 DEF Kept
  <1>10. Once' = Once  BY <1>1, <1>4, <1>5, LookKeepsOnce
  <1>11. told' = [told EXCEPT ![s] = {n}]
    <2>1. told[s] = {}  BY <1>0, <1>1 DEF ResultInv
    <2> QED  BY <1>1, <2>1
  <1>12. ASSUME NEW r \in Upload PROVE Result[r] # n
    <2>1. ResultInv(r)  BY DEF UInv
    <2>2. None \notin Node  BY FilesystemAssumption
    <2>3. CASE r \in Begun
      <3>1. upload[r].result = None \/ upload[r].result \in drawn
        BY <2>1, <2>3 DEF ResultInv
      <3> QED  BY <1>0, <1>1, <2>2, <2>3, <3>1, Phases
    <2>4. CASE r \notin Begun  BY <1>0, <2>2, <2>4, Phases
    <2> QED  BY <2>3, <2>4
  <1> QED
    BY <1>7, <1>8, <1>9, <1>10, <1>11, <1>12 DEF Promise!Finish

(* A session that is filled, or becomes a file, keeps its promise; all that *)
(* happens besides, its clients do not see.                                *)
LEMMA PromiseStep ==
    ASSUME UInv, UploadNext
    PROVE  [Promise!Next]_(Promise!vars)
  <1>0. FInv /\ UploadTypeOK  BY DEF UInv
  <1>1. ASSUME UNCHANGED <<upload, told>> PROVE UNCHANGED Promise!vars
    <2>1. \A s \in Upload : SameLook(s)  BY <1>1 DEF SameLook, Begun
    <2> QED  BY <1>1, <2>1, LooksStay
  <1>2. ASSUME NEW s \in Begun, NEW session \in Session, Save(s, session), told' = told,
               session.progress = upload[s].progress, session.body = upload[s].body,
               session.result = upload[s].result,
               session.transfer = "none" <=> upload[s].transfer = "none"
        PROVE  UNCHANGED Promise!vars
    <2>0. s \in Upload  BY DEF Begun
    <2>1. /\ \A r \in Upload \ {s} : SameLook(r)
          /\ s \in Begun' /\ upload'[s] = session
      BY <1>0, <1>2, <2>0, SavedLooks
    <2>2. SameLook(s)  BY <1>2, <2>1 DEF SameLook
    <2>3. \A r \in Upload : SameLook(r)  BY <2>1, <2>2
    <2> QED  BY <1>2, <2>3, LooksStay
  <1>3. ASSUME NEW s \in Upload, NEW what \in {"transfer", "session"}, Expire(s, what)
        PROVE  UNCHANGED Promise!vars
    <2> DEFINE session == [upload[s] EXCEPT !.expired = what]
    <2>1. s \in Begun /\ Save(s, session) /\ told' = told  BY <1>3 DEF Expire
    <2>2. upload[s] \in Session  BY <1>0, <2>1, SessionFields
    <2>3. session \in Session  BY <2>2 DEF Session
    <2>4. /\ session.progress = upload[s].progress /\ session.body = upload[s].body
          /\ session.result = upload[s].result /\ session.transfer = upload[s].transfer
      BY <2>2 DEF Session
    <2> HIDE DEF session
    <2> QED  BY <1>2, <2>1, <2>3, <2>4
  <1>4. ASSUME NEW t \in Task, NEW s \in Upload, NEW body \in Body, Claim(t, s, body)
        PROVE  UNCHANGED Promise!vars
    <2> DEFINE session == [upload[s] EXCEPT !.transfer = "claimed", !.claim = t]
    <2>1. /\ s \in Begun /\ Save(s, session) /\ told' = told
          /\ upload[s].transfer = "available"
      BY <1>4 DEF Claim, LoadsDelegated
    <2>2. upload[s] \in Session  BY <1>0, <2>1, SessionFields
    <2>3. session \in Session  BY <2>2 DEF Session
    <2>4. /\ session.progress = upload[s].progress /\ session.body = upload[s].body
          /\ session.result = upload[s].result /\ session.transfer = "claimed"
      BY <2>2 DEF Session
    <2> HIDE DEF session
    <2> QED  BY <1>2, <2>1, <2>3, <2>4
  <1>5. ASSUME NEW s \in Upload, NEW i \in Identity, Repeat(s, i)
        PROVE  UNCHANGED Promise!vars
    <2>1. /\ s \in Begun /\ upload[s].progress = "completed" /\ upload' = upload
          /\ told' = [told EXCEPT ![s] = @ \cup {upload[s].result}]
      BY <1>5 DEF Repeat, Loads
    <2>2. told[s] = {upload[s].result}  BY <2>1 DEF UInv, ResultInv
    <2>3. told' = told  BY <1>0, <2>1, <2>2 DEF UploadTypeOK
    <2> QED  BY <1>1, <2>1, <2>3
  <1>6. ASSUME NEW t \in Task, PutSaves(t)
        PROVE  \E s \in Upload, body \in Body : Promise!Fill(s, body)
    <2> PICK s : s = Of(t)  OBVIOUS
    <2> DEFINE session == [upload[s] EXCEPT !.progress = "uploaded", !.body = stream[t].body]
    <2>1. /\ t \in Streaming /\ stream[t].kind = "put" /\ s \in Begun
          /\ upload[s].progress # "completed" /\ Save(s, session) /\ told' = told
      BY <1>6 DEF PutSaves, Staged, Loads
    <2>2. /\ upload[s] \in Session /\ stream[t].body \in Body
          /\ upload[s].progress \in Unfinished \cup {"completed"} /\ s \in Upload
      BY <1>0, <2>1, SessionFields, StreamFields
    <2>3. session \in Session  BY <2>2 DEF Session, Unfinished
    <2>4. /\ session.progress = "uploaded" /\ session.body = stream[t].body
          /\ session.result = upload[s].result /\ session.transfer = upload[s].transfer
      BY <2>2 DEF Session
    <2> HIDE DEF session
    <2>5. upload[s].transfer = "none"
      <3>1. StreamInv(t) /\ s # None  BY <2>1, UploadsAssumption DEF UInv, Begun
      <3> QED  BY <2>1, <3>1 DEF StreamInv
    <2>6. upload[s].progress = "pending"
            \/ (upload[s].progress = "uploaded" /\ upload[s].transfer = "none")
      BY <2>1, <2>2, <2>5 DEF Unfinished
    <2>7. Promise!Fill(s, stream[t].body)
      BY <2>1, <2>2, <2>3, <2>4, <2>6, FillPromise
    <2> QED  BY <2>2, <2>7
  <1>7. ASSUME NEW t \in Task, Consume(t)
        PROVE  \E s \in Upload, body \in Body : Promise!Fill(s, body)
    <2> PICK s : s = Of(t)  OBVIOUS
    <2> DEFINE session == [upload[s] EXCEPT !.progress = "uploaded", !.body = stream[t].body,
                                            !.transfer = "consumed", !.claim = None]
    <2>1. /\ t \in Streaming /\ s \in Begun /\ upload[s].transfer = "claimed"
          /\ upload[s].progress = "pending" /\ Save(s, session) /\ told' = told
      BY <1>7 DEF Consume, Staged, LoadsDelegated
    <2>2. upload[s] \in Session /\ stream[t].body \in Body /\ s \in Upload
      BY <1>0, <2>1, SessionFields, StreamFields
    <2>3. session \in Session  BY <2>2 DEF Session, Unfinished
    <2>4. /\ session.progress = "uploaded" /\ session.body = stream[t].body
          /\ session.result = upload[s].result /\ session.transfer = "consumed"
      BY <2>2 DEF Session
    <2> HIDE DEF session
    <2>5. Promise!Fill(s, stream[t].body)
      BY <2>1, <2>2, <2>3, <2>4, FillPromise
    <2> QED  BY <2>2, <2>5
  <1>8. ASSUME NEW t \in Task, Release(t)
        PROVE  UNCHANGED Promise!vars
    <2> PICK s : s = Of(t)  OBVIOUS
    <2> DEFINE session == [upload[s] EXCEPT !.transfer = "available", !.claim = None]
    <2>1. /\ t \in Streaming /\ stream[t].step = "releasing" /\ told' = told
      BY <1>8 DEF Release
    <2>2. StreamInv(t)  BY <2>1 DEF UInv
    <2>3. s \in Begun /\ upload[s].transfer = "claimed" /\ upload[s].claim = t
      BY <2>1, <2>2 DEF StreamInv
    <2>4. Save(s, session)  BY <1>8, <2>3 DEF Release
    <2>5. upload[s] \in Session  BY <1>0, <2>3, SessionFields
    <2>6. session \in Session  BY <2>5 DEF Session
    <2>7. /\ session.progress = upload[s].progress /\ session.body = upload[s].body
          /\ session.result = upload[s].result /\ session.transfer = "available"
      BY <2>5 DEF Session
    <2> HIDE DEF session
    <2> QED  BY <1>2, <2>1, <2>3, <2>4, <2>6, <2>7
  <1>9. ASSUME NEW t \in Task, Crash(t)
        PROVE  UNCHANGED Promise!vars
    <2>1. /\ told' = told
          /\ upload' = [r \in Upload |-> IF r \in Begun /\ upload[r].claim = t
                                         THEN [upload[r] EXCEPT !.claim = Lost] ELSE upload[r]]
      BY <1>9 DEF Crash
    <2>2. ASSUME NEW s \in Upload PROVE SameLook(s)
      <3> DEFINE session == [upload[s] EXCEPT !.claim = Lost]
      <3>1. CASE s \in Begun /\ upload[s].claim = t
        <4>1. upload[s] \in Session  BY <1>0, <3>1, SessionFields
        <4>2. session \in Session  BY <4>1 DEF Session
        <4>3. /\ session.progress = upload[s].progress /\ session.body = upload[s].body
              /\ session.result = upload[s].result /\ session.transfer = upload[s].transfer
          BY <4>1 DEF Session
        <4>4. upload'[s] = session  BY <2>1, <3>1
        <4> HIDE DEF session
        <4>5. s \in Begun'  BY <4>2, <4>4, UploadsAssumption DEF Begun
        <4> QED  BY <3>1, <4>3, <4>4, <4>5 DEF SameLook
      <3>2. CASE ~(s \in Begun /\ upload[s].claim = t)
        <4>1. upload'[s] = upload[s]  BY <2>1, <3>2
        <4> QED  BY <4>1 DEF SameLook, Begun
      <3> QED  BY <3>1, <3>2
    <2> QED  BY <2>1, <2>2, LooksStay
  <1>10. CASE FilesystemStep
    BY <1>1, <1>10 DEF FilesystemStep, sessions
  <1>11. CASE SessionStep
    BY <1>3, <1>5, <1>11, BeginPromise, CompletePromise DEF SessionStep, Promise!Next
  <1>12. CASE StartStep
    BY <1>1, <1>4, <1>12 DEF StartStep, Put, UploadFile
  <1>13. CASE \E t \in Task : Stage(t) \/ Fail(t) \/ Crash(t) \/ Settles(t)
    <2>1. ASSUME NEW t \in Task, Stage(t) \/ Fail(t) \/ (\E n \in Node : SaveFile(t, n))
          PROVE  UNCHANGED Promise!vars
      BY <1>1, <2>1 DEF Stage, Fail, SaveFile
    <2> QED
      BY <1>6, <1>7, <1>8, <1>9, <1>13, <2>1 DEF Settles, Promise!Next
  <1> QED  BY <1>10, <1>11, <1>12, <1>13 DEF UploadNext

(* Whatever is retried, repeated and overtaken, a session becomes at most   *)
(* one file, with one content, and a delegated one is filled once.          *)
THEOREM UploadsKeepTheirPromise == UploadSpec => ImplementsPromise
  <1>1. UploadInit => Promise!Init
    <2> SUFFICES ASSUME UploadInit PROVE Promise!Init
      OBVIOUS
    <2>1. UploadTypeOK /\ Begun = {}  BY DEF UploadInit, UploadTypeOK, Begun
    <2>2. Phase = [s \in Upload |-> "none"]
      <3>1. \A s \in Upload : Progress(s) = "none"  BY <2>1 DEF Progress
      <3>2. PhaseOf("none") = "none"  BY DEF PhaseOf
      <3> QED  BY <3>1, <3>2 DEF Phase
    <2>3. Once = [s \in Upload |-> FALSE]  BY <2>1 DEF Once
    <2>4. Kept = [s \in Upload |-> None] /\ Result = [s \in Upload |-> None]
      BY <2>1 DEF Kept, Result
    <2> QED  BY <2>2, <2>3, <2>4 DEF UploadInit, Promise!Init
  <1>2. UInv /\ [UploadNext]_uploadVars => [Promise!Next]_(Promise!vars)
    <2>1. ASSUME UNCHANGED uploadVars PROVE UNCHANGED Promise!vars
      <3>1. UNCHANGED <<upload, told>>  BY <2>1 DEF uploadVars
      <3>2. \A s \in Upload : SameLook(s)  BY <3>1 DEF SameLook, Begun
      <3> QED  BY <3>1, <3>2, LooksStay
    <2> QED  BY <2>1, PromiseStep
  <1> QED  BY <1>1, <1>2, UploadInvariance, PTL DEF UploadSpec, ImplementsPromise, Promise!Spec

=============================================================================
