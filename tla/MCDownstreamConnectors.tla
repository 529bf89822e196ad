---------------------- MODULE MCDownstreamConnectors ----------------------
(***************************************************************************)
(* Small instances of DownstreamConnectors: two prefixes and two tools     *)
(* whose mangled names collide across prefixes, one native name, one open  *)
(* server, one with static bearer tokens and one with OAuth.               *)
(***************************************************************************)
EXTENDS DownstreamConnectors, TLC

CONSTANTS open, static, oauth, anonymous, bearer1, bearer2, grant1, grant2,
          p1, p2, t1, t2, n1, n2, n3

MCAuthOpen == (open :> "none")
MCAuthStaticOAuth == (static :> "static" @@ oauth :> "oauth")
MCToken == [none |-> {anonymous}, static |-> {bearer1, bearer2}, oauth |-> {grant1, grant2}]
MCTokenFew == [none |-> {anonymous}, static |-> {bearer1}, oauth |-> {grant1, grant2}]

(* t2 under p1 and t1 under p2 collide. *)
MCPublicName == (<<p1, t1>> :> n1 @@ <<p1, t2>> :> n2 @@ <<p2, t1>> :> n2 @@ <<p2, t2>> :> n3)

ConnectorSymmetry == Permutations(Connector)
RequestSymmetry == Permutations(Request)
Symmetry == ConnectorSymmetry \cup RequestSymmetry
===========================================================================
