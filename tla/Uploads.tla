------------------------------- MODULE Uploads -------------------------------
(***************************************************************************)
(* Uploads (core/filesystem/uploads and content): how files get content.   *)
(*                                                                         *)
(* A session is begun, filled by a put and completed, each by requests of  *)
(* its owner; or its put is delegated to whoever holds a token, for one    *)
(* transfer.  The body is streamed to the content store between two        *)
(* transactions, while the session may expire, be filled or completed by   *)
(* others, and the owner lose the right to write in the directory.         *)
(*                                                                         *)
(* The namespace and its policies are those of Filesystem, all of whose    *)
(* operations go on at the same time.                                      *)
(***************************************************************************)
EXTENDS Filesystem

CONSTANTS
    Upload,         \* identities of sessions (uuid4)
    Task,           \* requests that stream a body
    Body,
    Expectations,   \* sets of bodies: those of the declared size and checksum
    Lost            \* a claim whose request is gone

Unfinished == {"pending", "uploaded"}
Session == [owner : User, parent : Node, name : Name, accepts : Expectations,
            identity : Identity, transfer : {"none", "available", "claimed", "consumed"},
            claim : Task \cup {None, Lost}, expired : {"nothing", "transfer", "session"},
            progress : Unfinished \cup {"completed"}, body : Body \cup {None},
            result : Node \cup {None}]
Stream == [kind : {"put", "delegated", "file"}, upload : Upload \cup {None},
           identity : Identity, parent : Node, name : Name, body : Body,
           step : {"staging", "staged", "releasing"}]

ASSUME UploadsAssumption ==
    /\ Lost \notin Task /\ None \notin Task \cup {Lost} /\ None \notin Body
    /\ None \notin Upload /\ None \notin Session /\ None \notin Stream
    /\ Expectations \subseteq SUBSET Body

VARIABLES
    upload,     \* upload[s]: the stored session, or None
    stream,     \* stream[t]: the body task t is storing, or None
    content,    \* content[n]: what file n refers to, or None
    told        \* told[s]: the nodes that completions of s have answered

sessions == <<upload, stream, told>>
uploadVars == <<vars, upload, stream, content, told>>

UploadInit ==
    /\ Init
    /\ upload = [s \in Upload |-> None]
    /\ stream = [t \in Task |-> None]
    /\ content = [n \in Node |-> None]
    /\ told = [s \in Upload |-> {}]

Save(s, session) == upload' = [upload EXCEPT ![s] = session]
Begun == { s \in Upload : upload[s] # None }

(* _parent: the right to write in the directory, in this very transaction. *)
MayAdd(i, p) == CanWrite(i, p) /\ IsDirectory(p)

(* _load, for the owner. *)
Loads(i, s) ==
    /\ s \in Begun /\ upload[s].owner = i.user
    /\ MayAdd(i, upload[s].parent)
    /\ upload[s].progress = "completed" \/ upload[s].expired # "session"

(* _delegated, for a holder of the token. *)
LoadsDelegated(s) ==
    /\ s \in Begun /\ upload[s].transfer # "none"
    /\ upload[s].expired = "nothing"
    /\ MayAdd(upload[s].identity, upload[s].parent)

-----------------------------------------------------------------------------
(* Sessions.                                                               *)

(* begin and begin_delegated. *)
Begin(s, i, p, nm, accepts, transfer) ==
    /\ s \notin Begun
    /\ MayAdd(i, p)
    /\ Save(s, [owner |-> i.user, parent |-> p, name |-> nm, accepts |-> accepts,
                identity |-> i, transfer |-> transfer, claim |-> None, expired |-> "nothing",
                progress |-> "pending", body |-> None, result |-> None])
    /\ UNCHANGED <<vars, stream, content, told>>

(* The delegated transfer expires no later than its session. *)
Expire(s, what) ==
    /\ s \in Begun /\ upload[s].expired # "session" /\ upload[s].expired # what
    /\ what = "transfer" => upload[s].transfer # "none"
    /\ Save(s, [upload[s] EXCEPT !.expired = what])
    /\ UNCHANGED <<vars, stream, content, told>>

-----------------------------------------------------------------------------
(* Streaming: the content driver stores the body outside any transaction.  *)

Streams(t, kind, s, i, p, nm, body) ==
    /\ stream[t] = None
    /\ stream' = [stream EXCEPT ![t] = [kind |-> kind, upload |-> s, identity |-> i, parent |-> p,
                                        name |-> nm, body |-> body, step |-> "staging"]]
Goes(t, step) == stream' = [stream EXCEPT ![t].step = step]
Ends(t) == stream' = [stream EXCEPT ![t] = None]
Streaming == { t \in Task : stream[t] # None }
Of(t) == stream[t].upload

(* put, its first transaction. *)
Put(t, s, i, body) ==
    /\ Loads(i, s)
    /\ upload[s].transfer = "none" /\ upload[s].progress # "completed"
    /\ Streams(t, "put", s, i, upload[s].parent, upload[s].name, body)
    /\ UNCHANGED <<vars, upload, content, told>>

\* Mutant: a claimed transfer is claimed again.
ClaimAnyway(t, s, body) ==
    /\ LoadsDelegated(s)
    /\ upload[s].transfer \in {"available", "claimed"} /\ upload[s].progress = "pending"
    /\ Save(s, [upload[s] EXCEPT !.transfer = "claimed", !.claim = t])
    /\ Streams(t, "delegated", s, upload[s].identity, upload[s].parent, upload[s].name, body)
    /\ UNCHANGED <<vars, content, told>>

(* put_delegated, its first transaction: one transfer at a time. *)
Claim(t, s, body) ==
    /\ LoadsDelegated(s)
    /\ upload[s].transfer = "available" /\ upload[s].progress = "pending"
    /\ Save(s, [upload[s] EXCEPT !.transfer = "claimed", !.claim = t])
    /\ Streams(t, "delegated", s, upload[s].identity, upload[s].parent, upload[s].name, body)
    /\ UNCHANGED <<vars, content, told>>

(* ContentService.upload, its first transaction. *)
UploadFile(t, i, p, nm, body) ==
    /\ MayAdd(i, p) /\ NameIsFree(p, nm)
    /\ Streams(t, "file", None, i, p, nm, body)
    /\ UNCHANGED <<vars, upload, content, told>>

(* _stage: a body of another size or checksum than declared is refused. *)
Stage(t) ==
    /\ t \in Streaming /\ stream[t].step = "staging"
    /\ Of(t) # None => stream[t].body \in upload[Of(t)].accepts
    /\ Goes(t, "staged")
    /\ UNCHANGED <<vars, upload, content, told>>

Staged(t, kind) == t \in Streaming /\ stream[t].step = "staged" /\ stream[t].kind = kind

\* Mutant: the second transaction does not ask for progress again.
PutOver(t) ==
    /\ Staged(t, "put") /\ MayAdd(stream[t].identity, stream[t].parent)
    /\ upload[Of(t)].expired # "session"
    /\ Save(Of(t), [upload[Of(t)] EXCEPT !.progress = "uploaded", !.body = stream[t].body])
    /\ Ends(t)
    /\ UNCHANGED <<vars, content, told>>

(* put, its second transaction: the last of several puts wins. *)
PutSaves(t) ==
    /\ Staged(t, "put") /\ Loads(stream[t].identity, Of(t))
    /\ upload[Of(t)].progress # "completed"
    /\ Save(Of(t), [upload[Of(t)] EXCEPT !.progress = "uploaded", !.body = stream[t].body])
    /\ Ends(t)
    /\ UNCHANGED <<vars, content, told>>

(* put_delegated, its second transaction. *)
Consume(t) ==
    /\ Staged(t, "delegated") /\ LoadsDelegated(Of(t))
    /\ upload[Of(t)].transfer = "claimed" /\ upload[Of(t)].claim = t
    /\ upload[Of(t)].progress = "pending"
    /\ Save(Of(t), [upload[Of(t)] EXCEPT !.progress = "uploaded", !.body = stream[t].body,
                                         !.transfer = "consumed", !.claim = None])
    /\ Ends(t)
    /\ UNCHANGED <<vars, content, told>>

(* create_node, set_owner and update_node in one transaction. *)
CreatesFile(n, p, nm, u, body) ==
    /\ Creates(n, p, nm, "file", 2)
    /\ owner' = [owner EXCEPT ![n] = u]
    /\ content' = [content EXCEPT ![n] = body]
    /\ UNCHANGED <<grants, groups, home, view>>

\* Mutant: the right to write was asked before the body was stored.
FileWithoutAsking(t, n) ==
    /\ Staged(t, "file")
    /\ CreatesFile(n, stream[t].parent, stream[t].name, stream[t].identity.user, stream[t].body)
    /\ Ends(t)
    /\ UNCHANGED <<upload, told>>

(* ContentService.upload, its second transaction. *)
SaveFile(t, n) ==
    /\ Staged(t, "file") /\ MayAdd(stream[t].identity, stream[t].parent)
    /\ CreatesFile(n, stream[t].parent, stream[t].name, stream[t].identity.user, stream[t].body)
    /\ Ends(t)
    /\ UNCHANGED <<upload, told>>

(* The client goes away, the content store fails, the body is not what was *)
(* declared, or the second transaction refuses it.                         *)
Fail(t) ==
    /\ t \in Streaming /\ stream[t].step # "releasing"
    /\ IF stream[t].kind = "delegated" THEN Goes(t, "releasing") ELSE Ends(t)
    /\ UNCHANGED <<vars, upload, content, told>>

\* Mutant: a failed transfer keeps its claim.
ReleaseNothing(t) ==
    /\ t \in Streaming /\ stream[t].step = "releasing"
    /\ Ends(t)
    /\ UNCHANGED <<vars, upload, content, told>>

(* _release_claim, shielded from cancellation. *)
Release(t) ==
    /\ t \in Streaming /\ stream[t].step = "releasing"
    /\ IF upload[Of(t)].transfer = "claimed" /\ upload[Of(t)].claim = t
       THEN Save(Of(t), [upload[Of(t)] EXCEPT !.transfer = "available", !.claim = None])
       ELSE UNCHANGED upload
    /\ Ends(t)
    /\ UNCHANGED <<vars, content, told>>

(* The process ends, or the transaction of _release_claim fails: a claim   *)
(* stays that no request holds.                                            *)
Crash(t) ==
    /\ t \in Streaming
    /\ Ends(t)
    /\ upload' = [s \in Upload |-> IF s \in Begun /\ upload[s].claim = t
                                   THEN [upload[s] EXCEPT !.claim = Lost] ELSE upload[s]]
    /\ UNCHANGED <<vars, content, told>>

-----------------------------------------------------------------------------
(* Completion.                                                             *)

(* complete: a filled session becomes a file. *)
Complete(s, i, n) ==
    /\ Loads(i, s)
    /\ upload[s].progress = "uploaded" /\ upload[s].body \in upload[s].accepts
    /\ CreatesFile(n, upload[s].parent, upload[s].name, i.user, upload[s].body)
    /\ Save(s, [upload[s] EXCEPT !.progress = "completed", !.result = n])
    /\ told' = [told EXCEPT ![s] = @ \cup {n}]
    /\ UNCHANGED stream

(* complete once more: the answer is the same, while the file exists. *)
Repeat(s, i) ==
    /\ Loads(i, s)
    /\ upload[s].progress = "completed" /\ upload[s].result \in Live
    /\ told' = [told EXCEPT ![s] = @ \cup {upload[s].result}]
    /\ UNCHANGED <<vars, upload, stream, content>>

-----------------------------------------------------------------------------
(* A row that is deleted takes its reference to the content along. *)
FilesystemStep ==
    /\ Next
    /\ content' = [n \in Node |-> IF node'[n] = None THEN None ELSE content[n]]
    /\ UNCHANGED sessions

SessionStep ==
    \E s \in Upload :
        \/ \E i \in Identity, p \in Node, nm \in Name, accepts \in Expectations,
              transfer \in {"none", "available"} : Begin(s, i, p, nm, accepts, transfer)
        \/ \E what \in {"transfer", "session"} : Expire(s, what)
        \/ \E i \in Identity, n \in Node : Complete(s, i, n)
        \/ \E i \in Identity : Repeat(s, i)

StartStep ==
    \E t \in Task, body \in Body :
        \/ \E s \in Upload, i \in Identity : Put(t, s, i, body)
        \/ \E s \in Upload : Claim(t, s, body)
        \/ \E i \in Identity, p \in Node, nm \in Name : UploadFile(t, i, p, nm, body)

Settles(t) ==
    \/ PutSaves(t) \/ Consume(t) \/ (\E n \in Node : SaveFile(t, n))
    \/ (t \in Streaming /\ stream[t].step = "staged" /\ Fail(t))
    \/ Release(t)

UploadNext ==
    \/ FilesystemStep \/ SessionStep \/ StartStep
    \/ \E t \in Task : Stage(t) \/ Fail(t) \/ Crash(t) \/ Settles(t)

UploadSpec == UploadInit /\ [][UploadNext]_uploadVars

(* A request whose body is stored goes on, by whichever way its second     *)
(* transaction ends; how long a body streams is up to its sender.          *)
FairUploadSpec == UploadSpec /\ \A t \in Task : WF_uploadVars(Settles(t))

-----------------------------------------------------------------------------
(* Properties.                                                             *)

UploadTypeOK ==
    /\ upload \in [Upload -> Session \cup {None}]
    /\ stream \in [Task -> Stream \cup {None}]
    /\ content \in [Node -> Body \cup {None}]
    /\ told \in [Upload -> SUBSET Node]

(* A delegated transfer is used by one request at a time: the one that     *)
(* streams holds the claim, and a claim without such a request is one that *)
(* a crash has left.                                                       *)
ClaimsHaveStreams ==
    /\ \A t \in Streaming : stream[t].kind = "delegated" =>
         upload[Of(t)].transfer = "claimed" /\ upload[Of(t)].claim = t
    /\ \A s \in Begun :
         /\ upload[s].transfer = "claimed" <=> upload[s].claim # None
         /\ upload[s].claim \in Task =>
              stream[upload[s].claim] # None /\ Of(upload[s].claim) = s

(* The file of a completed session holds what was last put into it, of the *)
(* declared size and checksum, and belongs to the owner of the session.    *)
FilesHoldWhatWasPut ==
    \A s \in Begun :
        /\ upload[s].progress = "pending" <=> upload[s].body = None
        /\ upload[s].body # None => upload[s].body \in upload[s].accepts
        /\ upload[s].progress = "completed" /\ upload[s].result \in Live =>
             /\ content[upload[s].result] = upload[s].body
             /\ owner[upload[s].result] = upload[s].owner

(* The state of the sessions is sound, whatever overtakes what.            *)
UploadInv == UploadTypeOK /\ ClaimsHaveStreams /\ FilesHoldWhatWasPut

(* However long its body has streamed, a file with content comes into a    *)
(* directory in a state in which its owner may write there.                *)
WritersAddFiles ==
    [][ \A n \in Node : content[n] = None /\ content'[n] # None =>
          \E i \in Identity : i.user = owner'[n] /\ CanWrite(i, node'[n].parent) ]_uploadVars

PhaseOf(progress) ==
    CASE progress = "none" -> "none"
      [] progress = "pending" -> "open"
      [] progress = "uploaded" -> "filled"
      [] progress = "completed" -> "done"
Progress(s) == IF s \in Begun THEN upload[s].progress ELSE "none"
Phase == [s \in Upload |-> PhaseOf(Progress(s))]
Once == [s \in Upload |-> s \in Begun /\ upload[s].transfer # "none"]
Kept == [s \in Upload |-> IF s \in Begun THEN upload[s].body ELSE None]
Result == [s \in Upload |-> IF s \in Begun THEN upload[s].result ELSE None]

Promise == INSTANCE UploadPromise WITH
    phase <- Phase, once <- Once, kept <- Kept, file <- Result, told <- told

(* Whatever is retried, repeated and overtaken, a session becomes at most  *)
(* one file, with one content, and a delegated one is filled once.         *)
ImplementsPromise == Promise!Spec

(* A claim whose body is no longer streaming is given back or consumed.    *)
ClaimsAreSettled ==
    \A t \in Task, s \in Upload :
        (t \in Streaming /\ stream[t].kind = "delegated" /\ stream[t].step # "staging" /\ Of(t) = s)
            ~> ~(s \in Begun /\ upload[s].claim = t)
=============================================================================
