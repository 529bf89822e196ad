------------------------------- MODULE Listeners -------------------------------
(***************************************************************************)
(* The HTTP listeners of the API process (hosting/listeners.py) and the    *)
(* runtime that outlives them (serve_api in hosting/api_server.py).        *)
(*                                                                         *)
(* One event loop runs the host, its start-up task, a server per listener  *)
(* and the requests.  A signal, a server that dies, a cancellation of the  *)
(* host and the deadlines may come at any await.                           *)
(***************************************************************************)
EXTENDS Naturals

CONSTANT N    \* listeners, numbered as they are started

ASSUME ListenersAssumption == N \in Nat \ {0}

Listener == 1..N

VARIABLES
    host,      \* where serve_api and serve_listeners are
    startup,   \* the task of _ListenerHost.start
    upto,      \* the server it waits for
    shutdown,  \* shutdown_requested
    ready,     \* _ListenerHost.ready
    runtime,   \* the analytics runtime, shared by the applications
    socket,    \* listeners with a bound socket
    lifespan,  \* of each application
    server,    \* of each listener
    busy,      \* listeners with a request in flight
    result,    \* how the host ends
    asked,     \* history: was it asked to stop, by a signal or a cancellation?
    shielded,  \* does cleaning up go on when the host is cancelled (asyncio.shield)?
    behind     \* history: what the host has not waited for to its end

tasks == <<startup, upto, server, busy>>
resources == <<runtime, socket, lifespan>>
history == <<asked, shielded, behind>>
hostVars == <<host, tasks, shutdown, ready, resources, result, history>>

Hosts == {"new", "prepared", "starting", "serving", "finishing", "draining",
          "clearing", "leaving", "closing", "done"}
Startups == {"none", "entering", "awaiting", "done", "failed", "cancelled"}
Servers == {"none", "starting", "listening", "draining", "stopped", "failed"}

\* What may be left behind: a start-up, servers or requests that ignore their
\* cancellation or are waited for no longer, the closing of the host itself.
Parts == {"startup", "servers", "requests", "close"}

Ended == {"stopped", "failed"}
Dead == {l \in Listener : server[l] \in Ended}

HostInit ==
    /\ host = "new" /\ startup = "none" /\ upto = 1
    /\ shutdown = FALSE /\ ready = FALSE
    /\ runtime = "new" /\ socket = {}
    /\ lifespan = [l \in Listener |-> "out"]
    /\ server = [l \in Listener |-> "none"]
    /\ busy = {}
    /\ result = "none" /\ asked = FALSE /\ shielded = TRUE /\ behind = {}

---------------------------------------------------------------------------
(* The host.                                                               *)

\* What is done on the way out keeps the first error.
Result(outcome) == result' = IF result = "error" THEN result ELSE outcome

\* ensure_ready, within its own deadline.
Prepare ==
    /\ host = "new"
    /\ \/ runtime' = "ready" /\ host' = "prepared" /\ UNCHANGED <<result, shutdown>>
       \/ host' = "closing" /\ Result("error") /\ shutdown' = TRUE /\ UNCHANGED runtime
    /\ UNCHANGED <<tasks, ready, socket, lifespan, history>>

\* _bind takes all the sockets or none.
Bind ==
    /\ host = "prepared" /\ ~shutdown
    /\ \/ /\ socket' = Listener /\ host' = "starting" /\ startup' = "entering"
          /\ UNCHANGED <<shutdown, result>>
       \/ /\ host' = "closing" /\ Result("error") /\ shutdown' = TRUE
          /\ UNCHANGED <<socket, startup>>
    /\ UNCHANGED <<upto, server, busy, ready, runtime, lifespan, history>>

DoNotBind ==
    /\ host = "prepared" /\ shutdown
    /\ host' = "closing" /\ Result("ok")
    /\ UNCHANGED <<tasks, shutdown, ready, resources, history>>

\* Everybody is told to stop, the start-up is cancelled.
Finish(outcome) ==
    /\ host' = "finishing"
    /\ shutdown' = TRUE /\ ready' = FALSE
    /\ Result(outcome)

Started ==
    /\ host = "starting" /\ startup = "done" /\ ~shutdown
    /\ host' = "serving"
    /\ UNCHANGED <<tasks, shutdown, ready, resources, result, history>>

\* While it starts: the start-up fails, a stop is asked for, the deadline.
StopStarting ==
    /\ host = "starting"
    /\ \/ startup = "failed" /\ Finish("error")
       \/ startup # "failed" /\ shutdown /\ Finish("ok")
       \/ startup \in {"entering", "awaiting"} /\ Finish("error")
    /\ UNCHANGED <<tasks, resources, history>>

\* Mutant: only a stop that is asked for is waited for.
StopWhenTold ==
    /\ host = "serving" /\ shutdown
    /\ Finish(IF Dead # {} THEN "error" ELSE "ok")
    /\ UNCHANGED <<tasks, resources, history>>

\* While it serves: a stop is asked for, or a server ends.
StopServing ==
    /\ host = "serving" /\ (shutdown \/ Dead # {})
    /\ Finish(IF Dead # {} THEN "error" ELSE "ok")
    /\ UNCHANGED <<tasks, resources, history>>

\* A cancellation of the host, at any of its awaits and as often as one comes.
\* While it waits for the start-up to end, nothing makes it close.  Then the
\* first one is shielded off and the next one passed on to closing, which goes
\* on with the sockets and the lifespans: one of them is given up, as in
\* LeaveLifespan.  The runtime completes its shutdown first (complete_cleanup).
Cancel ==
    /\ asked' = TRUE
    /\ \/ /\ host = "new"
          /\ host' = "closing" /\ Result("error") /\ shutdown' = TRUE
          /\ UNCHANGED <<ready, socket, shielded, behind>>
       \/ /\ host \in {"starting", "serving"}
          /\ Finish("error")
          /\ UNCHANGED <<socket, shielded, behind>>
       \/ /\ host = "finishing"
          /\ host' = "closing" /\ Result("error") /\ behind' = behind \cup {"close"}
          /\ UNCHANGED <<shutdown, ready, socket, shielded>>
       \/ /\ host \in {"draining", "clearing"} /\ ~shielded
          /\ host' = "leaving" /\ socket' = {} /\ Result("error")
          /\ behind' = behind \cup {"servers", "requests"}
          /\ UNCHANGED <<shutdown, ready, shielded>>
       \/ /\ \/ host \in {"draining", "clearing"} /\ shielded
             \/ host \in {"leaving", "closing"}
          /\ shielded' = FALSE /\ Result("error")
          /\ UNCHANGED <<host, shutdown, ready, socket, behind>>
    /\ UNCHANGED <<tasks, runtime, lifespan>>

\* _finish_tasks of the start-up, which waits no longer than its deadline; close.
FinishStartup ==
    /\ host = "finishing"
    /\ behind' = IF startup \in {"entering", "awaiting"} THEN behind \cup {"startup"} ELSE behind
    /\ IF startup \in {"entering", "awaiting", "failed"} THEN Result("error") ELSE UNCHANGED result
    /\ host' = "draining"
    /\ UNCHANGED <<tasks, shutdown, ready, resources, asked, shielded>>

\* The servers have ended, or are cancelled at the deadline; one that does not
\* end then is left behind.
Drained ==
    /\ host = "draining"
    /\ host' = "clearing"
    /\ IF \A l \in Listener : server[l] \in Ended \cup {"none"}
        THEN UNCHANGED <<server, result, behind>>
        ELSE \/ /\ server' = [l \in Listener |-> IF server[l] = "none" THEN "none" ELSE "stopped"]
                /\ UNCHANGED <<result, behind>>
             \/ behind' = behind \cup {"servers"} /\ Result("error") /\ UNCHANGED server
    /\ UNCHANGED <<startup, upto, busy, shutdown, ready, resources, asked, shielded>>

\* Mutant: requests are left to the servers.
ClearNothing ==
    /\ host = "clearing"
    /\ socket' = {} /\ host' = "leaving"
    /\ UNCHANGED <<tasks, runtime, lifespan, shutdown, ready, result, history>>

\* The requests are cancelled, then the sockets closed.
Clear ==
    /\ host = "clearing"
    /\ \/ busy' = {} /\ UNCHANGED <<result, behind>>
       \/ busy # {} /\ behind' = behind \cup {"requests"} /\ Result("error") /\ UNCHANGED busy
    /\ socket' = {} /\ host' = "leaving"
    /\ UNCHANGED <<startup, upto, server, runtime, lifespan, shutdown, ready, asked, shielded>>

Inside == {l \in Listener : lifespan[l] = "in"}

\* The stack is unwound, whatever fails or is late on the way.
LeaveLifespan(l) ==
    /\ host = "leaving"
    /\ l \in Inside /\ \A k \in Inside : k =< l
    /\ lifespan' = [lifespan EXCEPT ![l] = "left"]
    /\ (UNCHANGED result \/ Result("error"))
    /\ UNCHANGED <<host, tasks, shutdown, ready, runtime, socket, history>>

Left ==
    /\ host = "leaving" /\ Inside = {}
    /\ host' = "closing"
    /\ UNCHANGED <<tasks, shutdown, ready, resources, result, history>>

\* runtime.shutdown of serve_api: it is late or cancelled when it has closed.
Shutdown ==
    /\ host = "closing"
    /\ runtime' = "closed" /\ shutdown' = TRUE
    /\ host' = "done"
    /\ (UNCHANGED result \/ Result("error"))
    /\ UNCHANGED <<tasks, ready, socket, lifespan, history>>

---------------------------------------------------------------------------
(* The start-up.  The host cancels it on the way out, but what a lifespan    *)
(* awaits may ignore that, and the start-up, once begun, then goes on.      *)

Starts == startup \in {"entering", "awaiting"}

\* What is being entered when the start-up ends is not on the stack.
Abandoned == [l \in Listener |-> IF lifespan[l] = "entering" THEN "out" ELSE lifespan[l]]

Enter(l) ==
    /\ startup = "entering" /\ (l > 1 \/ host = "starting")
    /\ lifespan[l] = "out" /\ \A k \in Listener : k < l => lifespan[k] \in {"in", "left"}
    /\ lifespan' = [lifespan EXCEPT ![l] = "entering"]
    /\ UNCHANGED <<host, tasks, shutdown, ready, runtime, socket, result, history>>

\* The tasks of the servers are created after the last lifespan.
Entered(l) ==
    /\ startup = "entering" /\ lifespan[l] = "entering"
    /\ lifespan' = [lifespan EXCEPT ![l] = "in"]
    /\ IF l = N
        THEN startup' = "awaiting" /\ server' = [k \in Listener |-> "starting"]
        ELSE UNCHANGED <<startup, server>>
    /\ UNCHANGED <<host, upto, busy, shutdown, ready, runtime, socket, result, history>>

\* Mutant: the server that is waited for is looked at, and no other.
MayGoOnAlone == server[upto] = "listening"

\* It has started to listen, and _check_servers finds none that has ended.
MayGoOn == server[upto] = "listening" /\ Dead = {}

\* The servers are waited for one after the other.
AwaitNext ==
    /\ startup = "awaiting"
    /\ MayGoOn
    /\ IF upto < N
        THEN upto' = upto + 1 /\ UNCHANGED <<startup, ready>>
        ELSE startup' = "done" /\ ready' = ~shutdown /\ UNCHANGED upto
    /\ UNCHANGED <<host, server, busy, shutdown, resources, result, history>>

\* A lifespan raises, a server ends, the start-up's own deadline passes.
StartupFails ==
    /\ Starts
    /\ startup' = "failed" /\ lifespan' = Abandoned
    /\ UNCHANGED <<host, upto, server, busy, shutdown, ready, runtime, socket, result, history>>

StartupCancelled ==
    /\ Starts /\ host # "starting"
    /\ startup' = "cancelled" /\ lifespan' = Abandoned
    /\ UNCHANGED <<host, upto, server, busy, shutdown, ready, runtime, socket, result, history>>

---------------------------------------------------------------------------
(* The servers, and who uses them.                                         *)

ServerGoes(l, where) ==
    /\ server' = [server EXCEPT ![l] = where]
    /\ UNCHANGED <<host, startup, upto, busy, shutdown, ready, resources, result, history>>

Listens(l) == server[l] = "starting" /\ l \in socket /\ ServerGoes(l, "listening")

\* It ends by itself.
Dies(l) ==
    /\ server[l] \in {"starting", "listening"}
    /\ \E where \in Ended : ServerGoes(l, where)

\* close has set should_exit.
Told == host \in {"draining", "clearing", "leaving", "closing", "done"} /\ "close" \notin behind

\* No more connections; it ends when its requests have.
Exits(l) ==
    /\ Told
    /\ \/ server[l] = "starting" /\ ServerGoes(l, "stopped")
       \/ server[l] = "listening" /\ ServerGoes(l, "draining")
       \/ server[l] = "draining" /\ l \notin busy /\ ServerGoes(l, "stopped")

Accepts(l) ==
    /\ server[l] = "listening" /\ l \in socket /\ host # "clearing"
    /\ l \notin busy /\ busy' = busy \cup {l}
    /\ UNCHANGED <<host, startup, upto, server, shutdown, ready, resources, result, history>>

Answers(l) ==
    /\ l \in busy /\ busy' = busy \ {l}
    /\ UNCHANGED <<host, startup, upto, server, shutdown, ready, resources, result, history>>

Signal ==
    /\ host # "done" /\ ~shutdown
    /\ shutdown' = TRUE /\ asked' = TRUE
    /\ UNCHANGED <<host, tasks, ready, resources, result, shielded, behind>>

---------------------------------------------------------------------------

Hosting ==
    \/ Prepare \/ Bind \/ DoNotBind \/ Started \/ StopStarting \/ StopServing
    \/ FinishStartup \/ Drained \/ Clear \/ (\E l \in Listener : LeaveLifespan(l)) \/ Left \/ Shutdown

Starting ==
    \/ (\E l \in Listener : Enter(l) \/ Entered(l))
    \/ AwaitNext \/ StartupFails \/ StartupCancelled

Serving == \E l \in Listener :
    Listens(l) \/ Dies(l) \/ Exits(l) \/ Accepts(l) \/ Answers(l)

HostNext == Hosting \/ Starting \/ Serving \/ Signal \/ Cancel

HostSpec == HostInit /\ [][HostNext]_hostVars

\* The loop runs who can run, and the deadlines pass: each wait of the host
\* has one, but for the one that waits to be asked to stop.
FairHostSpec == HostSpec /\ WF_hostVars(Hosting) /\ WF_hostVars(Starting)

---------------------------------------------------------------------------
(* Properties.                                                             *)

HostTypeOK ==
    /\ host \in Hosts /\ startup \in Startups /\ upto \in Listener
    /\ {shutdown, ready, asked, shielded} \subseteq BOOLEAN
    /\ runtime \in {"new", "ready", "closed"}
    /\ socket \subseteq Listener /\ busy \subseteq Listener
    /\ lifespan \in [Listener -> {"out", "entering", "in", "left"}]
    /\ server \in [Listener -> Servers]
    /\ result \in {"none", "ok", "error"} /\ behind \subseteq Parts

\* A request is served within the lifespans of all the applications that share
\* its loop, and with the runtime: they end after the requests, unless the host
\* has left something behind (_ListenerHost.close, serve_api).
RequestsAreServedWithin == behind = {} => \A l \in busy :
    /\ runtime = "ready" /\ socket = Listener
    /\ \A k \in Listener : lifespan[k] = "in"

\* Nothing that was opened stays open but what is left behind: no runtime; no
\* socket, unless closing is cut away; no lifespan and no start-up, unless the
\* start-up is waited for no longer; no server and no request, unless one
\* ignores its cancellation or a second cancellation gives them up.
NothingIsLeft == host = "done" =>
    /\ runtime = "closed"
    /\ "close" \notin behind => socket = {}
    /\ behind \cap {"close", "startup"} = {} => ~Starts /\ Inside = {}
    /\ behind = {} => busy = {} /\ \A l \in Listener : server[l] \in Ended \cup {"none"}

\* A process that nobody asked to stop does not end without an error.
EndsQuietlyOnlyWhenAsked == host = "done" /\ result = "ok" => asked

\* The resources of the process last as long as they are needed, and no longer.
ListenersInv ==
    HostTypeOK /\ RequestsAreServedWithin /\ NothingIsLeft /\ EndsQuietlyOnlyWhenAsked

\* When readiness begins to be answered all servers listen, though they were
\* waited for one by one and may have ended in the meantime; once it is not
\* answered any more it never is again (_ListenerApp, _ListenerHost.start).
Answered == ready /\ ~shutdown
ReadyMeansListening == [][~Answered /\ Answered' =>
    host = "starting" /\ \A l \in Listener : server[l] = "listening"]_hostVars

\* Once asked to stop, the process ends; and one server takes the others with it.
StopsWhenAsked == shutdown ~> host = "done"
SiblingsStop == Dead # {} ~> host = "done"
ProcessEnds == StopsWhenAsked /\ SiblingsStop
=============================================================================
