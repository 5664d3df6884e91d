------------------------------- MODULE Service -------------------------------
(***************************************************************************)
(* The supervisor with its components: the HTTP server, whose shutdown     *)
(* takes the hub with it, the writer, which is the hub's broadcaster, and  *)
(* any number of others.                                                   *)
(*                                                                         *)
(* Abstractions.                                                           *)
(*  - Of a component that is not the server or the writer only how and     *)
(*    when it returns is kept.                                             *)
(*  - Plain HTTP requests are left out: srv.Shutdown ends well, or at its  *)
(*    deadline when one is still being handled. WebSocket connections are  *)
(*    hijacked, and srv.Shutdown does not wait for them.                   *)
(*  - Of a component's pooled connections only whether it holds any.       *)
(*                                                                         *)
(* Casts bounds the model: each behaviour has one of them, which says which *)
(* clients come, which components run beside the server and the writer, and *)
(* whether the service may be told to stop or fail.                        *)
(***************************************************************************)
EXTENDS Hub

CONSTANTS
  Others,       \* the other components
  Obedient,     \* those of them that return when their context is cancelled
  Casts         \* who takes part: [clients, others, stops]

ASSUME ServiceAssumption ==
  /\ "server" \notin Others /\ "writer" \notin Others /\ Obedient \subseteq Others
  /\ Casts \subseteq [clients : SUBSET Clients, others : SUBSET Others, stops : BOOLEAN]

VARIABLES
  cast,
  signalled,    \* the parent context is cancelled by SIGINT or SIGTERM
  gctx,         \* the errgroup's context is cancelled
  result,       \* what a component returned: none (running), nil, canceled, error
  first,        \* the first error the errgroup recorded: nil, canceled, error
  accepting,    \* the listener is open
  server,       \* serving, shutting, stopped
  sup,          \* supervise: wait, grace; run's deferred calls: closing; exited
  code,         \* exit code, or "none"
  held,         \* components with a connection acquired from the pool
  cause         \* history: what cancelled gctx first: none, signal, error

group == <<gctx, result, first, cause>>
http == <<accepting, server>>
process == <<signalled, sup, code, held>>
vars == <<hubVars, group, http, process, cast>>

Components == {"server", "writer"} \cup cast.others

exitOK == 0
exitShutdownTO == 1
exitFatalError == 2

Init ==
  /\ cast \in Casts
  /\ HubInit(cast.clients)
  /\ signalled = FALSE /\ gctx = FALSE
  /\ result = [k \in Components |-> "none"] /\ first = "nil" /\ cause = "none"
  /\ accepting = TRUE /\ server = "serving"
  /\ sup = "wait" /\ code = "none" /\ held = {}

-----------------------------------------------------------------------------
(* The errgroup: the first error is recorded and cancels the context.      *)

Return(k, r) ==
  /\ result[k] = "none"
  /\ result' = [result EXCEPT ![k] = r]
  /\ IF r # "nil" /\ first = "nil"
       THEN first' = r /\ gctx' = TRUE /\ cause' = IF gctx THEN cause ELSE "error"
       ELSE UNCHANGED <<first, gctx, cause>>

AllReturned == \A k \in Components : result[k] # "none"

-----------------------------------------------------------------------------
(* Components.  One that returned an error may leave some work behind: a   *)
(* request past the deadline of srv.Shutdown, a job past that of Stop.     *)

\* A closed pool gives no connection. The writer uses none within a broadcast.
Acquire(k) ==
  /\ sup \in {"wait", "grace"} /\ k \notin held
  /\ result[k] \in {"none", "error"} /\ (k = "writer" => broadcast = "idle")
  /\ held' = held \cup {k}
  /\ UNCHANGED <<hubVars, group, http, signalled, sup, code>>

Release(k) ==
  /\ k \in held
  /\ held' = held \ {k}
  /\ UNCHANGED <<hubVars, group, http, signalled, sup, code>>

\* Any component may fail. One may return its context's error, as the job queue
\* does when it is cancelled while it starts.
Fails(k) ==
  /\ Return(k, "error")
  /\ UNCHANGED <<hubVars, http, process>>

Stops(k) ==
  /\ k \in Obedient /\ gctx /\ k \notin held
  /\ \E r \in {"nil", "canceled"} : Return(k, r)
  /\ UNCHANGED <<hubVars, http, process>>

\* The writer sees the cancellation in its select, never within a broadcast.
WriterStops ==
  /\ gctx /\ broadcast = "idle" /\ "writer" \notin held
  /\ Return("writer", "nil")
  /\ UNCHANGED <<hubVars, http, process>>

\* ListenAndServe fails, for instance because the port is taken.
ListenFails ==
  /\ server = "serving"
  /\ server' = "stopped" /\ accepting' = FALSE
  /\ Return("server", "error")
  /\ UNCHANGED <<hubVars, process>>

\* Mutant: the server shuts down without the hub.
ServerShutsAlone ==
  /\ server = "serving" /\ gctx
  /\ server' = "shutting" /\ accepting' = FALSE
  /\ UNCHANGED <<hubVars, group, process>>

\* Cancelled: the hub first, then srv.Shutdown, which closes the listener.
ServerShuts ==
  /\ server = "serving" /\ gctx
  /\ server' = "shutting" /\ accepting' = FALSE
  /\ Shutdown
  /\ UNCHANGED <<group, process>>

\* srv.Shutdown returns once no request is left, or with an error at its deadline.
ServerStops ==
  /\ server = "shutting"
  /\ server' = "stopped"
  /\ \/ "server" \notin held /\ Return("server", "nil")
     \/ Return("server", "error")
  /\ UNCHANGED <<hubVars, accepting, process>>

-----------------------------------------------------------------------------
(* The supervisor.                                                         *)

Signal ==
  /\ ~signalled
  /\ signalled' = TRUE /\ gctx' = TRUE
  /\ cause' = IF gctx THEN cause ELSE "signal"
  /\ UNCHANGED <<hubVars, result, first, http, sup, code, held>>

SeesSignal ==
  /\ sup = "wait" /\ signalled
  /\ sup' = "grace"
  /\ UNCHANGED <<hubVars, group, http, signalled, code, held>>

\* Mutant: whatever was returned after a cancellation counts as a clean stop.
ClassifyByCancellation == IF first = "nil" \/ signalled THEN exitOK ELSE exitFatalError

classify == IF first \in {"nil", "canceled"} THEN exitOK ELSE exitFatalError

\* supervise returns, and the calls that run deferred begin.
GroupDone ==
  /\ sup \in {"wait", "grace"} /\ AllReturned
  /\ sup' = "closing" /\ code' = classify
  /\ UNCHANGED <<hubVars, group, http, signalled, held>>

\* Mutant: the grace is given to a component that failed to stop, for ever.
GraceUnbounded ==
  /\ sup = "grace" /\ AllReturned
  /\ sup' = "closing" /\ code' = classify
  /\ UNCHANGED <<hubVars, group, http, signalled, held>>

GraceExpires ==
  /\ sup = "grace"
  /\ sup' = "closing" /\ code' = exitShutdownTO
  /\ UNCHANGED <<hubVars, group, http, signalled, held>>

\* pool.Close waits for every acquired connection; then the process is gone.
PoolCloses ==
  /\ sup = "closing" /\ held = {}
  /\ sup' = "exited"
  /\ HubGone
  /\ UNCHANGED <<group, http, signalled, code, held>>

-----------------------------------------------------------------------------
HubStep ==
  /\ \/ result["writer"] = "none" /\ "writer" \notin held /\ Broadcaster
     \/ \E c \in Clients : Client(c)
     \/ \E c \in Clients : accepting /\ Accept(c)
  /\ UNCHANGED <<group, http, process>>

Supervisor == SeesSignal \/ GroupDone \/ GraceExpires \/ PoolCloses

Component ==
  \/ \E k \in cast.others : Fails(k) \/ Stops(k)
  \/ WriterStops \/ ListenFails \/ ServerShuts \/ ServerStops
  \/ \E k \in Components : Acquire(k) \/ Release(k)

Next ==
  /\ sup # "exited"
  /\ HubStep \/ (cast.stops /\ (Component \/ Signal)) \/ Supervisor
  /\ UNCHANGED cast

Spec == Init /\ [][Next]_vars

Running(A) == sup # "exited" /\ A /\ UNCHANGED cast

\* A broadcast goes on by itself, a write loop too, as its writes are bounded and
\* its select takes what is ready; the server sees its context. A component that
\* obeys its context gives its connection back: its statements end with the run
\* context, those of a request and of the final flush at a timeout. Of the
\* supervisor nothing is assumed here: ConnectionsClose holds for as long as it waits.
FairSpec ==
  /\ Spec
  /\ WF_vars(Running(Broadcasting /\ UNCHANGED <<group, http, process>>))
  /\ \A c \in Clients : WF_vars(Running(Serve(c) /\ UNCHANGED <<group, http, process>>))
  /\ WF_vars(Running(ServerShuts))
  /\ WF_vars(Running(\E k \in {"server", "writer"} \cup Obedient : Release(k)))

-----------------------------------------------------------------------------
(* Properties.                                                             *)

\* Delivery is non-blocking: a broadcast comes to its end whatever the clients do,
\* so that a slow one never stops the flush it is part of.
BroadcastEnds == broadcast # "idle" ~> broadcast = "idle" \/ sup = "exited"

\* "Shutdown signals every connection to close": once the context is cancelled
\* every connection is closed, those accepted meanwhile included, unless the
\* listener failed by itself or the process is gone before that.
ConnectionsClose ==
  gctx ~> \/ subs = {} /\ \A c \in Clients : conn[c] # "accepted"
          \/ (server = "stopped" /\ ~done) \/ sup = "exited"

\* After a signal the process exits, also when a component ignores it, unless one
\* that does holds a connection for ever, which pool.Close waits for.
ExitsAfterSignal ==
  WF_vars(Running(Supervisor)) =>
    (signalled ~> sup = "exited" \/ [](held \cap (Others \ Obedient) # {}))

\* An error that stopped the service is in its exit code, although the components
\* it cancelled return their own.
ErrorIsReported == sup = "exited" /\ cause = "error" => code # exitOK
=============================================================================
