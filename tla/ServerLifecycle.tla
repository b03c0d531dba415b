---- MODULE ServerLifecycle ----
(***************************************************************************)
(* The goroutines of a running process and how they stop: startServer, the *)
(* accept loop, one goroutine and one watcher for each connection, and the *)
(* web server.  Clients owe nothing: they may neither send, nor read, nor  *)
(* hang up.                                                                *)
(***************************************************************************)
EXTENDS Naturals, FiniteSets

CONSTANTS
    Conns,          \* connections clients make
    Requests,       \* requests clients send to the web server
    MaxMessages     \* bound: LDAP messages handled on all connections together

ASSUME LifecycleAssumption == IsFiniteSet(Conns) /\ MaxMessages \in Nat

VARIABLES
    main,           \* where startServer is, from its wait for a signal on
    ctxDone,        \* the context of the LDAP server is cancelled
    listening,      \* its listener is open
    storeOpen,      \* the database pool is open
    wg,             \* Server.wg
    acceptor,       \* the accept loop runs
    conn,           \* the goroutine of each connection
    socket,         \* the server's end of each connection is open
    watcher,        \* the goroutine that waits for the context runs
    messages,       \* messages handled so far
    web,            \* the goroutine of web.Server.Start
    request,        \* each web request
    webUnwaited     \* history: web.Server.Stop returned with the web server running

ldap == <<acceptor, conn, socket, watcher, messages>>
http == <<web, request>>
lifecycle == <<main, ctxDone, listening, storeOpen, wg, ldap, http, webUnwaited>>

LifecycleInit ==
    /\ main = "waiting"
    /\ ctxDone = FALSE
    /\ listening = TRUE
    /\ storeOpen = TRUE
    /\ wg = 1
    /\ acceptor = TRUE
    /\ conn = [c \in Conns |-> "none"]
    /\ socket = [c \in Conns |-> FALSE]
    /\ watcher = [c \in Conns |-> FALSE]
    /\ messages = 0
    /\ web = "spawned"
    /\ request = [r \in Requests |-> "none"]
    /\ webUnwaited = FALSE

Running == main # "exited"

----
(* startServer and Server.Stop *)

\* SIGINT or SIGTERM.
Signal ==
    /\ main = "waiting"
    /\ main' = "cancel"
    /\ UNCHANGED <<ctxDone, listening, storeOpen, wg, ldap, http, webUnwaited>>

Cancel ==
    /\ main = "cancel"
    /\ ctxDone' = TRUE
    /\ main' = "closeListener"
    /\ UNCHANGED <<listening, storeOpen, wg, ldap, http, webUnwaited>>

CloseListener ==
    /\ main = "closeListener"
    /\ listening' = FALSE
    /\ main' = "wait"
    /\ UNCHANGED <<ctxDone, storeOpen, wg, ldap, http, webUnwaited>>

\* Mutant: wg.Wait is left out.
WaitForNothing ==
    /\ main = "wait"
    /\ main' = "stopWeb"
    /\ UNCHANGED <<ctxDone, listening, storeOpen, wg, ldap, http, webUnwaited>>

Wait ==
    /\ main = "wait" /\ wg = 0
    /\ main' = "stopWeb"
    /\ UNCHANGED <<ctxDone, listening, storeOpen, wg, ldap, http, webUnwaited>>

\* Mutant: Shutdown runs in a goroutine of its own.
StopWebBehind ==
    /\ main = "stopWeb"
    /\ web' = IF web = "serving" THEN "shutdown" ELSE web
    /\ webUnwaited' = (web = "spawned")
    /\ main' = "closeStore"
    /\ UNCHANGED <<ctxDone, listening, storeOpen, wg, ldap, request>>

\* web.Server.Stop: nothing to do while httpServer is nil, else Shutdown closes the listener.
StopWeb ==
    /\ main = "stopWeb"
    /\ \/ /\ web = "spawned"
          /\ webUnwaited' = TRUE
          /\ main' = "closeStore"
          /\ UNCHANGED web
       \/ /\ web = "serving"
          /\ web' = "shutdown"
          /\ main' = "drainWeb"
          /\ UNCHANGED webUnwaited
    /\ UNCHANGED <<ctxDone, listening, storeOpen, wg, ldap, request>>

InFlight == {r \in Requests : request[r] = "running"}

\* Shutdown returns when no request is in flight, or after five seconds.
DrainWeb ==
    /\ main = "drainWeb"
    /\ main' = "closeStore"
    /\ webUnwaited' = (InFlight # {})
    /\ UNCHANGED <<ctxDone, listening, storeOpen, wg, ldap, http>>

\* defer st.Close().
CloseStore ==
    /\ main = "closeStore"
    /\ storeOpen' = FALSE
    /\ main' = "exit"
    /\ UNCHANGED <<ctxDone, listening, wg, ldap, http, webUnwaited>>

\* startServer returns: every goroutine ends with the process.
Exit ==
    /\ main = "exit"
    /\ main' = "exited"
    /\ UNCHANGED <<ctxDone, listening, storeOpen, wg, ldap, http, webUnwaited>>

Main == Cancel \/ CloseListener \/ Wait \/ StopWeb \/ DrainWeb \/ CloseStore \/ Exit

----
(* acceptLoop *)

Counted == wg + 1

\* A connection is made, accepted and counted, and its goroutine and watcher are started.
Accept(c) ==
    /\ Running /\ acceptor /\ listening
    /\ conn[c] = "none"
    /\ conn' = [conn EXCEPT ![c] = "loop"]
    /\ socket' = [socket EXCEPT ![c] = TRUE]
    /\ watcher' = [watcher EXCEPT ![c] = TRUE]
    /\ wg' = Counted
    /\ UNCHANGED <<main, ctxDone, listening, storeOpen, acceptor, messages, http, webUnwaited>>

\* Accept fails on a closed listener: the loop ends if the context is done, else it retries.
AcceptFails ==
    /\ Running /\ acceptor /\ ~listening
    /\ ctxDone
    /\ acceptor' = FALSE
    /\ wg' = wg - 1
    /\ UNCHANGED <<main, ctxDone, listening, storeOpen, conn, socket, watcher, messages,
                   http, webUnwaited>>

----
(* handleConnection and Connection.Handle *)

Goto(c, where) == conn' = [conn EXCEPT ![c] = where]
Only(c, from) == Running /\ conn[c] = from

\* The deferred calls: Close, close(done) and wg.Done.
End(c) ==
    /\ Goto(c, "ended")
    /\ socket' = [socket EXCEPT ![c] = FALSE]
    /\ watcher' = [watcher EXCEPT ![c] = FALSE]
    /\ wg' = wg - 1
    /\ UNCHANGED <<main, ctxDone, listening, storeOpen, acceptor, messages, http, webUnwaited>>

Step(c, to) ==
    /\ Goto(c, to)
    /\ UNCHANGED <<main, ctxDone, listening, storeOpen, wg, acceptor, socket, watcher,
                   http, webUnwaited>>

\* The select at the head of the loop.
CheckContext(c) ==
    /\ Only(c, "loop")
    /\ IF ctxDone THEN End(c) ELSE Step(c, "reading") /\ UNCHANGED messages

\* The client sends a message.
ReadMessage(c) ==
    /\ Only(c, "reading") /\ socket[c] /\ messages < MaxMessages
    /\ messages' = messages + 1
    /\ Step(c, "handling")

\* The client hangs up, or sends what ReadLDAPMessage refuses.
ReadEnds(c) == Only(c, "reading") /\ socket[c] /\ End(c)

ReadOnClosed(c) == Only(c, "reading") /\ ~socket[c] /\ End(c)

\* The handler's transactions, then its answer.
UseStore(c) == Only(c, "handling") /\ Step(c, "writing") /\ UNCHANGED messages

\* WriteResponse, holding the connection's mutex until the client has taken the answer.
ClientReads(c) == Only(c, "writing") /\ socket[c] /\ Step(c, "loop") /\ UNCHANGED messages

WriteOnClosed(c) == Only(c, "writing") /\ ~socket[c] /\ Step(c, "loop") /\ UNCHANGED messages

\* Mutant: the watcher calls Connection.Close, which waits for the mutex.
WatchLocked(c) ==
    /\ Running /\ watcher[c] /\ conn[c] # "writing"
    /\ ctxDone
    /\ watcher' = [watcher EXCEPT ![c] = FALSE]
    /\ socket' = [socket EXCEPT ![c] = FALSE]
    /\ UNCHANGED <<main, ctxDone, listening, storeOpen, wg, acceptor, conn, messages,
                   http, webUnwaited>>

\* <-s.ctx.Done(): the watcher closes the socket itself, not through Connection.Close,
\* which takes the mutex.
Watch(c) ==
    /\ Running /\ watcher[c]
    /\ ctxDone
    /\ watcher' = [watcher EXCEPT ![c] = FALSE]
    /\ socket' = [socket EXCEPT ![c] = FALSE]
    /\ UNCHANGED <<main, ctxDone, listening, storeOpen, wg, acceptor, conn, messages,
                   http, webUnwaited>>

\* What a goroutine does without waiting for its client.
Progress(c) ==
    CheckContext(c) \/ ReadOnClosed(c) \/ UseStore(c) \/ WriteOnClosed(c)

----
(* The web server *)

WebStep == UNCHANGED <<main, ctxDone, listening, storeOpen, wg, ldap, webUnwaited>>

\* Start sets httpServer and serves, even after Stop has found it nil.
WebStart ==
    /\ Running /\ web = "spawned"
    /\ web' = "serving"
    /\ UNCHANGED request /\ WebStep

WebRequest(r) ==
    /\ Running /\ web = "serving" /\ request[r] = "none"
    /\ request' = [request EXCEPT ![r] = "running"]
    /\ UNCHANGED web /\ WebStep

WebAnswer(r) ==
    /\ Running /\ request[r] = "running"
    /\ request' = [request EXCEPT ![r] = "answered"]
    /\ UNCHANGED web /\ WebStep

----
LifecycleNext ==
    \/ Signal \/ Main
    \/ AcceptFails
    \/ \E c \in Conns :
          \/ Accept(c) \/ CheckContext(c) \/ ReadMessage(c) \/ ReadEnds(c)
          \/ ReadOnClosed(c) \/ UseStore(c) \/ ClientReads(c) \/ WriteOnClosed(c)
          \/ Watch(c)
    \/ WebStart
    \/ \E r \in Requests : WebRequest(r) \/ WebAnswer(r)

\* Goroutines are scheduled and transactions end; nothing is assumed of clients or requests.
Fairness ==
    /\ WF_lifecycle(Main)
    /\ WF_lifecycle(AcceptFails)
    /\ \A c \in Conns : WF_lifecycle(Progress(c)) /\ WF_lifecycle(Watch(c))

LifecycleSpec == LifecycleInit /\ [][LifecycleNext]_lifecycle /\ Fairness

----
(* Properties *)

Alive == {c \in Conns : conn[c] \notin {"none", "ended"}}

LifecycleTypeOK ==
    /\ main \in {"waiting", "cancel", "closeListener", "wait", "stopWeb", "drainWeb",
                 "closeStore", "exit", "exited"}
    /\ ctxDone \in BOOLEAN /\ listening \in BOOLEAN /\ storeOpen \in BOOLEAN
    /\ acceptor \in BOOLEAN /\ webUnwaited \in BOOLEAN
    /\ wg \in 0 .. Cardinality(Conns) + 1
    /\ conn \in [Conns -> {"none", "loop", "reading", "handling", "writing", "ended"}]
    /\ socket \in [Conns -> BOOLEAN]
    /\ watcher \in [Conns -> BOOLEAN]
    /\ messages \in 0 .. MaxMessages
    /\ web \in {"spawned", "serving", "shutdown"}
    /\ request \in [Requests -> {"none", "running", "answered"}]

\* When Server.Stop returns no LDAP handler runs and none will, so the store is never closed
\* under one, not even under a connection accepted while Stop was closing the listener.
StopDrains ==
    main \in {"stopWeb", "drainWeb", "closeStore", "exit", "exited"} =>
        Alive = {} /\ ~acceptor

\* A web request meets a closed store only if web.Server.Stop did not wait for it.
WebStoreOpen == (InFlight # {} /\ ~storeOpen) => webUnwaited

\* After a signal the process exits, whatever its clients do or do not do.
ShutdownTerminates == (main = "cancel") ~> (main = "exited")

====
