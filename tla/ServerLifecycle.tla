--------------------------- MODULE ServerLifecycle ---------------------------
(***************************************************************************)
(* One process, from main to its exit: cmd/server with its start, the      *)
(* listener's goroutine, the handlers' goroutines and their deadlines, a   *)
(* signal, Shutdown with its own deadline, and the deferred Close of the   *)
(* connection pool; or cmd/migrate, which ends when it has migrated.       *)
(*                                                                         *)
(* Time passes in ticks, and never past a deadline without the timer that  *)
(* stands for it having been served.  net/http and pgxpool are external.   *)
(***************************************************************************)
EXTENDS Configuration, FiniteSets

CONSTANTS
    Conns,        \* client connections, each with one request
    Environments  \* the environments the process may be started in

ASSUME LifecycleAssumption ==
    \A env \in Environments :
        /\ DOMAIN env = Names
        /\ \A name \in Durations \cup {"DATABASE_MAX_CONNECTIONS"} :
             env[name] \in {Unset, Garbled} \cup Int

VARIABLES
    program,        \* "server" or "migrate"
    environment,    \* the environment it was started in
    configuration,  \* what Load has returned
    main,           \* where run is
    exitCode,       \* what main ends with: 0, 1, or 2 for none yet
    signalled,      \* rootContext is done
    server,         \* the goroutine of ListenAndServe
    serverErrors,   \* the channel it sends to
    pool,           \* the pgxpool
    conn,           \* each connection and the handler behind it
    age,            \* how long the header, or since then the handler, has taken
    elapsed         \* how long Shutdown and Close have taken

startVars == <<program, environment>>
fixed     == <<startVars, configuration>>
processVars == <<fixed, main, exitCode, signalled, server, serverErrors, pool, elapsed>>
vars == <<processVars, conn, age>>

NotExited == 2

Init ==
    /\ program \in {"server", "migrate"}
    /\ environment \in Environments
    /\ configuration = NotLoaded
    /\ main = "load" /\ exitCode = NotExited
    /\ signalled = FALSE
    /\ server = "off" /\ serverErrors = "empty"
    /\ pool = "none"
    /\ conn = [c \in Conns |-> "none"]
    /\ age = [c \in Conns |-> 0]
    /\ elapsed = 0

Handling == {"body", "working", "query"}  \* between ServeHTTP and its return
Busy(c)  == conn[c] \in Handling \cup {"header"}

ReadHeaderTimeout == configuration["HTTP_READ_HEADER_TIMEOUT"]
ReadTimeout       == configuration["HTTP_READ_TIMEOUT"]
RequestTimeout    == configuration["REQUEST_TIMEOUT"]
ShutdownTimeout   == configuration["SHUTDOWN_TIMEOUT"]

Holders == {c \in Conns : conn[c] = "query"}

-----------------------------------------------------------------------------
(* run                                                                     *)

\* return runs the deferred store.Close, if there is a store; os.Exit, which is how
\* cmd/migrate leaves with an error, does not.
Return(code) ==
    /\ exitCode' = code
    /\ IF pool = "open" /\ ~ (program = "migrate" /\ code = 1)
         THEN main' = "close" /\ pool' = "closing"
         ELSE main' = "exit" /\ UNCHANGED pool

\* config.Load, ValidateProduction, which cmd/migrate does not call, and
\* NotifyContext.
LoadConfiguration ==
    /\ main = "load"
    /\ IF LoadFails(environment)
         THEN Return(1) /\ UNCHANGED configuration
         ELSE /\ configuration' = Load(environment)
              /\ IF program = "server" /\ ~ ValidateProduction(configuration')
                   THEN Return(1)
                   ELSE main' = "open" /\ UNCHANGED <<exitCode, pool>>
    /\ UNCHANGED <<startVars, signalled, server, serverErrors, conn, age, elapsed>>

\* Open closes the pool itself when the ping fails, as it does once the context
\* is cancelled.
OpenStore ==
    /\ main = "open"
    /\ \/ Return(1)
       \/ /\ ~ signalled
          /\ pool' = "open"
          /\ main' = IF program = "migrate" \/ configuration["RUN_MIGRATIONS"]
                       THEN "migrate" ELSE "listen"
          /\ UNCHANGED exitCode
    /\ UNCHANGED <<fixed, signalled, server, serverErrors, conn, age, elapsed>>

Migrate ==
    /\ main = "migrate"
    /\ \/ Return(1)
       \/ ~ signalled /\ program = "migrate" /\ Return(0)
       \/ /\ ~ signalled /\ program = "server"
          /\ main' = "listen"
          /\ UNCHANGED <<exitCode, pool>>
    /\ UNCHANGED <<fixed, signalled, server, serverErrors, conn, age, elapsed>>

StartServer ==
    /\ main = "listen"
    /\ main' = "select"
    /\ server' = "starting"
    /\ UNCHANGED <<fixed, exitCode, signalled, serverErrors, pool, conn, age, elapsed>>

\* When both channels are ready select takes either.
Select ==
    /\ main = "select"
    /\ \/ /\ serverErrors = "error"
          /\ Return(1)
          /\ UNCHANGED <<server, elapsed>>
       \/ /\ signalled
          /\ main' = "shutdown"
          /\ server' = IF server = "off" THEN "off" ELSE "closed"
          /\ elapsed' = 0
          /\ UNCHANGED <<exitCode, pool>>
    /\ UNCHANGED <<fixed, signalled, serverErrors, conn, age>>

\* Shutdown returns nil once it finds every connection idle, and the error of its
\* context at its deadline.
Shutdown ==
    /\ main = "shutdown"
    /\ \/ Return(0) /\ \A c \in Conns : ~ Busy(c)
       \/ Return(1) /\ elapsed = ShutdownTimeout
    /\ UNCHANGED <<fixed, signalled, server, serverErrors, conn, age, elapsed>>

\* Mutant: Close does not wait.
CloseAtOnce ==
    /\ main = "close"
    /\ pool' = "closed"
    /\ main' = "exit"
    /\ UNCHANGED <<fixed, exitCode, signalled, server, serverErrors, conn, age, elapsed>>

\* pool.Close returns when every connection has been given back.  That pgx may
\* still be cleaning up broken ones, of a database out of reach, is left out.
CloseStore ==
    /\ main = "close"
    /\ Holders = {}
    /\ pool' = "closed"
    /\ main' = "exit"
    /\ UNCHANGED <<fixed, exitCode, signalled, server, serverErrors, conn, age, elapsed>>

\* The process ends, and every goroutine with it.
Exit ==
    /\ main = "exit"
    /\ main' = "exited"
    /\ server' = "off"
    /\ conn' = [c \in Conns |-> IF Busy(c) THEN "cut" ELSE conn[c]]
    /\ UNCHANGED <<fixed, exitCode, signalled, serverErrors, pool, age, elapsed>>

-----------------------------------------------------------------------------
(* The listener                                                            *)

\* After Shutdown, ListenAndServe returns ErrServerClosed, also when it had not
\* begun to listen.
Listen ==
    /\ \/ /\ server = "starting"
          /\ \/ server' = "listening" /\ UNCHANGED serverErrors
             \/ server' = "off" /\ serverErrors' = "error"
       \/ server = "listening" /\ server' = "off" /\ serverErrors' = "error"
       \/ server = "closed" /\ server' = "off" /\ serverErrors' = "ErrServerClosed"
    /\ main # "exited"
    /\ UNCHANGED <<fixed, main, exitCode, signalled, pool, conn, age, elapsed>>

-----------------------------------------------------------------------------
(* Handlers                                                                *)

Becomes(c, state) ==
    /\ conn' = [conn EXCEPT ![c] = state]
    /\ UNCHANGED <<processVars, age>>

Connect(c) ==
    /\ conn[c] = "none" /\ server = "listening"
    /\ Becomes(c, "header")

\* The connection is closed when no header comes in time.  A Shutdown also closes
\* one that is still new after five seconds, or idle: waiting for a next header or
\* in the middle of it.
ReadHeader(c) ==
    /\ conn[c] = "header"
    /\ \/ Becomes(c, "closed")
       \/ /\ conn' = [conn EXCEPT ![c] = "body"]
          /\ age' = [age EXCEPT ![c] = 0]
          /\ UNCHANGED processVars

\* The read fails at the latest when ReadTimeout is over: the context of the
\* request has no say in it.
ReadBody(c) == conn[c] = "body" /\ (Becomes(c, "working") \/ Becomes(c, "answered"))

\* pool.BeginTx, or a statement of a read.
Acquire(c) ==
    /\ conn[c] = "working" /\ age[c] < RequestTimeout
    /\ pool = "open"
    /\ Cardinality(Holders) < configuration["DATABASE_MAX_CONNECTIONS"]
    /\ Becomes(c, "query")

\* Mutant: what holds the connection is never closed.
ReleaseNever(c) == conn[c] = "query" /\ Becomes(c, "query")

\* The transaction has ended, and is the last one or will be tried again.
Release(c) == conn[c] = "query" /\ (Becomes(c, "answered") \/ Becomes(c, "working"))

\* A statement fails, the context is done, or the pool is closed.
Fail(c) == conn[c] = "working" /\ Becomes(c, "answered")

-----------------------------------------------------------------------------
(* Time                                                                    *)

\* Mutant: the timeout middleware is not in the chain.
OverdueUntimed(c) ==
    \/ conn[c] = "header" /\ age[c] >= ReadHeaderTimeout
    \/ conn[c] = "body"   /\ age[c] >= ReadTimeout

\* A timer has fired that the goroutine of c will act upon.
Overdue(c) ==
    \/ conn[c] = "header" /\ age[c] >= ReadHeaderTimeout
    \/ conn[c] = "body"   /\ age[c] >= ReadTimeout
    \/ conn[c] \in {"working", "query"} /\ age[c] >= RequestTimeout

\* Where run waits for something that takes time.
Waiting ==
    \/ main \in {"load", "open", "migrate", "listen"}
    \/ main = "select" /\ ~ signalled /\ serverErrors # "error"
    \/ main = "shutdown" /\ elapsed < ShutdownTimeout
    \/ main = "close" /\ Holders # {}

Tick ==
    /\ Waiting
    /\ \A c \in Conns : ~ Overdue(c)
    /\ \E c \in Conns : Busy(c)
    /\ age' = [c \in Conns |-> IF Busy(c) THEN age[c] + 1 ELSE age[c]]
    /\ elapsed' = IF main \in {"shutdown", "close"} THEN elapsed + 1 ELSE elapsed
    /\ UNCHANGED <<fixed, main, exitCode, signalled, server, serverErrors, pool, conn>>

-----------------------------------------------------------------------------

\* SIGINT or SIGTERM; a second one changes nothing.
Signal ==
    /\ main \notin {"load", "exit", "exited"} /\ ~ signalled
    /\ signalled' = TRUE
    /\ UNCHANGED <<fixed, main, exitCode, server, serverErrors, pool, elapsed, conn, age>>

Run == \/ LoadConfiguration \/ OpenStore \/ Migrate \/ StartServer \/ Select
       \/ Shutdown \/ CloseStore \/ Exit

Handle(c) == ReadHeader(c) \/ ReadBody(c) \/ Acquire(c) \/ Release(c) \/ Fail(c)

Terminating == main = "exited" /\ UNCHANGED vars

Next ==
    \/ Run \/ Listen \/ Signal \/ Tick \/ Terminating
    \/ main # "exited" /\ \E c \in Conns : Connect(c) \/ Handle(c)

Spec == Init /\ [][Next]_vars

\* run goes on, time passes, and a handler whose timer has fired returns.
FairSpec ==
    /\ Spec
    /\ WF_vars(Run) /\ WF_vars(Tick)
    /\ \A c \in Conns : WF_vars(/\ main # "exited" /\ Overdue(c)
                                /\ Handle(c) /\ ~ Busy(c)')

-----------------------------------------------------------------------------
(* Properties                                                              *)

\* What the order of Shutdown, the deferred Close and the exit is for: however the
\* process ends, it ends between transactions, no handler being cut off while it
\* holds a connection of the pool; and if it ends well, it has answered every
\* request whose header was in, also one that came while it was shutting down.
NothingIsCutShort ==
    [][main' = "exited" => /\ Holders = {}
                           /\ exitCode = 0 => \A c \in Conns : ~ Busy(c)]_vars

\* main.go:76: the process may outlive ShutdownTimeout, since Close waits for
\* handlers that Shutdown has given up on; but not by more than the deadline the
\* timeout middleware gives a request.
StopIsBounded == elapsed > 0 => elapsed <= ShutdownTimeout + RequestTimeout

\* A process that is told to stop stops.
StopsWhenTold == signalled ~> main = "exited"

\* README.md:242: "Maximum pool connections; minimum is 2".  A pool that is opened
\* is as large as the environment says.
PoolIsAsConfigured ==
    pool # "none" /\ environment["DATABASE_MAX_CONNECTIONS"] # Unset =>
        configuration["DATABASE_MAX_CONNECTIONS"] = environment["DATABASE_MAX_CONNECTIONS"]
=============================================================================
