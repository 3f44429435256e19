------------------------------ MODULE MCServer ------------------------------
(***************************************************************************)
(* Processes in environments that start, and in environments that do not.  *)
(* Times are in ticks.                                                     *)
(***************************************************************************)
EXTENDS ServerLifecycle

CONSTANT url

Bare == [name \in Names |-> IF name = "DATABASE_URL" THEN url ELSE Unset]

Timed(header, read, request, shutdown) ==
    [Bare EXCEPT !["HTTP_READ_HEADER_TIMEOUT"] = header, !["HTTP_READ_TIMEOUT"] = read,
                 !["REQUEST_TIMEOUT"] = request, !["SHUTDOWN_TIMEOUT"] = shutdown,
                 !["DATABASE_MAX_CONNECTIONS"] = 2]

\* A request may outlive Shutdown, or Shutdown any request.
Hurried == [Timed(1, 3, 2, 2) EXCEPT !["RUN_MIGRATIONS"] = TRUE]
Patient == [Timed(1, 2, 1, 4) EXCEPT !["APP_ENV"] = "production"]

With(name, values) == {[Hurried EXCEPT ![name] = value] : value \in values}

Refused ==
    With("DATABASE_URL", {Unset}) \cup With("DATABASE_MAX_CONNECTIONS", {-1, 0, 1, 32, 65, Garbled})
    \cup With("REQUEST_TIMEOUT", {-1, 0, Garbled}) \cup With("SHUTDOWN_TIMEOUT", {0})
    \cup With("RUN_MIGRATIONS", {Garbled}) \cup With("SWAGGER_ENABLED", {Garbled})

\* The server refuses to migrate in production, the release step does not.
ReleaseStep == With("APP_ENV", {"production"})

Started == {Hurried, Patient} \cup Refused \cup ReleaseStep

\* Sizes of the pool around MaxInt32 and twice that.
Sized == With("DATABASE_MAX_CONNECTIONS", {Unset, 2, 31, 32, 63, 64, 65, 66})
=============================================================================
