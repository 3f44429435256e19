---------------------------- MODULE Configuration ----------------------------
(***************************************************************************)
(* internal/config: what cmd/server and cmd/migrate make of their          *)
(* environment.  A value is unset (or empty, which is the same), something *)
(* that does not parse, or what it parses to.                              *)
(***************************************************************************)
EXTENDS Integers

CONSTANTS
    Unset,    \* a variable that is not set, or empty
    Garbled,  \* a value the parser of its variable refuses
    MaxInt32  \* math.MaxInt32

ASSUME ConfigurationAssumption == MaxInt32 \in Nat

Durations ==
    {"SHUTDOWN_TIMEOUT", "REQUEST_TIMEOUT", "HTTP_READ_HEADER_TIMEOUT",
     "HTTP_READ_TIMEOUT", "HTTP_WRITE_TIMEOUT", "HTTP_IDLE_TIMEOUT"}

Names ==
    {"APP_ENV", "HTTP_ADDRESS", "DATABASE_URL", "DATABASE_MAX_CONNECTIONS",
     "RUN_MIGRATIONS", "SWAGGER_ENABLED"} \cup Durations

NotLoaded == [name \in Names |-> Unset]

\* The fallback of each variable; times are in seconds.
default(env, name) ==
    CASE name = "APP_ENV"                  -> "development"
      [] name = "HTTP_ADDRESS"             -> ":8080"
      [] name = "DATABASE_MAX_CONNECTIONS" -> 20
      [] name = "RUN_MIGRATIONS"           -> FALSE
      [] name = "SWAGGER_ENABLED"          -> env["APP_ENV"] # "production"
      [] name = "HTTP_READ_HEADER_TIMEOUT" -> 5
      [] name \in {"HTTP_READ_TIMEOUT", "HTTP_WRITE_TIMEOUT"} -> 15
      [] name = "HTTP_IDLE_TIMEOUT"        -> 60
      [] OTHER                             -> 10

parse(env, name) == IF env[name] = Unset THEN default(env, name) ELSE env[name]

\* int32(n) keeps the low bits.
int32(n) ==
    LET half == MaxInt32 + 1
    IN  ((n + half) % (2 * half)) - half

\* parseEnvironmentInt, ...Bool and ...Duration return an error.
Malformed(env, name) ==
    \/ env[name] = Garbled
    \/ name \in Durations /\ env[name] \notin {Unset, Garbled} /\ env[name] <= 0

\* Load returns an error.
LoadFails(env) ==
    \/ \E name \in Names : Malformed(env, name)
    \/ env["DATABASE_URL"] = Unset
    \/ int32(parse(env, "DATABASE_MAX_CONNECTIONS")) < 2

Load(env) ==
    [name \in Names |->
        IF name = "DATABASE_URL" THEN env[name]
        ELSE IF name = "DATABASE_MAX_CONNECTIONS" THEN int32(parse(env, name))
        ELSE parse(env, name)]

ValidateProduction(c) == ~ (c["APP_ENV"] = "production" /\ c["RUN_MIGRATIONS"])
=============================================================================
