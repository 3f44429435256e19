----------------------- MODULE ServerLifecycleProofs -----------------------
(***************************************************************************)
(* Proofs about ServerLifecycle for any number of connections, in any      *)
(* environments, with any timeouts.                                        *)
(***************************************************************************)
EXTENDS ServerLifecycle, TLAPS

Starting == {"load", "open", "migrate", "listen"}
Ending   == {"close", "exit", "exited"}

Typed ==
    /\ program \in {"server", "migrate"}
    /\ environment \in Environments
    /\ main \in Starting \cup {"select", "shutdown"} \cup Ending
    /\ conn \in [Conns -> {"none", "header", "body", "working", "query", "answered",
                           "closed", "cut"}]
    /\ age \in [Conns -> Nat]
    /\ elapsed \in Nat

\* Nobody has been let in.
NotServing ==
    /\ server = "off" /\ serverErrors = "empty"
    /\ \A c \in Conns : conn[c] = "none"

StartOK ==
    /\ program = "migrate" => main \notin {"listen", "select", "shutdown"}
    /\ main \in Starting \/ program = "migrate" => NotServing

\* The pool is open for as long as handlers may ask it for connections, and is
\* no longer when Close waits for them.
PoolOK ==
    /\ main \in {"load", "open"} => pool = "none"
    /\ main \in {"migrate", "listen", "select", "shutdown"} => pool = "open"
    /\ main = "close" => pool = "closing"
    /\ main = "exit" => pool # "open" \/ program = "migrate"

\* Once Shutdown has begun, or the listener has failed, nobody is let in again.
ListenerOK ==
    /\ serverErrors = "error" => server = "off"
    /\ main \in {"shutdown"} \cup Ending => server \notin {"starting", "listening"}

StopOK ==
    /\ main \in {"exit", "exited"} => \A c \in Conns : conn[c] # "query"
    /\ exitCode = 0 => main \in Ending /\ \A c \in Conns : ~ Busy(c)

Loaded == ShutdownTimeout \in Nat /\ RequestTimeout \in Nat

\* Close waits only for handlers that held a connection when it began, and each
\* of them has grown older by as much as Close has taken.
TimeOK ==
    /\ main \notin {"load", "exit", "exited"} \/ elapsed > 0 => Loaded
    /\ main \in Starting \cup {"select"} => elapsed = 0
    /\ main = "shutdown" => elapsed <= ShutdownTimeout
    /\ main = "close" => \A c \in Holders : elapsed <= ShutdownTimeout + age[c]
    /\ main \in Ending /\ elapsed > 0 => elapsed <= ShutdownTimeout + RequestTimeout

IInv == Typed /\ StartOK /\ PoolOK /\ ListenerOK /\ StopOK /\ TimeOK

-----------------------------------------------------------------------------
(* The start                                                               *)

LEMMA InitIInv == Init => IInv
<1> SUFFICES ASSUME Init PROVE IInv
  OBVIOUS
<1> USE DEF Init
<1>1. Typed
  BY DEF Typed, Starting
<1>2. StartOK /\ PoolOK /\ ListenerOK
  BY DEF StartOK, NotServing, PoolOK, ListenerOK, Starting, Ending
<1>3. StopOK /\ TimeOK
  BY DEF StopOK, TimeOK, Starting, Ending, NotExited
<1> QED
  BY <1>1, <1>2, <1>3 DEF IInv

\* A duration Load has accepted is its default, or a positive value.
LEMMA LoadedDuration ==
    ASSUME NEW env \in Environments, ~ LoadFails(env),
           NEW name \in {"SHUTDOWN_TIMEOUT", "REQUEST_TIMEOUT"}
    PROVE  Load(env)[name] \in Nat
<1>1. name \in Durations /\ name \in Names
  BY DEF Durations, Names
<1>2. default(env, name) = 10
  BY DEF default
<1>3. env[name] # Unset => env[name] \in Nat
  BY <1>1, LifecycleAssumption DEF LoadFails, Malformed
<1>4. parse(env, name) \in Nat
  BY <1>2, <1>3 DEF parse
<1> QED
  BY <1>1, <1>4 DEF Load

-----------------------------------------------------------------------------
(* run                                                                     *)

LEMMA LoadConfigurationStep == ASSUME IInv, LoadConfiguration PROVE IInv'
<1> USE DEF LoadConfiguration, fixed, startVars, Starting, Ending, Return
<1>1. Typed'
  BY DEF IInv, Typed
<1>2. StartOK'
  BY DEF IInv, Typed, StartOK, NotServing
<1>3. PoolOK'
  BY DEF IInv, Typed, StartOK, NotServing, PoolOK
<1>4. ListenerOK'
  BY DEF IInv, Typed, StartOK, NotServing, ListenerOK
<1>5. StopOK'
  BY DEF IInv, Typed, StartOK, NotServing, PoolOK, ListenerOK, StopOK, Busy, Handling
<1>6. TimeOK'
  <2>1. main' \in {"open", "exit"} /\ elapsed' = 0
    BY DEF IInv, StartOK, NotServing, PoolOK, TimeOK
  <2>2. main' = "open" => configuration' = Load(environment) /\ ~ LoadFails(environment)
    BY DEF IInv, PoolOK
  <2>3. main' = "open" => Loaded'
    BY <2>2, LoadedDuration DEF IInv, Typed, Loaded, ShutdownTimeout, RequestTimeout
  <2> QED
    BY <2>1, <2>3 DEF TimeOK
<1> QED
  BY <1>1, <1>2, <1>3, <1>4, <1>5, <1>6 DEF IInv

LEMMA OpenStoreStep == ASSUME IInv, OpenStore PROVE IInv'
<1> USE DEF OpenStore, fixed, startVars, Starting, Ending, Return
<1>1. Typed'
  BY DEF IInv, Typed
<1>2. StartOK'
  BY DEF IInv, Typed, StartOK, NotServing
<1>3. PoolOK'
  BY DEF IInv, Typed, StartOK, NotServing, PoolOK
<1>4. ListenerOK'
  BY DEF IInv, Typed, StartOK, NotServing, ListenerOK
<1>5. StopOK'
  BY DEF IInv, Typed, StartOK, NotServing, PoolOK, ListenerOK, StopOK, Busy, Handling
<1>6. TimeOK'
  BY DEF IInv, Typed, StartOK, NotServing, PoolOK, TimeOK, Loaded, Holders,
     ShutdownTimeout, RequestTimeout
<1> QED
  BY <1>1, <1>2, <1>3, <1>4, <1>5, <1>6 DEF IInv

LEMMA MigrateStep == ASSUME IInv, Migrate PROVE IInv'
<1> USE DEF Migrate, fixed, startVars, Starting, Ending, Return
<1>1. Typed'
  BY DEF IInv, Typed
<1>2. StartOK'
  BY DEF IInv, Typed, StartOK, NotServing
<1>3. PoolOK'
  BY DEF IInv, Typed, StartOK, NotServing, PoolOK
<1>4. ListenerOK'
  BY DEF IInv, Typed, StartOK, NotServing, ListenerOK
<1>5. StopOK'
  BY DEF IInv, Typed, StartOK, NotServing, PoolOK, ListenerOK, StopOK, Busy, Handling
<1>6. TimeOK'
  BY DEF IInv, Typed, StartOK, NotServing, PoolOK, TimeOK, Loaded, Holders,
     ShutdownTimeout, RequestTimeout
<1> QED
  BY <1>1, <1>2, <1>3, <1>4, <1>5, <1>6 DEF IInv

LEMMA StartServerStep == ASSUME IInv, StartServer PROVE IInv'
<1> USE DEF StartServer, fixed, startVars, Starting, Ending
<1>1. Typed'
  BY DEF IInv, Typed
<1>2. StartOK'
  BY DEF IInv, Typed, StartOK, NotServing
<1>3. PoolOK'
  BY DEF IInv, Typed, StartOK, NotServing, PoolOK
<1>4. ListenerOK'
  BY DEF IInv, Typed, StartOK, NotServing, ListenerOK
<1>5. StopOK'
  BY DEF IInv, Typed, StartOK, NotServing, PoolOK, ListenerOK, StopOK, Busy, Handling
<1>6. TimeOK'
  BY DEF IInv, Typed, StartOK, NotServing, PoolOK, TimeOK, Loaded, Holders,
     ShutdownTimeout, RequestTimeout
<1> QED
  BY <1>1, <1>2, <1>3, <1>4, <1>5, <1>6 DEF IInv

LEMMA SelectStep == ASSUME IInv, Select PROVE IInv'
<1> USE DEF Select, fixed, startVars, Starting, Ending, Return
<1>1. Typed'
  BY DEF IInv, Typed
<1>2. StartOK'
  BY DEF IInv, Typed, StartOK, NotServing
<1>3. PoolOK'
  BY DEF IInv, Typed, StartOK, NotServing, PoolOK
<1>4. ListenerOK'
  BY DEF IInv, Typed, StartOK, NotServing, ListenerOK
<1>5. StopOK'
  BY DEF IInv, Typed, StartOK, NotServing, PoolOK, ListenerOK, StopOK, Busy, Handling
<1>6. TimeOK'
  BY DEF IInv, Typed, StartOK, NotServing, PoolOK, TimeOK, Loaded, Holders,
     ShutdownTimeout, RequestTimeout
<1> QED
  BY <1>1, <1>2, <1>3, <1>4, <1>5, <1>6 DEF IInv

LEMMA ShutdownStep == ASSUME IInv, Shutdown PROVE IInv'
<1> USE DEF Shutdown, fixed, startVars, Starting, Ending, Return
<1>1. Typed'
  BY DEF IInv, Typed
<1>2. StartOK'
  BY DEF IInv, Typed, StartOK, NotServing
<1>3. PoolOK'
  BY DEF IInv, Typed, StartOK, NotServing, PoolOK
<1>4. ListenerOK'
  BY DEF IInv, Typed, StartOK, NotServing, ListenerOK
<1>5. StopOK'
  BY DEF IInv, Typed, StartOK, NotServing, PoolOK, ListenerOK, StopOK, Busy, Handling
<1>6. TimeOK'
  BY DEF IInv, Typed, StartOK, NotServing, PoolOK, TimeOK, Loaded, Holders,
     ShutdownTimeout, RequestTimeout
<1> QED
  BY <1>1, <1>2, <1>3, <1>4, <1>5, <1>6 DEF IInv

LEMMA CloseStoreStep == ASSUME IInv, CloseStore PROVE IInv'
<1> USE DEF CloseStore, fixed, startVars, Starting, Ending
<1>1. Typed'
  BY DEF IInv, Typed
<1>2. StartOK'
  BY DEF IInv, Typed, StartOK, NotServing
<1>3. PoolOK'
  BY DEF IInv, Typed, StartOK, NotServing, PoolOK
<1>4. ListenerOK'
  BY DEF IInv, Typed, StartOK, NotServing, ListenerOK
<1>5. StopOK'
  BY DEF IInv, Typed, StartOK, NotServing, PoolOK, ListenerOK, StopOK, Busy, Handling, Holders
<1>6. TimeOK'
  BY DEF IInv, Typed, StartOK, NotServing, PoolOK, TimeOK, Loaded, Holders,
     ShutdownTimeout, RequestTimeout
<1> QED
  BY <1>1, <1>2, <1>3, <1>4, <1>5, <1>6 DEF IInv

LEMMA ExitStep == ASSUME IInv, Exit PROVE IInv'
<1> USE DEF Exit, fixed, startVars, Starting, Ending
<1>1. Typed'
  BY DEF IInv, Typed
<1>2. StartOK'
  BY DEF IInv, Typed, StartOK, NotServing, Busy, Handling
<1>3. PoolOK'
  BY DEF IInv, Typed, StartOK, NotServing, PoolOK
<1>4. ListenerOK'
  BY DEF IInv, Typed, StartOK, NotServing, ListenerOK
<1>5. StopOK'
  BY DEF IInv, Typed, StartOK, NotServing, PoolOK, ListenerOK, StopOK, Busy, Handling
<1>6. TimeOK'
  BY DEF IInv, Typed, StartOK, NotServing, PoolOK, TimeOK, Loaded, Holders,
     ShutdownTimeout, RequestTimeout
<1> QED
  BY <1>1, <1>2, <1>3, <1>4, <1>5, <1>6 DEF IInv

LEMMA ListenStep == ASSUME IInv, Listen PROVE IInv'
<1> USE DEF Listen, fixed, startVars, Starting, Ending
<1>1. Typed'
  BY DEF IInv, Typed
<1>2. StartOK'
  BY DEF IInv, Typed, StartOK, NotServing
<1>3. PoolOK'
  BY DEF IInv, Typed, StartOK, NotServing, PoolOK
<1>4. ListenerOK'
  BY DEF IInv, Typed, StartOK, NotServing, ListenerOK
<1>5. StopOK'
  BY DEF IInv, Typed, StartOK, NotServing, PoolOK, ListenerOK, StopOK, Busy, Handling
<1>6. TimeOK'
  BY DEF IInv, Typed, StartOK, NotServing, PoolOK, TimeOK, Loaded, Holders,
     ShutdownTimeout, RequestTimeout
<1> QED
  BY <1>1, <1>2, <1>3, <1>4, <1>5, <1>6 DEF IInv

LEMMA SignalStep == ASSUME IInv, Signal PROVE IInv'
<1> USE DEF Signal, fixed, startVars, Starting, Ending
<1>1. Typed'
  BY DEF IInv, Typed
<1>2. StartOK'
  BY DEF IInv, Typed, StartOK, NotServing
<1>3. PoolOK'
  BY DEF IInv, Typed, StartOK, NotServing, PoolOK
<1>4. ListenerOK'
  BY DEF IInv, Typed, StartOK, NotServing, ListenerOK
<1>5. StopOK'
  BY DEF IInv, Typed, StartOK, NotServing, PoolOK, ListenerOK, StopOK, Busy, Handling
<1>6. TimeOK'
  BY DEF IInv, Typed, StartOK, NotServing, PoolOK, TimeOK, Loaded, Holders,
     ShutdownTimeout, RequestTimeout
<1> QED
  BY <1>1, <1>2, <1>3, <1>4, <1>5, <1>6 DEF IInv

LEMMA TickStep == ASSUME IInv, Tick PROVE IInv'
<1> USE DEF Tick, fixed, startVars, Starting, Ending, Waiting
<1>1. Typed'
  BY DEF IInv, Typed
<1>2. StartOK'
  BY DEF IInv, Typed, StartOK, NotServing
<1>3. PoolOK'
  BY DEF IInv, Typed, StartOK, NotServing, PoolOK
<1>4. ListenerOK'
  BY DEF IInv, Typed, StartOK, NotServing, ListenerOK
<1>5. StopOK'
  BY DEF IInv, Typed, StartOK, NotServing, PoolOK, ListenerOK, StopOK, Busy, Handling
<1>6. TimeOK'
  <2> USE DEF IInv, Typed, Loaded, ShutdownTimeout, RequestTimeout
  <2>0. main \notin {"load", "exit", "exited"}
    BY DEF StartOK, NotServing, Busy, Handling
  <2>1. Loaded /\ Loaded' /\ elapsed' \in Nat
    BY <2>0 DEF TimeOK
  <2>2. CASE main \notin {"shutdown", "close"}
    BY <2>1, <2>2 DEF TimeOK
  <2>3. CASE main = "shutdown"
    BY <2>1, <2>3 DEF TimeOK
  <2>4. CASE main = "close"
    <3>1. PICK h \in Holders : age[h] < RequestTimeout
      BY <2>1, <2>4 DEF Overdue, Holders
    <3>2. elapsed <= ShutdownTimeout + age[h]
      BY <2>4, <3>1 DEF TimeOK
    <3>3. elapsed' <= ShutdownTimeout + RequestTimeout
      BY <2>1, <2>4, <3>1, <3>2 DEF Holders
    <3>4. ASSUME NEW c \in Holders' PROVE elapsed' <= ShutdownTimeout + age'[c]
      <4>1. c \in Holders /\ Busy(c)
        BY <3>4 DEF Holders, Busy, Handling
      <4>2. age'[c] = age[c] + 1 /\ elapsed' = elapsed + 1 /\ age[c] \in Nat
        BY <2>4, <4>1 DEF Holders
      <4>3. elapsed <= ShutdownTimeout + age[c]
        BY <2>4, <4>1 DEF TimeOK
      <4> QED
        BY <2>1, <4>2, <4>3
    <3> QED
      BY <2>1, <2>4, <3>3, <3>4 DEF TimeOK
  <2> QED
    BY <2>2, <2>3, <2>4
<1> QED
  BY <1>1, <1>2, <1>3, <1>4, <1>5, <1>6 DEF IInv

-----------------------------------------------------------------------------
(* Handlers                                                                *)

LEMMA ConnectStep == ASSUME IInv, NEW c \in Conns, Connect(c) PROVE IInv'
<1> USE DEF Connect, Becomes, processVars, fixed, startVars, Starting, Ending
<1>1. Typed'
  BY DEF IInv, Typed
<1>2. StartOK'
  BY DEF IInv, Typed, StartOK, NotServing
<1>3. PoolOK'
  BY DEF IInv, Typed, StartOK, NotServing, PoolOK
<1>4. ListenerOK'
  BY DEF IInv, Typed, StartOK, NotServing, ListenerOK
<1>5. StopOK'
  BY DEF IInv, Typed, StartOK, NotServing, PoolOK, ListenerOK, StopOK, Busy, Handling
<1>6. TimeOK'
  BY DEF IInv, Typed, StartOK, NotServing, PoolOK, TimeOK, Loaded, Holders,
     ShutdownTimeout, RequestTimeout
<1> QED
  BY <1>1, <1>2, <1>3, <1>4, <1>5, <1>6 DEF IInv

LEMMA ReadHeaderStep == ASSUME IInv, NEW c \in Conns, ReadHeader(c) PROVE IInv'
<1> USE DEF ReadHeader, Becomes, processVars, fixed, startVars, Starting, Ending
<1>1. Typed'
  BY DEF IInv, Typed
<1>2. StartOK'
  BY DEF IInv, Typed, StartOK, NotServing
<1>3. PoolOK'
  BY DEF IInv, Typed, StartOK, NotServing, PoolOK
<1>4. ListenerOK'
  BY DEF IInv, Typed, StartOK, NotServing, ListenerOK
<1>5. StopOK'
  BY DEF IInv, Typed, StartOK, NotServing, PoolOK, ListenerOK, StopOK, Busy, Handling
<1>6. TimeOK'
  BY DEF IInv, Typed, StartOK, NotServing, PoolOK, TimeOK, Loaded, Holders,
     ShutdownTimeout, RequestTimeout
<1> QED
  BY <1>1, <1>2, <1>3, <1>4, <1>5, <1>6 DEF IInv

LEMMA ReadBodyStep == ASSUME IInv, NEW c \in Conns, ReadBody(c) PROVE IInv'
<1> USE DEF ReadBody, Becomes, processVars, fixed, startVars, Starting, Ending
<1>1. Typed'
  BY DEF IInv, Typed
<1>2. StartOK'
  BY DEF IInv, Typed, StartOK, NotServing
<1>3. PoolOK'
  BY DEF IInv, Typed, StartOK, NotServing, PoolOK
<1>4. ListenerOK'
  BY DEF IInv, Typed, StartOK, NotServing, ListenerOK
<1>5. StopOK'
  BY DEF IInv, Typed, StartOK, NotServing, PoolOK, ListenerOK, StopOK, Busy, Handling
<1>6. TimeOK'
  BY DEF IInv, Typed, StartOK, NotServing, PoolOK, TimeOK, Loaded, Holders,
     ShutdownTimeout, RequestTimeout
<1> QED
  BY <1>1, <1>2, <1>3, <1>4, <1>5, <1>6 DEF IInv

LEMMA AcquireStep == ASSUME IInv, NEW c \in Conns, Acquire(c), main # "exited" PROVE IInv'
<1> USE DEF Acquire, Becomes, processVars, fixed, startVars, Starting, Ending
<1>1. Typed'
  BY DEF IInv, Typed
<1>2. StartOK'
  BY DEF IInv, Typed, StartOK, NotServing
<1>3. PoolOK'
  BY DEF IInv, Typed, StartOK, NotServing, PoolOK
<1>4. ListenerOK'
  BY DEF IInv, Typed, StartOK, NotServing, ListenerOK
<1>5. StopOK'
  BY DEF IInv, Typed, StartOK, NotServing, PoolOK, ListenerOK, StopOK, Busy, Handling
<1>6. TimeOK'
  BY DEF IInv, Typed, StartOK, NotServing, PoolOK, TimeOK, Loaded, Holders,
     ShutdownTimeout, RequestTimeout
<1> QED
  BY <1>1, <1>2, <1>3, <1>4, <1>5, <1>6 DEF IInv

LEMMA ReleaseStep == ASSUME IInv, NEW c \in Conns, Release(c) PROVE IInv'
<1> USE DEF Release, Becomes, processVars, fixed, startVars, Starting, Ending
<1>1. Typed'
  BY DEF IInv, Typed
<1>2. StartOK'
  BY DEF IInv, Typed, StartOK, NotServing
<1>3. PoolOK'
  BY DEF IInv, Typed, StartOK, NotServing, PoolOK
<1>4. ListenerOK'
  BY DEF IInv, Typed, StartOK, NotServing, ListenerOK
<1>5. StopOK'
  BY DEF IInv, Typed, StartOK, NotServing, PoolOK, ListenerOK, StopOK, Busy, Handling
<1>6. TimeOK'
  BY DEF IInv, Typed, StartOK, NotServing, PoolOK, TimeOK, Loaded, Holders,
     ShutdownTimeout, RequestTimeout
<1> QED
  BY <1>1, <1>2, <1>3, <1>4, <1>5, <1>6 DEF IInv

LEMMA FailStep == ASSUME IInv, NEW c \in Conns, Fail(c) PROVE IInv'
<1> USE DEF Fail, Becomes, processVars, fixed, startVars, Starting, Ending
<1>1. Typed'
  BY DEF IInv, Typed
<1>2. StartOK'
  BY DEF IInv, Typed, StartOK, NotServing
<1>3. PoolOK'
  BY DEF IInv, Typed, StartOK, NotServing, PoolOK
<1>4. ListenerOK'
  BY DEF IInv, Typed, StartOK, NotServing, ListenerOK
<1>5. StopOK'
  BY DEF IInv, Typed, StartOK, NotServing, PoolOK, ListenerOK, StopOK, Busy, Handling
<1>6. TimeOK'
  BY DEF IInv, Typed, StartOK, NotServing, PoolOK, TimeOK, Loaded, Holders,
     ShutdownTimeout, RequestTimeout
<1> QED
  BY <1>1, <1>2, <1>3, <1>4, <1>5, <1>6 DEF IInv

-----------------------------------------------------------------------------
(* The theorems                                                            *)

LEMMA StutterIInv == ASSUME IInv, UNCHANGED vars PROVE IInv'
<1> USE DEF vars, processVars, fixed, startVars
<1>1. Typed' /\ StartOK' /\ PoolOK'
  BY DEF IInv, Typed, StartOK, NotServing, PoolOK
<1>2. ListenerOK' /\ StopOK'
  BY DEF IInv, ListenerOK, StopOK, Busy
<1>3. TimeOK'
  BY DEF IInv, TimeOK, Loaded, Holders,
     ShutdownTimeout, RequestTimeout
<1> QED
  BY <1>1, <1>2, <1>3 DEF IInv

LEMMA StepIInv == IInv /\ [Next]_vars => IInv'
<1> SUFFICES ASSUME IInv, [Next]_vars PROVE IInv'
  OBVIOUS
<1>1. ASSUME Run PROVE IInv'
  BY <1>1, LoadConfigurationStep, OpenStoreStep, MigrateStep, StartServerStep,
     SelectStep, ShutdownStep, CloseStoreStep, ExitStep DEF Run
<1>2. ASSUME main # "exited", NEW c \in Conns, Connect(c) \/ Handle(c) PROVE IInv'
  BY <1>2, ConnectStep, ReadHeaderStep, ReadBodyStep, AcquireStep, ReleaseStep, FailStep
     DEF Handle
<1> QED
  BY <1>1, <1>2, ListenStep, SignalStep, TickStep, StutterIInv DEF Next, Terminating

LEMMA Inductive == Spec => []IInv
BY InitIInv, StepIInv, PTL DEF Spec

\* However many connections there are, and however the timeouts relate to each
\* other, the deferred Close of main.go:44 takes no longer than the handlers it
\* waits for may take.
THEOREM StopTakesBoundedTime == Spec => []StopIsBounded
<1>1. IInv => StopIsBounded
  BY DEF IInv, Typed, TimeOK, Loaded, Starting, Ending, StopIsBounded
<1> QED
  BY <1>1, Inductive, PTL

\* The order of Shutdown, Close and exit, with the listener closed first, cuts no
\* transaction, and after a clean stop no request, whatever Shutdown has given up.
THEOREM NothingCut == Spec => NothingIsCutShort
<1> DEFINE Whole == /\ Holders = {}
                    /\ exitCode = 0 => \A c \in Conns : ~ Busy(c)
<1>1. ASSUME IInv, [Next]_vars PROVE [main' = "exited" => Whole]_vars
  <2> SUFFICES ASSUME Next, main' = "exited", ~ UNCHANGED vars PROVE Whole
    BY <1>1
  <2>1. main = "exit"
    <3>1. CASE Run
      BY <1>1, <3>1 DEF Run, LoadConfiguration, OpenStore, Migrate, StartServer, Select,
         Shutdown, CloseStore, Exit, Return
    <3>2. CASE Listen \/ Signal \/ Tick
      BY <1>1, <3>2 DEF Listen, Signal, Tick, Waiting, IInv, Typed
    <3>3. ASSUME main # "exited", NEW c \in Conns, Connect(c) \/ Handle(c) PROVE FALSE
      BY <3>3 DEF Handle, Connect, ReadHeader, ReadBody, Acquire, Release, Fail,
         Becomes, processVars
    <3> QED
      BY <3>1, <3>2, <3>3 DEF Next, Terminating
  <2> QED
    BY <1>1, <2>1 DEF IInv, StopOK, Holders
<1>2. Spec => [][main' = "exited" => Whole]_vars
  BY <1>1, Inductive, PTL DEF Spec
<1> QED
  BY <1>2 DEF NothingIsCutShort

-----------------------------------------------------------------------------
(* The size of the pool                                                    *)

LEMMA FittingNumbers ==
    ASSUME NEW n \in -(MaxInt32 + 1) .. MaxInt32
    PROVE  int32(n) = n
<1> DEFINE half == MaxInt32 + 1
<1>1. half \in Nat /\ half > 0 /\ n + half \in 0 .. 2 * half - 1
  BY ConfigurationAssumption
<1> HIDE DEF half
<1>2. \A m, k \in Int : k > 0 /\ m \in 0 .. k - 1 => (m % k) = m
  OBVIOUS
<1>3. ((n + half) % (2 * half)) = n + half
  BY <1>1, <1>2
<1>4. ((n + half) % (2 * half)) - half = n
  BY <1>1, <1>3
<1> QED
  BY <1>4 DEF int32, half

LEMMA Narrowed ==
    ASSUME NEW n \in Int
    PROVE  int32(n) \in -(MaxInt32 + 1) .. MaxInt32
<1> DEFINE half == MaxInt32 + 1
<1>1. half \in Nat /\ half > 0
  BY ConfigurationAssumption
<1> HIDE DEF half
<1>2. \A m, k \in Int : k > 0 => (m % k) \in 0 .. k - 1
  OBVIOUS
<1>3. ((n + half) % (2 * half)) \in 0 .. 2 * half - 1
  BY <1>1, <1>2
<1>4. ((n + half) % (2 * half)) - half \in -half .. half - 1
  BY <1>1, <1>3
<1> QED
  BY <1>4, ConfigurationAssumption DEF int32, half

\* Whatever comes after Load has the configuration Load has made.
LoadedOK ==
    main \notin {"load"} \cup Ending \/ pool # "none" =>
        ~ LoadFails(environment) /\ configuration = Load(environment)

LEMMA LoadedAlways == Spec => []LoadedOK
<1>1. Init => LoadedOK
  BY DEF Init, LoadedOK
<1>2. IInv /\ LoadedOK /\ [Next]_vars => LoadedOK'
  <2> SUFFICES ASSUME IInv, LoadedOK, [Next]_vars PROVE LoadedOK'
    OBVIOUS
  <2> USE DEF LoadedOK, fixed, startVars, Ending
  <2>1. CASE LoadConfiguration
    BY <2>1 DEF LoadConfiguration, Return, IInv, PoolOK
  <2>2. CASE OpenStore \/ Migrate
    BY <2>2 DEF OpenStore, Migrate, Return
  <2>3. CASE StartServer \/ Select
    BY <2>3 DEF StartServer, Select, Return
  <2>4. CASE Shutdown
    BY <2>4 DEF Shutdown, Return
  <2>5. CASE CloseStore \/ Exit
    BY <2>5 DEF CloseStore, Exit, Return, IInv, PoolOK
  <2>6. CASE UNCHANGED <<fixed, main, pool>>
    BY <2>6
  <2>7. Listen \/ Signal \/ Tick => UNCHANGED <<fixed, main, pool>>
    BY DEF Listen, Signal, Tick
  <2>8. ASSUME NEW c \in Conns, Connect(c) \/ Handle(c)
        PROVE  UNCHANGED <<fixed, main, pool>>
    BY <2>8 DEF Connect, Handle, ReadHeader, ReadBody, Acquire, Release, Fail, Becomes,
       processVars
  <2>9. UNCHANGED vars => UNCHANGED <<fixed, main, pool>>
    BY DEF vars, processVars
  <2> QED
    BY <2>1, <2>2, <2>3, <2>4, <2>5, <2>6, <2>7, <2>8, <2>9 DEF Next, Run, Terminating
<1> QED
  BY <1>1, <1>2, Inductive, PTL DEF Spec

\* A pool has two connections at least, and as many as DATABASE_MAX_CONNECTIONS says
\* as long as that is an int32.
PoolSizeOK ==
    LET asked  == parse(environment, "DATABASE_MAX_CONNECTIONS")
        opened == configuration["DATABASE_MAX_CONNECTIONS"]
    IN  pool # "none" =>
          /\ opened \in 2 .. MaxInt32
          /\ asked \in -(MaxInt32 + 1) .. MaxInt32 => opened = asked

\* The conversion of config.go:68 is the only thing that may come between what the
\* environment asks for and the pool that is opened; the check of config.go:81 is
\* made on what the pool will have.
THEOREM PoolsThatFitAreAsConfigured == Spec => []PoolSizeOK
<1>1. Typed /\ LoadedOK => PoolSizeOK
  <2> SUFFICES ASSUME Typed, LoadedOK, pool # "none" PROVE PoolSizeOK
    BY DEF PoolSizeOK
  <2> DEFINE asked  == parse(environment, "DATABASE_MAX_CONNECTIONS")
             opened == configuration["DATABASE_MAX_CONNECTIONS"]
  <2>1. ~ LoadFails(environment) /\ configuration = Load(environment)
    BY DEF LoadedOK
  <2>2. asked \in Int
    <3>1. environment \in Environments /\ "DATABASE_MAX_CONNECTIONS" \in Names
      BY DEF Typed, Names
    <3>2. environment["DATABASE_MAX_CONNECTIONS"] \in {Unset} \cup Int
      BY <2>1, <3>1, LifecycleAssumption DEF LoadFails, Malformed
    <3>3. default(environment, "DATABASE_MAX_CONNECTIONS") = 20
      BY DEF default
    <3> QED
      BY <3>2, <3>3 DEF parse
  <2>3. opened = int32(asked) /\ ~ int32(asked) < 2
    BY <2>1 DEF Load, LoadFails, Names
  <2> HIDE DEF asked, opened
  <2>4. opened \in 2 .. MaxInt32
    BY <2>2, <2>3, Narrowed, ConfigurationAssumption
  <2>5. asked \in -(MaxInt32 + 1) .. MaxInt32 => opened = asked
    BY <2>3, FittingNumbers
  <2> QED
    BY <2>4, <2>5 DEF PoolSizeOK, asked, opened
<1> QED
  BY <1>1, Inductive, LoadedAlways, PTL DEF IInv
=============================================================================
