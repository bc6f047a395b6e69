----------------------------- MODULE Lifecycle -----------------------------
(***************************************************************************)
(* The life of API processes (run of cmd/api/main.go): they start as in    *)
(* Migration, listen, answer requests, and shut down on a signal.          *)
(*                                                                         *)
(* stage[p] goes on where Migration ends: "serving" is the select of run,  *)
(* "shutdown" is server.Shutdown, "closing" are the deferred calls.  What  *)
(* net/http does is modelled from how run uses it: Shutdown closes the     *)
(* listener at once, upon which ListenAndServe returns ErrServerClosed, and *)
(* itself returns when no request is left, or with an error after ten      *)
(* seconds, leaving requests behind.                                       *)
(***************************************************************************)
EXTENDS Migration

CONSTANTS
    Clients,        \* clients; each has at most one request in flight
    MaxFailures     \* BOUND: how often a listener fails or a process crashes

ASSUME FailureAssumption == MaxFailures \in Nat
ASSUME NoProcessAssumption == Null \notin Processes \cup {"answered", "error", "cut"}

VARIABLES
    listener,   \* listener[p]: the goroutine of ListenAndServe
    signalled,  \* signalled[p]: whether SIGTERM or SIGINT has come
    pool,       \* pool[p]: whether the connections to MySQL are open
    request,    \* request[c]: the process that has accepted c's request
    outcome,    \* outcome[c]: what became of c's last request
    exitCode,   \* exitCode[p]: of the last run in slot p
    failures    \* how many failures there were

serverVars == <<listener, signalled, pool, request, outcome, exitCode, failures>>
lifeVars == <<migrationVars, serverVars>>

InFlight(p) == {c \in Clients : request[c] = p}

LifeInit ==
    /\ MigrationInit
    /\ listener = [p \in Processes |-> "none"]
    /\ signalled = [p \in Processes |-> FALSE]
    /\ pool = [p \in Processes |-> FALSE]
    /\ request = [c \in Clients |-> Null]
    /\ outcome = [c \in Clients |-> Null]
    /\ exitCode = [p \in Processes |-> Null]
    /\ failures = 0

-----------------------------------------------------------------------------
(* The server *)

\* OpenMySQL opens the pool.  No signal is caught before NotifyContext
\* (main.go:113), so a start that is told to stop dies like any other.
StartUp(p) ==
    /\ Start(p) \/ StartStep(p) \/ Dies(p) \/ OrphanExecutes(p) \/ OrphanEnds(p)
    /\ pool' = [pool EXCEPT ![p] = stage'[p] \notin {"down", "mysql", "closing"}]
    /\ exitCode' = [exitCode EXCEPT ![p] =
                       IF stage[p] # "down" /\ stage'[p] = "down" THEN 1 ELSE @]
    /\ UNCHANGED <<listener, signalled, request, outcome, failures>>

Listen(p) ==
    /\ stage[p] = "serving" /\ listener[p] = "none"
    /\ listener' = [listener EXCEPT ![p] = "open"]
    /\ UNCHANGED <<migrationVars, signalled, pool, request, outcome, exitCode, failures>>

\* The address is in use, or Accept fails: ListenAndServe returns the error.
ListenerFails(p) ==
    /\ stage[p] = "serving" /\ listener[p] \in {"none", "open"}
    /\ failures < MaxFailures
    /\ failures' = failures + 1
    /\ listener' = [listener EXCEPT ![p] = "failed"]
    /\ UNCHANGED <<migrationVars, signalled, pool, request, outcome, exitCode>>

Accept(p, c) ==
    /\ listener[p] = "open" /\ request[c] = Null
    /\ request' = [request EXCEPT ![c] = p]
    /\ outcome' = [outcome EXCEPT ![c] = Null]
    /\ UNCHANGED <<migrationVars, listener, signalled, pool, exitCode, failures>>

\* The handler returns.  It has an answer of its service only if its calls found
\* the pool open.
Answer(p, c) ==
    /\ request[c] = p
    /\ request' = [request EXCEPT ![c] = Null]
    /\ outcome' = [outcome EXCEPT ![c] = IF pool[p] THEN "answered" ELSE "error"]
    /\ UNCHANGED <<migrationVars, listener, signalled, pool, exitCode, failures>>

Signal(p) ==
    /\ stage[p] \in {"serving", "shutdown", "closing"} /\ ~signalled[p]
    /\ signalled' = [signalled EXCEPT ![p] = TRUE]
    /\ UNCHANGED <<migrationVars, listener, pool, request, outcome, exitCode, failures>>

-----------------------------------------------------------------------------
(* The end of run *)

\* run returns and its deferred calls close Redis and MySQL.
Return(p, code) ==
    /\ stage' = [stage EXCEPT ![p] = "closing"]
    /\ pool' = [pool EXCEPT ![p] = FALSE]
    /\ exitCode' = [exitCode EXCEPT ![p] = code]
    /\ UNCHANGED <<schemaVars, version, session, orphan, deaths>>

\* select: stopContext is done; Shutdown closes the listener.
BeginShutdown(p) ==
    /\ signalled[p]
    /\ Move(p, "serving", "shutdown")
    /\ listener' = [listener EXCEPT ![p] = "closed"]
    /\ UNCHANGED <<schemaVars, version, session, orphan, deaths,
                   signalled, pool, request, outcome, exitCode, failures>>

\* select: ListenAndServe has returned an error.
ListenError(p) ==
    /\ stage[p] = "serving" /\ listener[p] = "failed"
    /\ Return(p, 1)
    /\ UNCHANGED <<listener, signalled, request, outcome, failures>>

\* Wrong: run returns once ListenAndServe has, whose ErrServerClosed main takes
\* for a clean end.
DrainedWithListener(p) ==
    /\ stage[p] = "shutdown" /\ listener[p] = "closed"
    /\ Return(p, 0)
    /\ UNCHANGED <<listener, signalled, request, outcome, failures>>

\* Shutdown returns nil.
Drained(p) ==
    /\ stage[p] = "shutdown" /\ InFlight(p) = {}
    /\ Return(p, 0)
    /\ UNCHANGED <<listener, signalled, request, outcome, failures>>

\* Wrong: Shutdown gets a context without a deadline.
WaitForEver(p) == FALSE /\ UNCHANGED lifeVars

\* Shutdown returns DeadlineExceeded after ten seconds, and main exits with 1.
ShutdownTimesOut(p) ==
    /\ stage[p] = "shutdown" /\ InFlight(p) # {}
    /\ Return(p, 1)
    /\ UNCHANGED <<listener, signalled, request, outcome, failures>>

\* The process ends with the handlers that are still running.
End(p, code) ==
    /\ Exit(p)
    /\ listener' = [listener EXCEPT ![p] = "none"]
    /\ signalled' = [signalled EXCEPT ![p] = FALSE]
    /\ pool' = [pool EXCEPT ![p] = FALSE]
    /\ request' = [c \in Clients |-> IF request[c] = p THEN Null ELSE request[c]]
    /\ outcome' = [c \in Clients |-> IF request[c] = p THEN "cut" ELSE outcome[c]]
    /\ exitCode' = [exitCode EXCEPT ![p] = code]
    /\ UNCHANGED <<schemaVars, orphan, deaths>>

ExitProcess(p) ==
    /\ stage[p] = "closing"
    /\ End(p, exitCode[p])
    /\ UNCHANGED failures

\* A panic, a SIGKILL, the machine goes: while it serves or shuts down.
Crash(p) ==
    /\ stage[p] \in {"serving", "shutdown", "closing"}
    /\ failures < MaxFailures
    /\ failures' = failures + 1
    /\ End(p, 2)

StopStep(p) ==
    \/ BeginShutdown(p) \/ ListenError(p) \/ Drained(p) \/ ShutdownTimesOut(p)
    \/ ExitProcess(p)

LifeNext ==
    \E p \in Processes :
        \/ StartUp(p)
        \/ Listen(p) \/ ListenerFails(p) \/ Signal(p)
        \/ StopStep(p) \/ Crash(p)
        \/ \E c \in Clients : Accept(p, c) \/ Answer(p, c)

LifeSpec == LifeInit /\ [][LifeNext]_lifeVars

\* The goroutine of run goes on, its calls return, and the timer of Shutdown runs
\* out; a handler need not end.  A process that is down is started again, and
\* MySQL ends the file of a client that is gone.
FairLifeSpec ==
    /\ LifeSpec
    /\ \A p \in Processes :
          /\ WF_lifeVars(StopStep(p))
          /\ WF_lifeVars(StartUp(p) /\ (Start(p) \/ StartStep(p)))
          /\ WF_lifeVars(StartUp(p) /\ OrphanEnds(p))

-----------------------------------------------------------------------------
(* Properties *)

\* Types of the variables (main.go:116-136).
LifeTypeOK ==
    /\ MigrationTypeOK
    /\ listener \in [Processes -> {"none", "open", "closed", "failed"}]
    /\ signalled \in [Processes -> BOOLEAN]
    /\ pool \in [Processes -> BOOLEAN]
    /\ request \in [Clients -> Processes \cup {Null}]
    /\ outcome \in [Clients -> {"answered", "error", "cut", Null}]
    /\ exitCode \in [Processes -> {0, 1, 2, Null}]
    /\ failures \in 0..MaxFailures

\* A request that is cut off, or meets a closed pool, shows in the exit code: a
\* process that exits with 0 has answered all it accepted, whatever came
\* between its signal and its end (main.go:37-40, 125-135).
CleanExitLosesNothing ==
    [][\A p \in Processes, c \in Clients :
         request[c] = p /\ outcome'[c] \in {"cut", "error"} => exitCode'[p] # 0]_lifeVars

\* A process that is told to stop does, although a handler hangs (main.go:30,
\* 127).
SignalStops == \A p \in Processes : signalled[p] ~> stage[p] = "down"

\* Unless a process dies while it starts, every start leads to a process that
\* serves in the end: whoever met the tables of another one's migration exits,
\* is started again and finds them recorded (migration.go:76-103).
StartsSucceed == [](deaths = 0) => EventuallyServes
=============================================================================
