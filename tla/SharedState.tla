---------------------------- MODULE SharedState ----------------------------
(*************************************************************************)
(* The fields of the shared memory segment that the processes use while  *)
(* they run (src/src/shmem.cpp): the should-exit flag, the worker status *)
(* array and the request counter.  Each access is one atomic operation;  *)
(* the log line that a caller owes after raising the flag is another.    *)
(*************************************************************************)
EXTENDS ProcessTable

CONSTANTS
    AppStatuses    \* the octets the application stores with set_worker_status

VARIABLES
    should_exit,      \* SHMEM_SHOULD_EXIT_IMMEDIATELY, 0 or 1
    owing,            \* processes that have to log why everyone should exit
    loggers,          \* processes that have logged it
    worker_status,    \* worker -> status octet
    request_counter   \* SHMEM_REQUEST_COUNTER

sharedVars == <<should_exit, owing, loggers, worker_status, request_counter>>

Statuses == {"NUL", "_"} \cup AppStatuses

SharedTypeOK ==
    /\ should_exit \in {0, 1}
    /\ owing \in SUBSET Procs
    /\ loggers \in SUBSET Procs
    /\ worker_status \in [Workers -> Statuses]
    /\ request_counter \in Nat

\* The constructor clears the segment.
SharedInit ==
    /\ should_exit = 0
    /\ owing = {} /\ loggers = {}
    /\ worker_status = [w \in Workers |-> "NUL"]
    /\ request_counter = 0

\* Mutant: every caller is told to log.
SetShouldExitAlwaysLogs(p) ==
    /\ should_exit' = 1
    /\ owing' = owing \cup {p}
    /\ UNCHANGED loggers

\* SetShouldExitImmediately: the exchange returns true to the first caller only, and
\* a caller p that gets true has to log the reason.
SetShouldExitImmediately(p) ==
    /\ should_exit' = 1
    /\ owing' = IF should_exit = 0 THEN owing \cup {p} ELSE owing
    /\ UNCHANGED loggers

\* The Log() that follows, a step of its own: p may be killed before it.
LogsReason(p) ==
    /\ loggers' = loggers \cup {p}
    /\ owing' = owing \ {p}
    /\ UNCHANGED should_exit

SetWorkerStatus(w, status) == worker_status' = [worker_status EXCEPT ![w] = status]

IncreaseRequestCounter == request_counter' = request_counter + 1
===========================================================================
