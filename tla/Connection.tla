------------------------------ MODULE Connection ------------------------------
(***************************************************************************)
(* The one PGconn that a repository keeps for all its requests: opened by  *)
(* its constructor, tested before each statement and opened again when     *)
(* libpq says it is not OK (PGConnection.cpp, the same in three services). *)
(* A service extends this module with what its statements return.          *)
(***************************************************************************)
EXTENDS Naturals

CONSTANTS Workers       \* threads of the executor

VARIABLES
    database,   \* "up", or "down" when it refuses connections
    process,    \* "starting" (before the injector made the server), "running", "ended"
    conn,       \* what m_conn points to, see Conns
    step,       \* each worker's place in its request
    lost,       \* statements that failed on a dead session since the database came up
    refused     \* this process failed to open its connection again

connVars == <<database, process, conn, step, lost, refused>>

\* "stale": libpq calls it OK, the server has ended its session.  "freed": PQfinish() ran
\* and m_conn still points there.
Conns == {"none", "ok", "stale", "bad", "freed"}

\* Only "never", "once" and "more often" matter.
LostBound == 2

ConnTypeOK ==
    /\ database \in {"up", "down"}
    /\ process \in {"starting", "running", "ended"}
    /\ conn \in Conns
    /\ step \in [Workers -> {"idle", "check", "finish", "connect", "query"}]
    /\ lost \in 0..LostBound
    /\ refused \in BOOLEAN

ConnInit ==
    /\ database \in {"up", "down"}
    /\ process = "starting"
    /\ conn = "none"
    /\ step = [w \in Workers |-> "idle"]
    /\ lost = 0
    /\ refused = FALSE

GoTo(w, place) == step' = [step EXCEPT ![w] = place]

\* What PQstatus() may say.  Of freed memory it says anything, if it returns.
PQstatus(c) ==
    CASE c \in {"ok", "stale"} -> {"OK"}
      [] c = "freed" -> {"OK", "BAD"}
      [] OTHER -> {"BAD"}

\* Mutant of AfterStatus: the test is forgotten.
AfterStatusUntested(status) == "query"

AfterStatus(status) == IF status = "OK" THEN "query" ELSE "finish"

\* Mutant of Reopened: the result of GetConnect() is not assigned.
ReopenedElsewhere(c) == c

\* m_conn after conn = GetConnect().
Reopened(c) == "ok"

\* The container starts the program; the repository's constructor opens the connection.
Start ==
    /\ process = "starting"
    /\ IF database = "up" THEN /\ process' = "running"
                               /\ conn' = "ok"
                          ELSE /\ process' = "ended"     \* nobody catches the exception
                               /\ UNCHANGED conn
    /\ UNCHANGED <<database, step, lost, refused>>

\* restart: on-failure, or docker compose start.
Restart ==
    /\ process = "ended"
    /\ process' = "starting"
    /\ UNCHANGED <<database, conn, step, lost, refused>>

\* A request reaches the repository.
Begin(w) ==
    /\ process = "running"
    /\ step[w] = "idle"
    /\ GoTo(w, "check")
    /\ UNCHANGED <<database, process, conn, lost, refused>>

Check(w) ==
    /\ step[w] = "check"
    /\ \E status \in PQstatus(conn) : GoTo(w, AfterStatus(status))
    /\ UNCHANGED <<database, process, conn, lost, refused>>

\* PQfinish( conn ).  A connection that was freed before is freed once more.
Finish(w) ==
    /\ step[w] = "finish"
    /\ conn' = "freed"
    /\ GoTo(w, "connect")
    /\ UNCHANGED <<database, process, lost, refused>>

Connect(w) ==
    /\ step[w] = "connect"
    /\ database = "up"
    /\ conn' = Reopened(conn)
    /\ GoTo(w, "query")
    /\ UNCHANGED <<database, process, lost, refused>>

\* GetConnect() throws before the assignment; the handler answers 500.
ConnectRefused(w) ==
    /\ step[w] = "connect"
    /\ database = "down"
    /\ refused' = TRUE
    /\ GoTo(w, "idle")
    /\ UNCHANGED <<database, process, conn, lost>>

\* PQexec() on a living session.
Query(w) ==
    /\ step[w] = "query"
    /\ conn = "ok"
    /\ GoTo(w, "idle")
    /\ UNCHANGED <<database, process, conn, lost, refused>>

Counted(n) == IF n < LostBound THEN n + 1 ELSE n

\* PQexec() on any other; libpq notices that the session has ended.
QueryFails(w) ==
    /\ step[w] = "query"
    /\ conn # "ok"
    /\ conn' = IF conn = "freed" THEN conn ELSE "bad"
    /\ lost' = IF database = "up" THEN Counted(lost) ELSE lost
    /\ GoTo(w, "idle")
    /\ UNCHANGED <<database, process, refused>>

\* The process is gone, with its connection and its requests.
Ended ==
    /\ process' = "ended"
    /\ conn' = "none"
    /\ step' = [w \in Workers |-> "idle"]
    /\ lost' = 0
    /\ refused' = FALSE
    /\ UNCHANGED database

\* The use of freed memory ends it,
Crash(w) ==
    /\ step[w] \in {"check", "finish", "query"}
    /\ conn = "freed"
    /\ Ended

\* or docker compose stop does.
ServiceStops == process = "running" /\ Ended

DatabaseStops ==
    /\ database = "up"
    /\ database' = "down"
    /\ conn' = IF conn = "ok" THEN "stale" ELSE conn
    /\ UNCHANGED <<process, step, lost, refused>>

DatabaseStarts ==
    /\ database = "down"
    /\ database' = "up"
    /\ lost' = 0
    /\ UNCHANGED <<process, conn, step, refused>>

\* The steps that end no request and begin none.
Reopening(w) == Check(w) \/ Finish(w) \/ Connect(w)

Surroundings == Start \/ Restart \/ ServiceStops \/ DatabaseStops \/ DatabaseStarts

WorkerStep(w) == Reopening(w) \/ ConnectRefused(w) \/ Query(w) \/ QueryFails(w) \/ Crash(w)
-----------------------------------------------------------------------------
\* CheckConnectAndReopenIfNeeded: as long as each attempt to open the connection again
\* succeeded, no request tests, frees or queries a connection that was freed.
UsesLiveConnection ==
    \A w \in Workers :
        (~refused /\ step[w] \in {"check", "finish", "query"}) => conn # "freed"

\* Once the database is back, PQstatus() is wrong about the old connection for one
\* request; the next one opens a new connection.
OneRequestLost == ~refused => lost <= 1

\* If the database stays up, nobody stops the service any more and requests keep coming,
\* the service gets a living connection and keeps it, unless it was refused one before:
\* then it may query freed memory for ever.
Recovers ==
    (/\ <>[](database = "up")
     /\ <>[][~ServiceStops]_connVars
     /\ []<>(\E w \in Workers : step[w] # "idle"))
        => <>[](conn = "ok" \/ refused)
=============================================================================
