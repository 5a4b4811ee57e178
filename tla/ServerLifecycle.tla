-------------------------- MODULE ServerLifecycle --------------------------
(***************************************************************************)
(* One life of the server process: main() in cmd/server/main.go from its   *)
(* start to its exit, the goroutine that listens, the requests it serves,  *)
(* the signals it gets and the deferred calls it leaves through.           *)
(*                                                                         *)
(* os.Exit and a signal nobody is notified of end the process at once and  *)
(* skip the deferred calls; returning from main runs them, last first: the *)
(* pool is closed, then the spans still buffered are exported.             *)
(***************************************************************************)
EXTENDS Naturals, FiniteSets

CONSTANTS
  Requests,     \* what clients send in this life of the process
  MaxSignals    \* bound on SIGINT and SIGTERM

ASSUME MaxSignalsAssumption == MaxSignals \in Nat

VARIABLES
  autoMigrate,  \* AUTO_MIGRATE
  main,         \* where main() is
  listener,     \* where the listening goroutine is
  stop,         \* signals in the channel `stop`, of capacity 1
  signals,      \* signals sent so far
  pool,         \* the connection pool
  tables,       \* of an earlier release, or the ones the code expects
  tracing,      \* the tracer provider
  request,      \* where each request is
  spans,        \* requests whose span has ended and is not exported
  exit          \* how the process ended, or "running"

vars == <<autoMigrate, main, listener, stop, signals, pool, tables, tracing,
          request, spans, exit>>

\* main() before and after the call of signal.Notify, and its deferred calls.
Unnotified == {"telemetry", "database", "migration", "handler", "notify"}
Serving == {"listen", "waiting", "stopping", "draining"}
Deferred == {"closing", "flushing", "returning"}

TypeOK ==
  /\ autoMigrate \in {"on", "off"}
  /\ main \in Unnotified \cup Serving \cup Deferred \cup {"gone"}
  /\ listener \in {"off", "starting", "serving", "closed"}
  /\ stop \in {0, 1}
  /\ signals \in 0..MaxSignals
  /\ pool \in {"none", "open", "closed"}
  /\ tables \in {"old", "current"}
  /\ tracing \in {"none", "on", "off", "flushed", "timedOut"}
  /\ request \in [Requests -> {"unsent", "sent", "running", "answered",
                               "refused", "cutOff"}]
  /\ spans \subseteq Requests
  /\ exit \in {"running", "clean", "failed", "forced", "killed"}
  /\ exit # "running" <=> main = "gone"

\* main() runs newly started, on tables an earlier release may have left.
Init ==
  /\ autoMigrate \in {"on", "off"}
  /\ main = "telemetry"
  /\ listener = "off"
  /\ stop = 0
  /\ signals = 0
  /\ pool = "none"
  /\ tables \in {"old", "current"}
  /\ tracing = "none"
  /\ request = [r \in Requests |-> "unsent"]
  /\ spans = {}
  /\ exit = "running"

\* The process is gone: its connections are reset, its spans are lost.
Gone(how) ==
  /\ main' = "gone"
  /\ exit' = how
  /\ listener' = "closed"
  /\ request' = [r \in Requests |->
                   IF request[r] = "running" THEN "cutOff"
                   ELSE IF request[r] = "sent" THEN "refused"
                   ELSE request[r]]

\* os.Exit, or main() returns.
Ends(how) ==
  /\ Gone(how)
  /\ UNCHANGED <<autoMigrate, stop, signals, pool, tables, tracing, spans>>

(***************************************************************************)
(* Start-up, in main()'s order.                                            *)
(***************************************************************************)
\* A telemetry set-up that fails is logged, and main goes on without it.
InitTelemetry ==
  /\ main = "telemetry"
  /\ tracing' \in {"on", "off"}
  /\ main' = "database"
  /\ UNCHANGED <<autoMigrate, listener, stop, signals, pool, tables, request,
                 spans, exit>>

\* NewPool pings the database; the ping may hang as long as it likes.
ConnectPool ==
  /\ main = "database"
  /\ \/ /\ pool' = "open"
        /\ main' = "migration"
        /\ UNCHANGED <<autoMigrate, listener, stop, signals, tables, tracing,
                       request, spans, exit>>
     \/ Ends("failed")

AutoMigrate ==
  /\ main = "migration"
  /\ \/ /\ main' = "handler"
        /\ tables' = IF autoMigrate = "on" THEN "current" ELSE tables
        /\ UNCHANGED <<autoMigrate, listener, stop, signals, pool, tracing,
                       request, spans, exit>>
     \/ autoMigrate = "on" /\ Ends("failed")

NewServerHandler ==
  /\ main = "handler"
  /\ \/ /\ main' = "notify"
        /\ UNCHANGED <<autoMigrate, listener, stop, signals, pool, tables,
                       tracing, request, spans, exit>>
     \/ Ends("failed")

Notify ==
  /\ main = "notify"
  /\ main' = "listen"
  /\ UNCHANGED <<autoMigrate, listener, stop, signals, pool, tables, tracing,
                 request, spans, exit>>

GoListen ==
  /\ main = "listen"
  /\ main' = "waiting"
  /\ listener' = "starting"
  /\ UNCHANGED <<autoMigrate, stop, signals, pool, tables, tracing, request,
                 spans, exit>>

(***************************************************************************)
(* Signals.                                                                *)
(***************************************************************************)
Notified == main \in Serving \cup Deferred

\* A bug for the checks to find: a channel that takes every signal.
Buffered_All == stop + 1

\* The runtime does not block on the channel: a second signal is dropped.
Buffered == 1

Signal ==
  /\ signals < MaxSignals
  /\ main # "gone"
  /\ signals' = signals + 1
  /\ \/ Notified /\ stop' = Buffered /\ UNCHANGED <<main, listener, request, exit>>
     \/ ~Notified /\ stop' = stop /\ Gone("killed")
  /\ UNCHANGED <<autoMigrate, pool, tables, tracing, spans>>

(***************************************************************************)
(* The listening goroutine and the requests.                               *)
(***************************************************************************)
ShuttingDown == main \in {"draining"} \cup Deferred

\* ListenAndServe: ErrServerClosed once Shutdown has begun; else it serves,
\* or fails, for instance on a port in use, and the process exits.
Listen ==
  /\ listener = "starting"
  /\ \/ /\ listener' = IF ShuttingDown THEN "closed" ELSE "serving"
        /\ UNCHANGED <<autoMigrate, main, stop, signals, pool, tables, tracing,
                       request, spans, exit>>
     \/ ~ShuttingDown /\ Ends("failed")

\* Accept returns an error while nobody has asked for a shutdown.
ListenerFails ==
  /\ listener = "serving"
  /\ Ends("failed")

Step(r, from, to) == request[r] = from /\ request' = [request EXCEPT ![r] = to]

\* A client connects: the port is open or the connection is refused.
Send(r) ==
  /\ Step(r, "unsent", IF listener = "serving" THEN "sent" ELSE "refused")
  /\ UNCHANGED <<autoMigrate, main, listener, stop, signals, pool, tables,
                 tracing, spans, exit>>

\* The server reads the request; during a shutdown too, if it had accepted
\* the connection.
Accept(r) ==
  /\ main # "gone"
  /\ Step(r, "sent", "running")
  /\ UNCHANGED <<autoMigrate, main, listener, stop, signals, pool, tables,
                 tracing, spans, exit>>

\* A connection that has sent nothing for a while counts as idle: Shutdown
\* closes it, and with it whatever is on its way.
CloseIdle(r) ==
  /\ main = "draining"
  /\ Step(r, "sent", "refused")
  /\ UNCHANGED <<autoMigrate, main, listener, stop, signals, pool, tables,
                 tracing, spans, exit>>

\* The handler returns, with a result or an error, and its span ends; a
\* provider that has shut down does nothing with it.
Answer(r) ==
  /\ Step(r, "running", "answered")
  /\ spans' = IF tracing = "off" THEN spans ELSE spans \cup {r}
  /\ UNCHANGED <<autoMigrate, main, listener, stop, signals, pool, tables,
                 tracing, exit>>

\* The batcher exports what it holds, now and then.
Export ==
  /\ tracing = "on"
  /\ main # "gone"
  /\ spans # {}
  /\ spans' = {}
  /\ UNCHANGED <<autoMigrate, main, listener, stop, signals, pool, tables,
                 tracing, request, exit>>

(***************************************************************************)
(* Stopping.                                                               *)
(***************************************************************************)
ReceiveStop ==
  /\ main = "waiting"
  /\ stop = 1
  /\ main' = "stopping"
  /\ stop' = 0
  /\ UNCHANGED <<autoMigrate, listener, signals, pool, tables, tracing, request,
                 spans, exit>>

\* Shutdown closes the listener, and the goroutine returns without a word.
BeginShutdown ==
  /\ main = "stopping"
  /\ main' = "draining"
  /\ listener' = IF listener = "serving" THEN "closed" ELSE listener
  /\ UNCHANGED <<autoMigrate, stop, signals, pool, tables, tracing, request,
                 spans, exit>>

\* A bug for the checks to find: Close() in place of a Shutdown that waits.
Idle_Unchecked == TRUE

Idle == \A r \in Requests : request[r] \notin {"sent", "running"}

ShutdownReturns ==
  /\ main = "draining"
  /\ Idle
  /\ main' = "closing"
  /\ UNCHANGED <<autoMigrate, listener, stop, signals, pool, tables, tracing,
                 request, spans, exit>>

\* A bug for the checks to find: Shutdown under a context without a deadline.
Deadline_None == FALSE /\ Ends("forced")

\* Ten seconds have passed since Shutdown began.
Deadline ==
  /\ main = "draining"
  /\ Ends("forced")

\* defer pool.Close(): waits for the connections requests hold, and closes.
ClosePool ==
  /\ main = "closing"
  /\ pool' = "closed"
  /\ main' = IF tracing = "on" THEN "flushing" ELSE "returning"
  /\ UNCHANGED <<autoMigrate, listener, stop, signals, tables, tracing, request,
                 spans, exit>>

\* defer shutdownOTel: exports the spans, unless that takes five seconds.
Flush ==
  /\ main = "flushing"
  /\ main' = "returning"
  /\ \/ tracing' = "flushed" /\ spans' = {}
     \/ tracing' = "timedOut" /\ spans' = spans
  /\ UNCHANGED <<autoMigrate, listener, stop, signals, pool, tables, request,
                 exit>>

Return ==
  /\ main = "returning"
  /\ Ends("clean")

Stopping == ReceiveStop \/ BeginShutdown \/ ShutdownReturns \/ Deadline
              \/ ClosePool \/ Flush \/ Return

Next ==
  \/ InitTelemetry \/ ConnectPool \/ AutoMigrate \/ NewServerHandler
  \/ Notify \/ GoListen \/ Signal \/ Listen \/ ListenerFails \/ Export
  \/ \E r \in Requests :
       Send(r) \/ Accept(r) \/ CloseIdle(r) \/ Answer(r)
  \/ Stopping

\* main() is scheduled, and the ten seconds pass.  Nothing is assumed of the
\* database, which may keep a ping, a migration or a request waiting for ever,
\* nor of clients.
Spec == Init /\ [][Next]_vars /\ WF_vars(Notify) /\ WF_vars(GoListen) /\ WF_vars(Stopping)

(***************************************************************************)
(* What stopping may and may not cost.                                     *)
(***************************************************************************)
Accepted(r) == request[r] \in {"running", "answered", "cutOff"}

\* The pool is open for as long as a handler runs: the deferred Close comes
\* after Shutdown has seen every connection idle (main.go:90, :155).
PoolOutlivesRequests == \A r \in Requests : request[r] = "running" => pool = "open"

\* A process that ended by returning from main, or that a signal killed at
\* start-up, has answered every request it accepted; only the ten-second
\* deadline and a failing listener cut requests off (main.go:152-158).
CleanStopAnswersAll ==
  exit \in {"clean", "killed"} => \A r \in Requests : request[r] # "cutOff"

\* Every span of an answered request has been exported when the process ends
\* by returning from main and the collector took them in time; the deferred
\* calls run in the one order for which this is true (main.go:75-90).
CleanStopExportsAll == exit = "clean" /\ tracing = "flushed" => spans = {}

\* With AUTO_MIGRATE no request is ever served on the tables of an earlier
\* release (main.go:93-101).
ServesMigratedTables ==
  autoMigrate = "on" /\ (\E r \in Requests : Accepted(r)) => tables = "current"

\* Nothing is served on half a start-up, and nothing is lost by a clean stop.
OrderlyLife ==
  PoolOutlivesRequests /\ CleanStopAnswersAll /\ CleanStopExportsAll /\ ServesMigratedTables

\* After a signal the process ends, whatever the database or the requests
\* it is serving do (main.go:123-158).
SignalEndsIt == signals > 0 ~> main = "gone"
=============================================================================
