------------------------------ MODULE AccessLog ------------------------------
(***************************************************************************)
(* The access log: Logger.Log runs the json-http backend                   *)
(* (pkg/logging/jsonhttp.go) and the collector under the logger's mutex,   *)
(* while the backend's own goroutine takes batches and posts them, until   *)
(* Close at shutdown or the end of the process.                            *)
(***************************************************************************)
EXTENDS Collector

CONSTANTS
    Workers,      \* goroutines that log
    MaxEntries,   \* bound on the log
    Kinds,        \* per goroutine: the kinds of entries it logs
    batchSize,
    None

ASSUME LogAssumption ==
    /\ MaxEntries \in Nat /\ batchSize \in Nat \ {0}
    /\ Kinds \in [Workers -> SUBSET {"ok", "dns-block", "other"}]
    /\ None \notin Workers /\ "main" \notin Workers

VARIABLES
    mu,        \* who holds Logger.mu: a worker, "main" inside Close, or None
    wpc, went, \* per worker: program counter, the entry it is logging
    length,    \* entries logged so far, which numbers them
    buf,       \* the backend's buffer: numbers of entries
    token,     \* whether the flush channel holds its signal
    rpc, batch, final, \* the backend's goroutine: program counter, what it posts, on its way out
    stopCh,    \* whether Close has closed it
    dead,      \* the process has ended
    posted, failed, \* history: entries whose POST was answered; whose POST failed
    before     \* history: entries logged before Close was called

backendVars == <<rpc, batch, final, stopCh, dead, posted, failed, before>>
logVars == <<mu, wpc, went, length, buf, token, backendVars>>
vars == <<collectorVars, logVars>>

Entries == 1..MaxEntries

TypeOK ==
    /\ CollectorTypeOK
    /\ mu \in Workers \cup {"main", None}
    /\ wpc \in [Workers -> {"idle", "busy", "signal", "observe"}]
    /\ went \in [Workers -> Entry \cup {None}]
    /\ length \in 0..MaxEntries
    /\ buf \in Seq(Entries) /\ batch \subseteq Entries
    /\ token \in BOOLEAN /\ final \in BOOLEAN /\ stopCh \in BOOLEAN /\ dead \in BOOLEAN
    /\ rpc \in {"select", "post", "report", "return", "done"}
    /\ posted \subseteq Entries /\ failed \subseteq Entries /\ before \subseteq Entries

Init ==
    /\ CollectorInit
    /\ mu = None
    /\ wpc = [w \in Workers |-> "idle"] /\ went = [w \in Workers |-> None]
    /\ length = 0 /\ buf = <<>> /\ token = FALSE
    /\ rpc = "select" /\ batch = {} /\ final = FALSE /\ stopCh = FALSE /\ dead = FALSE
    /\ posted = {} /\ failed = {} /\ before = {}

-----------------------------------------------------------------------------
(* Logger.Log.                                                             *)

\* A request begins; every entry it logs will carry this time.
Begin(w, kind) ==
    /\ wpc[w] = "idle" /\ length < MaxEntries
    /\ wpc' = [wpc EXCEPT ![w] = "busy"]
    /\ went' = [went EXCEPT ![w] = [id |-> 0, ts |-> now, kind |-> kind]]
    /\ UNCHANGED <<collectorVars, mu, length, buf, token, backendVars>>

\* The backend's part of Log: the buffer is extended, and a full one signalled.
Extend(w) ==
    /\ wpc[w] = "busy" /\ mu = None /\ length < MaxEntries
    /\ length' = length + 1
    /\ buf' = Append(buf, length')
    /\ went' = [went EXCEPT ![w].id = length']
    /\ wpc' = [wpc EXCEPT ![w] = IF Len(buf') >= batchSize THEN "signal" ELSE "observe"]

\* Fault: the mutex does not cover the observers.
LogBriefly(w) ==
    /\ Extend(w)
    /\ UNCHANGED <<collectorVars, mu, token, backendVars>>

\* The mutex is taken, and held until the observers have run.
Log(w) ==
    /\ Extend(w)
    /\ mu' = w
    /\ UNCHANGED <<collectorVars, token, backendVars>>

\* Fault: the signal is lost unless the goroutine is waiting for it.
SignalUnbuffered(w) ==
    /\ wpc[w] = "signal"
    /\ token' = (token \/ rpc = "select")
    /\ wpc' = [wpc EXCEPT ![w] = "observe"]
    /\ UNCHANGED <<collectorVars, mu, went, length, buf, backendVars>>

Signal(w) ==
    /\ wpc[w] = "signal"
    /\ token' = TRUE
    /\ wpc' = [wpc EXCEPT ![w] = "observe"]
    /\ UNCHANGED <<collectorVars, mu, went, length, buf, backendVars>>

\* The observers run, and Log returns: the request is over, or it is a tunnel's, which
\* logs more than one entry ("mitm_passthrough", "open", "close").
Return(w) ==
    /\ wpc[w] = "observe"
    /\ Observe(went[w])
    /\ mu' = IF mu = w THEN None ELSE mu
    /\ \/ wpc' = [wpc EXCEPT ![w] = "idle"] /\ went' = [went EXCEPT ![w] = None]
       \/ /\ went[w].kind = "ok"
          /\ wpc' = [wpc EXCEPT ![w] = "busy"] /\ went' = [went EXCEPT ![w].id = 0]
    /\ UNCHANGED <<length, buf, token, backendVars>>

-----------------------------------------------------------------------------
(* The backend's goroutine.                                                *)

\* Fault: the buffer is not emptied with the batch.
TakeKeeps == batch' = ToSet(buf) /\ UNCHANGED buf

TakeBatch == batch' = ToSet(buf) /\ buf' = <<>>

\* doFlush up to the POST; with an empty buffer it returns at once, to l.
StartFlush(l) ==
    IF buf = <<>> THEN rpc' = l /\ UNCHANGED <<buf, batch>> ELSE TakeBatch /\ rpc' = "post"

RunTick ==
    /\ rpc = "select" /\ buf # <<>>
    /\ TakeBatch /\ rpc' = "post"
    /\ UNCHANGED <<collectorVars, mu, wpc, went, length, token, final, stopCh, dead, posted, failed, before>>

RunSignal ==
    /\ rpc = "select" /\ token
    /\ token' = FALSE
    /\ StartFlush("select")
    /\ UNCHANGED <<collectorVars, mu, wpc, went, length, final, stopCh, dead, posted, failed, before>>

\* Fault: the goroutine just returns.
StopWithoutFlush ==
    /\ rpc = "select" /\ stopCh
    /\ rpc' = "return"
    /\ UNCHANGED <<collectorVars, mu, wpc, went, length, buf, token, batch, final, stopCh, dead, posted, failed, before>>

RunStop ==
    /\ rpc = "select" /\ stopCh
    /\ final' = TRUE
    /\ StartFlush("return")
    /\ UNCHANGED <<collectorVars, mu, wpc, went, length, token, stopCh, dead, posted, failed, before>>

AfterFlush == IF final THEN "return" ELSE "select"

\* The POST ends within the client's timeout: with an answer, whatever its status,
\* or with an error.
Post ==
    /\ rpc = "post"
    /\ batch' = {}
    /\ \/ posted' = posted \cup batch /\ rpc' = AfterFlush /\ UNCHANGED failed
       \/ failed' = failed \cup batch /\ rpc' = "report" /\ UNCHANGED posted
    /\ UNCHANGED <<collectorVars, mu, wpc, went, length, buf, token, final, stopCh, dead, before>>

\* Fault: the failure is reported through the logger.
ReportLogged ==
    /\ rpc = "report" /\ mu = None
    /\ rpc' = AfterFlush
    /\ UNCHANGED <<collectorVars, mu, wpc, went, length, buf, token, batch, final, stopCh, dead, posted, failed, before>>

\* A failed post is reported on standard error and its batch forgotten.
Report ==
    /\ rpc = "report"
    /\ rpc' = AfterFlush
    /\ UNCHANGED <<collectorVars, mu, wpc, went, length, buf, token, batch, final, stopCh, dead, posted, failed, before>>

\* run returns, closing done.
RunReturns ==
    /\ rpc = "return"
    /\ rpc' = "done"
    /\ UNCHANGED <<collectorVars, mu, wpc, went, length, buf, token, batch, final, stopCh, dead, posted, failed, before>>

-----------------------------------------------------------------------------
(* Shutdown.                                                               *)

\* Logger.Close takes the mutex and tells the backend to stop...
CloseBegins ==
    /\ mu = None /\ ~stopCh
    /\ mu' = "main" /\ stopCh' = TRUE
    /\ before' = 1..length
    /\ UNCHANGED <<collectorVars, wpc, went, length, buf, token, rpc, batch, final, dead, posted, failed>>

\* ... and returns when its goroutine has.
CloseReturns ==
    /\ mu = "main" /\ rpc = "done"
    /\ mu' = None
    /\ UNCHANGED <<collectorVars, wpc, went, length, buf, token, backendVars>>

\* Fatalf's os.Exit, a crash, or main returning: memory is gone.
Exit ==
    /\ dead' = TRUE
    /\ CollectorGone
    /\ mu' = None /\ token' = FALSE /\ final' = FALSE
    /\ wpc' = [w \in Workers |-> "idle"] /\ went' = [w \in Workers |-> None]
    /\ UNCHANGED <<length, buf, rpc, batch, stopCh, posted, failed, before>>

Run == RunTick \/ RunSignal \/ RunStop \/ Post \/ Report \/ RunReturns

Next ==
    /\ ~dead
    /\ \/ \E w \in Workers : (\E kind \in Kinds[w] : Begin(w, kind)) \/ Log(w) \/ Signal(w) \/ Return(w)
       \/ Run
       \/ CollectorNext /\ UNCHANGED logVars
       \/ CloseBegins \/ CloseReturns \/ Exit

Fairness == WF_vars(~dead /\ Run) /\ WF_vars(~dead /\ CloseReturns)

Spec == Init /\ [][Next]_vars /\ Fairness

-----------------------------------------------------------------------------
(* Properties.                                                             *)

\* When the goroutine is back at its select with a batch's worth buffered, the
\* signal that makes it flush at once is there or about to be: none was missed
\* while it was posting.
NoMissedSignal ==
    Len(buf) >= batchSize /\ rpc = "select" /\ ~stopCh /\ ~dead =>
        token \/ \E w \in Workers : wpc[w] = "signal"

\* When Close has returned, every entry logged before it was called has been
\* posted, or its post has failed; none is still in the buffer.
CloseFlushes == rpc = "done" => before \subseteq posted \cup failed

\* Close returns, although it holds the logger's mutex while it waits for the
\* backend and posts may fail.
CloseEnds == mu = "main" ~> mu # "main" \/ dead

\* Every entry is posted at most once, is lost only with a failed post, with the
\* process or after Close, and does not stay in the buffer.
Queue == INSTANCE LossyQueue WITH
    Items <- Entries,
    Capacity <- MaxEntries,
    accepted <- 1..length,
    delivered <- posted,
    lost <- failed \cup (IF dead \/ rpc = "done" THEN batch \cup ToSet(buf) ELSE {}),
    down <- (dead \/ rpc \in {"report", "done"})
EntriesAccountedFor == Queue!Spec
=============================================================================
