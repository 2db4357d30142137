------------------------------ MODULE ServeProcess -----------------------------
(***************************************************************************)
(* The process of `wats serve`: it opens and migrates its store before it  *)
(* binds its port, each request works on the store, and a signal stops the *)
(* server, drains it, closes the store and exits, each within a limit of   *)
(* its own.  The other user of a store is a program that embeds the        *)
(* package and calls and closes it as it likes ("library").                *)
(***************************************************************************)
EXTENDS StoreConnection

CONSTANT Shutdown   \* the call of close() that the process makes

ASSUME ServeProcessAssumption == Shutdown \in Closer

VARIABLES
  phase,    \* where the process stands
  client,   \* what the client of a request sees; a request has one operation on the store
  ending    \* how the process came to its exit

processVars == <<phase, client, ending>>
serveVars == <<vars, processVars>>

ServeTypeOK ==
  /\ TypeOK
  /\ phase \in {"library", "starting", "failing", "serving", "draining", "closing", "exited"}
  /\ client \in [Op -> {"none", "open", "answered", "dropped"}]
  /\ ending \in {"none", "failed", "drained", "dropped", "closeTimedOut", "signalled"}

ServeInit ==
  /\ Init
  /\ phase \in {"library", "starting"}
  /\ client = [c \in Op |-> "none"]
  /\ ending = "none"

\* serveCommand() binds the port; or migrate(), the runtime or the bind fails, and the
\* store it has opened is closed before the command returns.
Bind ==
  /\ phase = "starting" /\ phase' = "serving"
  /\ UNCHANGED <<vars, client, ending>>

StartFails ==
  /\ phase = "starting" /\ phase' = "failing"
  /\ CallClose(Shutdown)
  /\ ending' = "failed"
  /\ UNCHANGED client

\* A request is accepted, calls the store and is answered when its call has settled; its
\* handler goes on although its connection was dropped.
Arrive(c) ==
  /\ phase = "serving" /\ client[c] = "none"
  /\ client' = [client EXCEPT ![c] = "open"]
  /\ UNCHANGED <<vars, phase, ending>>

Handle(c) ==
  /\ client[c] \in {"open", "dropped"}
  /\ Call(c) \/ CallRefused(c)
  /\ UNCHANGED processVars

Respond(c) ==
  /\ client[c] = "open" /\ stage[c] = "settled"
  /\ client' = [client EXCEPT ![c] = "answered"]
  /\ UNCHANGED <<vars, phase, ending>>

\* The first signal: server.stop(false).
Signal ==
  /\ phase = "serving" /\ phase' = "draining"
  /\ UNCHANGED <<vars, client, ending>>

NoneOpen == \A c \in Op : client[c] # "open"

\* Slip: the store is closed while the server drains.
CloseAtOnce ==
  /\ phase = "draining" /\ phase' = "closing"
  /\ CallClose(Shutdown)
  /\ ending' = "drained"
  /\ UNCHANGED client

\* No request is pending: server.stop(true) has nothing to drop, store.close().
Drained ==
  /\ phase = "draining" /\ NoneOpen
  /\ phase' = "closing"
  /\ CallClose(Shutdown)
  /\ ending' = "drained"
  /\ UNCHANGED client

\* Slip: what is open is dropped, but its drain is awaited all the same.
DeadlineAwaitsDrain ==
  /\ phase = "draining"
  /\ CallClose(Shutdown)
  /\ client' = [c \in Op |-> IF client[c] = "open" THEN "dropped" ELSE client[c]]
  /\ UNCHANGED <<phase, ending>>

\* The deadline passes first: server.stop(true) drops what is open.
Deadline ==
  /\ phase = "draining"
  /\ phase' = "closing"
  /\ CallClose(Shutdown)
  /\ client' = [c \in Op |-> IF client[c] = "open" THEN "dropped" ELSE client[c]]
  /\ ending' = IF NoneOpen THEN "drained" ELSE "dropped"

\* The process ends, and with it its connection: the query under way may still be executed.
Exit ==
  /\ phase' = "exited"
  /\ Break
  /\ \/ UNCHANGED <<work, kept>>
     \/ /\ \E c \in Op : stage[c] = "committing"
        /\ Up
        /\ kept' = [d \in Op |-> kept[d] + pending[d]]
        /\ UNCHANGED work
     \/ \E c \in Op :
          /\ AtWork(c) /\ Up /\ ~ tx /\ work[c] < MaxWork
          /\ kept' = [kept EXCEPT ![c] = @ + 1]
          /\ work' = [work EXCEPT ![c] = @ + 1]
  /\ UNCHANGED <<storeVars, chain, stage, result, ended, faults, client>>

\* close() has settled, with an error or not.
Leave ==
  /\ phase \in {"closing", "failing"} /\ stage[Shutdown] = "settled"
  /\ Exit
  /\ UNCHANGED ending

\* close() is given up: its timeout wins the race.
CloseTimesOut ==
  /\ phase = "closing" /\ stage[Shutdown] # "settled"
  /\ Exit
  /\ ending' = "closeTimedOut"

\* A second signal finds `stopped` set and calls process.exit() at once.
SignalAgain ==
  /\ phase \in {"draining", "closing"}
  /\ Exit
  /\ ending' = "signalled"

\* The store at work while the process lives.
StoreStep(c) == Answered(c) \/ Refuse(c) \/ Lose(c) \/ EndFails(c)

StoreWorks ==
  /\ phase \notin {"library", "exited"}
  /\ (\E c \in Caller : StoreStep(c)) \/ LoseIdle
  /\ UNCHANGED processVars

Embedded == phase = "library" /\ Next /\ UNCHANGED processVars

Gone == phase = "exited" /\ UNCHANGED serveVars

ServeNext ==
  \/ Bind \/ StartFails
  \/ \E c \in Op : Arrive(c) \/ (phase # "exited" /\ (Handle(c) \/ Respond(c)))
  \/ Signal \/ Drained \/ Deadline \/ Leave \/ CloseTimesOut \/ SignalAgain
  \/ StoreWorks
  \/ Embedded
  \/ Gone

\* Timers fire and a settled close() is noticed, by weak fairness of the three actions, each
\* with its guard written out; no query of the process need be answered, while the embedding
\* program's are.
DeadlineFires ==
  []<>~(phase = "draining" /\ stage[Shutdown] = "idle") \/ []<><<Deadline>>_serveVars

LeaveFires ==
  []<>~(phase \in {"closing", "failing"} /\ stage[Shutdown] = "settled") \/ []<><<Leave>>_serveVars

TimeoutFires ==
  []<>~(phase = "closing" /\ stage[Shutdown] # "settled") \/ []<><<CloseTimesOut>>_serveVars

ServeFairness ==
  /\ DeadlineFires /\ LeaveFires /\ TimeoutFires
  /\ \A c \in Caller : WF_serveVars(Embedded /\ Answered(c))

ServeSpec == ServeInit /\ [][ServeNext]_serveVars
FairServeSpec == ServeSpec /\ ServeFairness

----------------------------------------------------------------------------
(* Safety. *)

\* A shutdown that was neither given up nor hurried has answered every request it had
\* accepted and closed the store, and a start that failed leaves no store open either
\* (serve-shutdown.ts; serveCommand's failure paths).
GracefulMeansAll ==
  phase = "exited" =>
    /\ ending = "drained" => closed /\ \A c \in Op : client[c] \in {"none", "answered"}
    /\ ending = "failed" => closed /\ \A c \in Op : client[c] = "none"

\* No client is answered that the store was closed: the store is closed after the server
\* has let go of every request.
NoAnswerFromAClosedStore ==
  \A c \in Op : client[c] = "answered" => result[c] # "refused"

\* Types, and a shutdown that cuts nobody off.
NobodyIsCutOff == ServeTypeOK /\ GracefulMeansAll /\ NoAnswerFromAClosedStore

\* What a client was told has been done is durable, also after an exit that left queries
\* under way; and of a transaction that such an exit interrupts all is kept, or nothing.
ExitKeepsPromises ==
  phase # "library" => \A c \in Op :
    /\ client[c] = "answered" /\ result[c] = "ok" => kept[c] = work[c]
    /\ c \in TxOp => kept[c] \in {0, work[c]}

(* Liveness. *)

\* A shutdown ends in an exit whatever hangs: requests, their queries, close().
ShutdownEnds == phase = "draining" ~> phase = "exited"

\* Every call that an embedding program has made settles.
EmbeddedCallsSettle ==
  \A c \in Caller : (phase = "library" /\ stage[c] = "waiting") ~> stage[c] = "settled"

(* Refuted. *)

\* `wats serve --help`: "Repeated shutdown signals await the same in-flight drain
\* (idempotent)": the process leaves when its shutdown has settled or run out of time.
RepeatedSignalsAwaitTheDrain == phase = "exited" => ending # "signalled"
=============================================================================
