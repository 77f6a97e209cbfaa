------------------------------ MODULE IpcServer ------------------------------
(***************************************************************************)
(* The daemon's request handling: sony::core::IpcServer with its clients   *)
(* (IpcClient), over the endpoint of IpcEndpoint.                          *)
(*                                                                         *)
(* One daemon is modelled in full.  Its server thread polls: it accepts    *)
(* clients, reads one request line from each, queues it as a job, writes   *)
(* the result and closes; it also closes whoever misses a deadline, says   *)
(* more than one line or went away, and then marks the job cancelled.  Its *)
(* executor takes jobs in order, looks at the mark once, and ticks the     *)
(* service when the queue is empty.  stop() clears _running, cancels what  *)
(* the service is doing, notifies without the mutex and joins both.        *)
(*                                                                         *)
(* The other daemons only matter as owners of the endpoint.  A job is      *)
(* named by its client.  The events of one poll() are taken one by one and *)
(* in any order.                                                           *)
(***************************************************************************)
EXTENDS IpcEndpoint, Sequences, SequencesExt

CONSTANTS
  Clients,     \* connections, each with one request
  Self,        \* the daemon modelled in full
  MaxJobs,     \* 16: jobs that wait for the executor
  MaxClients   \* 16: connections open at a time

ASSUME ServerAssumption ==
  Self \in Daemons /\ MaxJobs \in Nat \ {0} /\ MaxClients \in Nat \ {0}

VARIABLES
  running,              \* _running
  server, executor,     \* the two threads
  current,              \* the job the executor holds
  jobs, cancelled,      \* _jobs, and the jobs marked cancelled
  result,               \* what a job's promise was set to
  slot,                 \* the server's end of each connection
  client, input,        \* the client's end, and what it sent and nobody read
  outcome,              \* what the client got to know
  performed             \* how often its command was executed

threadVars == <<running, server, executor, current>>
jobVars == <<jobs, cancelled, result>>
clientVars == <<slot, client, input, outcome, performed>>
vars == <<lock, path, inodes, starts, listening, phase, own, recorded, running, server, executor,
          current, jobs, cancelled, result, slot, client, input, outcome, performed>>

NoClient == "nobody"
Open == {c \in Clients : slot[c] \in {"reading", "waiting", "writing"}}

Init ==
  /\ EndpointInit
  /\ running = FALSE /\ server = "ended" /\ executor = "ended" /\ current = NoClient
  /\ jobs = <<>> /\ cancelled = {} /\ result = [c \in Clients |-> "none"]
  /\ slot = [c \in Clients |-> "none"]
  /\ client = [c \in Clients |-> "new"] /\ input = [c \in Clients |-> "none"]
  /\ outcome = [c \in Clients |-> "none"]
  /\ performed = [c \in Clients |-> 0]

----------------------------------------------------------------------------
(* The clients.                                                            *)

\* connect(): the connection waits in the backlog of the socket at the path.
ClientConnects(c) ==
  /\ client[c] = "new"
  /\ own[Self] \in listening /\ path = own[Self]
  /\ client' = [client EXCEPT ![c] = "open"]
  /\ slot' = [slot EXCEPT ![c] = "backlog"]
  /\ UNCHANGED <<endpointVars, threadVars, jobVars, input, outcome, performed>>

\* request() writes its line (a part of one that is read before its end changes
\* nothing); another program may go on.
ClientSends(c) ==
  /\ \/ client[c] = "open" /\ client' = [client EXCEPT ![c] = "sent"]
        /\ input' = [input EXCEPT ![c] = "line"]
     \/ client[c] = "sent" /\ client' = [client EXCEPT ![c] = "pipelined"]
        /\ input' = [input EXCEPT ![c] = "more"]
  /\ UNCHANGED <<endpointVars, threadVars, jobVars, slot, outcome, performed>>

\* Its own deadline passes, or it is killed: it closes the socket.
ClientLeaves(c) ==
  /\ client[c] \in {"open", "sent", "pipelined"}
  /\ client' = [client EXCEPT ![c] = "gone"]
  /\ UNCHANGED <<endpointVars, threadVars, jobVars, slot, input, outcome, performed>>

----------------------------------------------------------------------------
(* The server thread.                                                      *)

Polling == server = "polling" /\ running

\* A client of whom there are too many is closed at once.
Accept(c) ==
  /\ Polling /\ slot[c] = "backlog"
  /\ slot' = [slot EXCEPT ![c] = IF Cardinality(Open) >= MaxClients THEN "closed" ELSE "reading"]
  /\ outcome' = [outcome EXCEPT ![c] = IF slot'[c] = "closed" THEN "closed" ELSE @]
  /\ UNCHANGED <<endpointVars, threadVars, jobVars, client, input, performed>>

\* Closing a connection cancels its job.
Close(C) ==
  /\ slot' = [c \in Clients |-> IF c \in C THEN "closed" ELSE slot[c]]
  /\ outcome' = [c \in Clients |-> IF c \in C /\ outcome[c] = "none" THEN "closed" ELSE outcome[c]]
  /\ cancelled' = cancelled \cup {c \in C : slot[c] \in {"waiting", "writing"}}

HangsUp(c) ==
  /\ Polling /\ c \in Open
  /\ client[c] = "gone"
  /\ Close({c})
  /\ UNCHANGED <<endpointVars, threadVars, jobs, result, client, input, performed>>

\* Five seconds to send a line, thirty for the job, five to take the result.
WrongDeadline(c) ==
  /\ Polling /\ slot[c] = "waiting"
  /\ Close({c})
  /\ UNCHANGED <<endpointVars, threadVars, jobs, result, client, input, performed>>
Deadline(c) ==
  /\ Polling /\ c \in Open
  /\ Close({c})
  /\ UNCHANGED <<endpointVars, threadVars, jobs, result, client, input, performed>>

\* A job for the queue, or none when the queue is full.
WrongQueued(c) ==
  /\ jobs' = Append(jobs, c)
  /\ result' = [result EXCEPT ![c] = IF Len(jobs) >= MaxJobs THEN "busy" ELSE @]
Queued(c) ==
  IF Len(jobs) >= MaxJobs
  THEN result' = [result EXCEPT ![c] = "busy"] /\ UNCHANGED jobs
  ELSE jobs' = Append(jobs, c) /\ UNCHANGED result

\* notify_one() under the mutex wakes an executor that waits.
ReadLine(c) ==
  /\ Polling /\ slot[c] = "reading" /\ input[c] = "line"
  /\ Queued(c)
  /\ slot' = [slot EXCEPT ![c] = "waiting"]
  /\ input' = [input EXCEPT ![c] = "none"]
  /\ executor' = IF executor = "blocked" THEN "woken" ELSE executor
  /\ UNCHANGED <<endpointVars, running, server, current, cancelled, client, outcome, performed>>

\* More than one line, at once or after the job was made.
ReadTooMuch(c) ==
  /\ Polling /\ input[c] = "more" /\ slot[c] \in {"reading", "waiting"}
  /\ Close({c})
  /\ UNCHANGED <<endpointVars, threadVars, jobs, result, client, input, performed>>

TakeResult(c) ==
  /\ Polling /\ slot[c] = "waiting" /\ result[c] # "none"
  /\ slot' = [slot EXCEPT ![c] = "writing"]
  /\ UNCHANGED <<endpointVars, threadVars, jobVars, client, input, outcome, performed>>

\* The whole result is written: the client has it, unless it closed.
WriteResult(c) ==
  /\ Polling /\ slot[c] = "writing"
  /\ slot' = [slot EXCEPT ![c] = "closed"]
  /\ outcome' = [outcome EXCEPT ![c] = IF client[c] = "gone" THEN "closed" ELSE result[c]]
  /\ cancelled' = cancelled \cup {c}
  /\ UNCHANGED <<endpointVars, threadVars, jobs, result, client, input, performed>>

\* The loop ends with _running, or at a failing poll(); it closes its clients.
ServerEnds ==
  /\ server = "polling"
  /\ server' = "ended"
  /\ Close(Open)
  /\ UNCHANGED <<endpointVars, running, executor, current, jobs, result, client, input, performed>>
PollFails == running /\ ServerEnds
ServerStops == ~running /\ ServerEnds

----------------------------------------------------------------------------
(* The executor.                                                           *)

Executor(from, to) == executor = from /\ executor' = to
QuietExecutor == UNCHANGED <<endpointVars, running, server, clientVars>>

\* The predicate of wait_for(), and _running once more after it.
Pop ==
  /\ executor \in {"top", "woken"}
  /\ IF ~running THEN executor' = "ended" /\ UNCHANGED <<jobs, current>>
     ELSE IF jobs # <<>> THEN /\ executor' = "picked" /\ jobs' = Tail(jobs) /\ current' = Head(jobs)
     ELSE executor' = (IF executor = "top" THEN "parking" ELSE "deciding")
          /\ UNCHANGED <<jobs, current>>
  /\ UNCHANGED <<cancelled, result>> /\ QuietExecutor

\* Blocking gives the mutex back: stop() may notify between the predicate and here.
Block == /\ executor = "parking"
         /\ executor' = IF jobs # <<>> THEN "woken" ELSE "blocked"
         /\ UNCHANGED <<current, jobVars>> /\ QuietExecutor

WrongWakeUp == /\ Executor("blocked", "woken") /\ jobs # <<>>
               /\ UNCHANGED <<current, jobVars>> /\ QuietExecutor
WakeUp == /\ Executor("blocked", "woken")      \* after 100 ms
          /\ UNCHANGED <<current, jobVars>> /\ QuietExecutor

\* The mark is read once; what comes after it does not stop the command.
Perform ==
  /\ executor = "picked"
  /\ IF current \in cancelled
     THEN executor' = "deciding" /\ UNCHANGED performed
     ELSE executor' = "performing" /\ performed' = [performed EXCEPT ![current] = @ + 1]
  /\ UNCHANGED <<endpointVars, running, server, current, jobVars, slot, client, input, outcome>>

SetResult ==
  /\ Executor("performing", "deciding")
  /\ result' = [result EXCEPT ![current] = "ok"]
  /\ current' = NoClient
  /\ UNCHANGED <<jobs, cancelled>> /\ QuietExecutor

\* tick(), unless more work is waiting.
WrongIdle == current # NoClient /\ jobs = <<>>
Idle == jobs = <<>>
Decide ==
  /\ executor = "deciding"
  /\ executor' = IF running /\ Idle THEN "ticking" ELSE "top"
  /\ current' = NoClient
  /\ UNCHANGED jobVars /\ QuietExecutor

Ticked == /\ Executor("ticking", "top")
          /\ UNCHANGED <<current, jobVars>> /\ QuietExecutor

----------------------------------------------------------------------------
(* The owner: main() of sonyd.                                             *)

\* Both threads start when listen() has succeeded.
StartSelf ==
  /\ Listen(Self)
  /\ IF phase'[Self] = "running"
     THEN /\ running' = TRUE /\ server' = "polling" /\ executor' = "top" /\ jobs' = <<>>
          /\ UNCHANGED current
     ELSE UNCHANGED <<threadVars, jobs>>
  /\ UNCHANGED <<cancelled, result, clientVars>>

BeginStop ==
  /\ Serving(Self) /\ running
  /\ running' = FALSE
  /\ Goto(Self, "notifying")
  /\ UNCHANGED <<lock, path, inodes, starts, listening, own, recorded, server, executor, current,
                 jobVars, clientVars>>

Notify ==
  /\ phase[Self] = "notifying"
  /\ executor' = IF executor = "blocked" THEN "woken" ELSE executor
  /\ Goto(Self, "joining")
  /\ UNCHANGED <<lock, path, inodes, starts, listening, own, recorded, running, server, current,
                 jobVars, clientVars>>

Join ==
  /\ phase[Self] = "joining" /\ server = "ended" /\ executor = "ended"
  /\ Goto(Self, "stopped")
  /\ UNCHANGED <<lock, path, inodes, starts, listening, own, recorded, threadVars, jobVars, clientVars>>

\* A socket that is closed drops its backlog.
Dropped(c) == slot[c] = "backlog" /\ own'[Self] = NoFile
Backlog ==
  /\ slot' = [c \in Clients |-> IF Dropped(c) THEN "closed" ELSE slot[c]]
  /\ outcome' = [c \in Clients |-> IF Dropped(c) THEN "closed" ELSE outcome[c]]

OwnerStep ==
  \/ StartSelf \/ BeginStop \/ Notify \/ Join
  \/ EndpointStep(Self) /\ phase[Self] # "recorded" /\ Backlog
     /\ UNCHANGED <<threadVars, jobVars, client, input, performed>>

KilledSelf ==
  /\ Killed(Self)
  /\ running' = FALSE /\ server' = "ended" /\ executor' = "ended" /\ current' = NoClient
  /\ jobs' = <<>>
  /\ slot' = [c \in Clients |-> IF slot[c] = "none" THEN "none" ELSE "closed"]
  /\ outcome' = [c \in Clients |-> IF slot[c] # "none" /\ outcome[c] = "none"
                                   THEN "closed" ELSE outcome[c]]
  /\ UNCHANGED <<cancelled, result, client, input, performed>>

\* Another daemon has its own clients; of it only the endpoint is modelled.
Stops(d) == /\ Serving(d) /\ Goto(d, "stopped")
            /\ UNCHANGED <<lock, path, inodes, starts, listening, own, recorded>>
OtherStep(d) ==
  /\ d # Self
  /\ EndpointStep(d) \/ Killed(d) \/ Stops(d)
  /\ UNCHANGED <<threadVars, jobVars, clientVars>>

----------------------------------------------------------------------------
ServerStep(c) == \/ Accept(c) \/ HangsUp(c) \/ ReadLine(c) \/ ReadTooMuch(c)
                 \/ TakeResult(c) \/ WriteResult(c)
ExecutorStep == Pop \/ Block \/ WakeUp \/ Perform \/ SetResult \/ Decide \/ Ticked
ClientStep(c) == ClientConnects(c) \/ ClientSends(c) \/ ClientLeaves(c)

Next ==
  \/ \E c \in Clients : ClientStep(c) \/ ServerStep(c) \/ Deadline(c)
  \/ PollFails \/ ServerStops
  \/ ExecutorStep \/ OwnerStep \/ KilledSelf
  \/ \E d \in Daemons : OtherStep(d)
  \/ OlderEnds /\ UNCHANGED <<threadVars, jobVars, clientVars>>

Spec == Init /\ [][Next]_vars

\* Both threads run, a call of the service ends (its waits have deadlines), and
\* the clock goes on; nobody is obliged to start, stop or connect.
Fairness ==
  /\ WF_vars(ServerStops \/ \E c \in Clients : Deadline(c))
  /\ WF_vars(ExecutorStep)
  /\ WF_vars(Notify \/ Join)
FairSpec == Spec /\ Fairness

----------------------------------------------------------------------------
(* Properties.                                                             *)

\* The queue and the connections keep their bounds; the rest has its type.
TypeOK ==
  /\ lock \in Daemons \cup {Nobody}
  /\ path \in 0 .. inodes /\ inodes \in 1 .. starts + 1
  /\ listening \subseteq 1 .. inodes
  /\ own \in [Daemons -> 0 .. inodes] /\ recorded \in [Daemons -> 0 .. inodes]
  /\ running \in BOOLEAN /\ server \in {"polling", "ended"}
  /\ executor \in {"top", "parking", "blocked", "woken", "picked", "performing", "deciding",
                   "ticking", "ended"}
  /\ Len(jobs) <= MaxJobs /\ IsInjective(jobs)
  /\ Cardinality(Open) <= MaxClients
  /\ result \in [Clients -> {"none", "ok", "busy"}]
  /\ outcome \in [Clients -> {"none", "ok", "busy", "closed"}]

\* A client that was told "ok" had its command executed once, one that was told
\* "busy" not at all, and in no case is a command executed twice.
OutcomeIsTrue ==
  \A c \in Clients :
    /\ performed[c] <= 1
    /\ outcome[c] = "ok" => performed[c] = 1
    /\ outcome[c] = "busy" => performed[c] = 0

\* A daemon that serves listens at the path: nobody removes or replaces another's
\* socket, and no two serve.
Reachable ==
  \A d \in Daemons : Serving(d) =>
    /\ path = own[d] /\ own[d] \in listening
    /\ \A e \in Daemons \ {d} : ~Serving(e)

\* Whatever a client does or fails to do, its connection is closed in the end.
ConnectionsEnd == \A c \in Clients : []<>(c \notin Open)

\* A daemon that goes on serving goes on ticking: what the service's own
\* liveness assumes of its executor.
Ticks == <>[]running => []<>(executor = "ticking")

\* stop() joins both threads, whatever they are doing and whoever is connected.
StopReturns == []<>(phase[Self] \notin {"notifying", "joining"})

=============================================================================
