--------------------------- MODULE IpcServerProofs ---------------------------
(***************************************************************************)
(* A daemon that serves is found at its path, for any number of daemons,   *)
(* starts, kills and clients (Reachable of IpcServer); what a client is    *)
(* told is true, and queue and connections keep their bounds               *)
(* (OutcomeIsTrue and TypeOK).                                             *)
(***************************************************************************)
EXTENDS IpcServer, SequenceTheorems, FiniteSetTheorems, TLAPS

(***************************************************************************)
(* The path: whoever is past the lock file holds the lock; so does whoever *)
(* has a socket or remembers one.  Only the holder binds, and only it      *)
(* unlinks, each time a file it knows: at RemoveStale nobody listens, at   *)
(* Unlink the file is its own.  An older daemon, which takes no lock,      *)
(* keeps everybody before RemoveStale as long as it listens.               *)
(***************************************************************************)
Bound == {"bound", "recorded", "running", "notifying", "joining"}
Listening == {"running", "notifying", "joining"}
Past == {"free", "removed"} \cup Bound
Locked == {"locked", "unlinking"} \cup Past
Phases == {"down", "stopped", "closed", "unlinked"} \cup Locked

EndpointType ==
  /\ lock \in Daemons \cup {Nobody}
  /\ path \in Nat /\ inodes \in Nat \ {0}
  /\ phase \in [Daemons -> Phases]
  /\ own \in [Daemons -> Nat \ {OlderSocket}] /\ recorded \in [Daemons -> Nat \ {OlderSocket}]

HolderOnly == \A d \in Daemons :
  phase[d] \in Locked \/ own[d] # NoFile \/ recorded[d] # NoFile => lock = d
AtThePath == \A d \in Daemons : phase[d] \in Bound => path = own[d] /\ own[d] # NoFile
Listens == \A d \in Daemons : phase[d] \in Listening => own[d] \in listening
OwnFileOnly == \A d \in Daemons : phase[d] = "unlinking" => path = recorded[d] /\ recorded[d] # NoFile
Closed == \A d \in Daemons :
  phase[d] \in {"down", "closed", "unlinking", "unlinked"} => own[d] = NoFile
OlderFirst ==
  OlderSocket \in listening => path = OlderSocket /\ \A d \in Daemons : phase[d] \notin Past

EndpointInv ==
  EndpointType /\ HolderOnly /\ AtThePath /\ Listens /\ OwnFileOnly /\ Closed /\ OlderFirst

USE DEF NoFile, OlderSocket

----------------------------------------------------------------------------
(* The steps of start().                                                   *)

LEMMA InitEndpoint == EndpointInit => EndpointInv
<1> SUFFICES ASSUME EndpointInit PROVE EndpointInv
  OBVIOUS
<1>1. EndpointType
  BY DEF EndpointInit, EndpointType, Phases
<1>2. HolderOnly /\ AtThePath /\ Listens /\ OwnFileOnly /\ Closed
  BY DEF EndpointInit, HolderOnly, AtThePath, Listens, OwnFileOnly, Closed, Locked, Past, Bound,
         Listening
<1>3. OlderFirst
  BY DEF EndpointInit, OlderFirst, Past, Bound
<1> QED
  BY <1>1, <1>2, <1>3 DEF EndpointInv

LEMMA LockFileKeeps == ASSUME NEW d \in Daemons, EndpointInv, LockFile(d) PROVE EndpointInv'
<1> USE EndpointAssumption DEF EndpointInv, LockFile, Goto, EndpointType, Phases, Locked, Past,
       Bound, Listening
<1>1. EndpointType'
  BY DEF EndpointType
<1>2. HolderOnly'
  BY DEF HolderOnly, Closed
<1>3. AtThePath'
  BY DEF AtThePath, HolderOnly
<1>4. Listens'
  BY DEF Listens, AtThePath, HolderOnly
<1>5. OwnFileOnly'
  BY DEF OwnFileOnly, HolderOnly
<1>6. Closed'
  BY DEF Closed
<1>7. OlderFirst'
  BY DEF OlderFirst, AtThePath, OwnFileOnly
<1> QED
  BY <1>1, <1>2, <1>3, <1>4, <1>5, <1>6, <1>7

LEMMA ProbeKeeps == ASSUME NEW d \in Daemons, EndpointInv, Probe(d) PROVE EndpointInv'
<1> USE EndpointAssumption DEF EndpointInv, Probe, Goto, EndpointType, Phases, Locked, Past,
       Bound, Listening
<1>1. EndpointType'
  BY DEF EndpointType
<1>2. HolderOnly'
  BY DEF HolderOnly, Closed
<1>3. AtThePath'
  BY DEF AtThePath, HolderOnly
<1>4. Listens'
  BY DEF Listens, AtThePath, HolderOnly
<1>5. OwnFileOnly'
  BY DEF OwnFileOnly, HolderOnly
<1>6. Closed'
  BY DEF Closed
<1>7. OlderFirst'
  BY DEF OlderFirst, AtThePath, OwnFileOnly
<1> QED
  BY <1>1, <1>2, <1>3, <1>4, <1>5, <1>6, <1>7

LEMMA RemoveStaleKeeps == ASSUME NEW d \in Daemons, EndpointInv, RemoveStale(d) PROVE EndpointInv'
<1> USE EndpointAssumption DEF EndpointInv, RemoveStale, Goto, EndpointType, Phases, Locked, Past,
       Bound, Listening
<1>1. EndpointType'
  BY DEF EndpointType
<1>2. HolderOnly'
  BY DEF HolderOnly, Closed
<1>3. AtThePath'
  BY DEF AtThePath, HolderOnly
<1>4. Listens'
  BY DEF Listens, AtThePath, HolderOnly
<1>5. OwnFileOnly'
  BY DEF OwnFileOnly, HolderOnly
<1>6. Closed'
  BY DEF Closed
<1>7. OlderFirst'
  BY DEF OlderFirst, AtThePath, OwnFileOnly
<1> QED
  BY <1>1, <1>2, <1>3, <1>4, <1>5, <1>6, <1>7

LEMMA BindKeeps == ASSUME NEW d \in Daemons, EndpointInv, Bind(d) PROVE EndpointInv'
<1> USE EndpointAssumption DEF EndpointInv, Bind, Goto, EndpointType, Phases, Locked, Past,
       Bound, Listening
<1>1. EndpointType'
  BY DEF EndpointType
<1>2. HolderOnly'
  BY DEF HolderOnly, Closed
<1>3. AtThePath'
  BY DEF AtThePath, HolderOnly
<1>4. Listens'
  BY DEF Listens, AtThePath, HolderOnly
<1>5. OwnFileOnly'
  BY DEF OwnFileOnly, HolderOnly
<1>6. Closed'
  BY DEF Closed
<1>7. OlderFirst'
  BY DEF OlderFirst, AtThePath, OwnFileOnly
<1> QED
  BY <1>1, <1>2, <1>3, <1>4, <1>5, <1>6, <1>7

LEMMA RecordKeeps == ASSUME NEW d \in Daemons, EndpointInv, Record(d) PROVE EndpointInv'
<1> USE EndpointAssumption DEF EndpointInv, Record, Goto, EndpointType, Phases, Locked, Past,
       Bound, Listening
<1>1. EndpointType'
  BY DEF AtThePath
<1>2. HolderOnly'
  BY DEF HolderOnly, Closed
<1>3. AtThePath'
  BY DEF AtThePath, HolderOnly
<1>4. Listens'
  BY DEF Listens, AtThePath, HolderOnly
<1>5. OwnFileOnly'
  BY DEF OwnFileOnly, HolderOnly
<1>6. Closed'
  BY DEF Closed
<1>7. OlderFirst'
  BY DEF OlderFirst, AtThePath, OwnFileOnly
<1> QED
  BY <1>1, <1>2, <1>3, <1>4, <1>5, <1>6, <1>7

LEMMA ListenKeeps == ASSUME NEW d \in Daemons, EndpointInv, Listen(d) PROVE EndpointInv'
<1> USE EndpointAssumption DEF EndpointInv, Listen, Goto, EndpointType, Phases, Locked, Past,
       Bound, Listening
<1>1. EndpointType'
  BY DEF EndpointType
<1>2. HolderOnly'
  BY DEF HolderOnly, Closed
<1>3. AtThePath'
  BY DEF AtThePath, HolderOnly
<1>4. Listens'
  BY DEF Listens, AtThePath, HolderOnly
<1>5. OwnFileOnly'
  BY DEF OwnFileOnly, HolderOnly
<1>6. Closed'
  BY DEF Closed
<1>7. OlderFirst'
  BY DEF OlderFirst, AtThePath, OwnFileOnly
<1> QED
  BY <1>1, <1>2, <1>3, <1>4, <1>5, <1>6, <1>7

----------------------------------------------------------------------------
(* The steps of stop(), and the end of a process.                          *)

LEMMA CloseSocketKeeps == ASSUME NEW d \in Daemons, EndpointInv, CloseSocket(d) PROVE EndpointInv'
<1> USE EndpointAssumption DEF EndpointInv, CloseSocket, Goto, EndpointType, Phases, Locked, Past,
       Bound, Listening
<1>1. EndpointType'
  BY DEF EndpointType
<1>2. HolderOnly'
  BY DEF HolderOnly, Closed
<1>3. AtThePath'
  BY DEF AtThePath, HolderOnly
<1>4. Listens'
  BY DEF Listens, AtThePath, HolderOnly
<1>5. OwnFileOnly'
  BY DEF OwnFileOnly, HolderOnly
<1>6. Closed'
  BY DEF Closed
<1>7. OlderFirst'
  BY DEF OlderFirst, AtThePath, OwnFileOnly
<1> QED
  BY <1>1, <1>2, <1>3, <1>4, <1>5, <1>6, <1>7

LEMMA CheckFileKeeps == ASSUME NEW d \in Daemons, EndpointInv, CheckFile(d) PROVE EndpointInv'
<1> USE EndpointAssumption DEF EndpointInv, CheckFile, Goto, IsOwnFile, EndpointType, Phases, Locked, Past,
       Bound, Listening
<1>1. EndpointType'
  BY DEF EndpointType
<1>2. HolderOnly'
  BY DEF HolderOnly, Closed
<1>3. AtThePath'
  BY DEF AtThePath, HolderOnly
<1>4. Listens'
  BY DEF Listens, AtThePath, HolderOnly
<1>5. OwnFileOnly'
  BY DEF OwnFileOnly, HolderOnly
<1>6. Closed'
  BY DEF Closed
<1>7. OlderFirst'
  BY DEF OlderFirst, AtThePath, OwnFileOnly
<1> QED
  BY <1>1, <1>2, <1>3, <1>4, <1>5, <1>6, <1>7

LEMMA UnlinkKeeps == ASSUME NEW d \in Daemons, EndpointInv, Unlink(d) PROVE EndpointInv'
<1> USE EndpointAssumption DEF EndpointInv, Unlink, Goto, EndpointType, Phases, Locked, Past,
       Bound, Listening
<1>1. EndpointType'
  BY DEF EndpointType
<1>2. HolderOnly'
  BY DEF HolderOnly, Closed
<1>3. AtThePath'
  BY DEF AtThePath, HolderOnly
<1>4. Listens'
  BY DEF Listens, AtThePath, HolderOnly
<1>5. OwnFileOnly'
  BY DEF OwnFileOnly, HolderOnly
<1>6. Closed'
  BY DEF Closed
<1>7. OlderFirst'
  BY DEF OlderFirst, AtThePath, OwnFileOnly
<1> QED
  BY <1>1, <1>2, <1>3, <1>4, <1>5, <1>6, <1>7

LEMMA UnlockKeeps == ASSUME NEW d \in Daemons, EndpointInv, Unlock(d) PROVE EndpointInv'
<1> USE EndpointAssumption DEF EndpointInv, Unlock, Goto, EndpointType, Phases, Locked, Past,
       Bound, Listening
<1>1. EndpointType'
  BY DEF EndpointType
<1>2. HolderOnly'
  BY DEF HolderOnly, Closed
<1>3. AtThePath'
  BY DEF AtThePath, HolderOnly
<1>4. Listens'
  BY DEF Listens, AtThePath, HolderOnly
<1>5. OwnFileOnly'
  BY DEF OwnFileOnly, HolderOnly
<1>6. Closed'
  BY DEF Closed
<1>7. OlderFirst'
  BY DEF OlderFirst, AtThePath, OwnFileOnly
<1> QED
  BY <1>1, <1>2, <1>3, <1>4, <1>5, <1>6, <1>7

LEMMA KilledKeeps == ASSUME NEW d \in Daemons, EndpointInv, Killed(d) PROVE EndpointInv'
<1> USE EndpointAssumption DEF EndpointInv, Killed, Goto, EndpointType, Phases, Locked, Past,
       Bound, Listening
<1>1. EndpointType'
  BY DEF EndpointType
<1>2. HolderOnly'
  BY DEF HolderOnly, Closed
<1>3. AtThePath'
  BY DEF AtThePath, HolderOnly
<1>4. Listens'
  BY DEF Listens, AtThePath, HolderOnly
<1>5. OwnFileOnly'
  BY DEF OwnFileOnly, HolderOnly
<1>6. Closed'
  BY DEF Closed
<1>7. OlderFirst'
  BY DEF OlderFirst, AtThePath, OwnFileOnly
<1> QED
  BY <1>1, <1>2, <1>3, <1>4, <1>5, <1>6, <1>7

LEMMA OlderEndsKeeps == ASSUME EndpointInv, OlderEnds PROVE EndpointInv'
<1> USE EndpointAssumption DEF EndpointInv, OlderEnds, EndpointType, Phases, Locked, Past,
       Bound, Listening
<1>1. EndpointType'
  BY DEF EndpointType
<1>2. HolderOnly'
  BY DEF HolderOnly, Closed
<1>3. AtThePath'
  BY DEF AtThePath, HolderOnly, OlderFirst
<1>4. Listens'
  BY DEF Listens, AtThePath, HolderOnly
<1>5. OwnFileOnly'
  BY DEF OwnFileOnly, HolderOnly, OlderFirst
<1>6. Closed'
  BY DEF Closed
<1>7. OlderFirst'
  BY DEF OlderFirst, AtThePath, OwnFileOnly
<1> QED
  BY <1>1, <1>2, <1>3, <1>4, <1>5, <1>6, <1>7

----------------------------------------------------------------------------
(* The daemon's own threads: they move it through serving and stopping.    *)

LEMMA MovesKeep == ASSUME NEW d \in Daemons, NEW p \in Listening, NEW q \in Listening \cup {"stopped"},
         EndpointInv, phase[d] = p, phase' = [phase EXCEPT ![d] = q],
         UNCHANGED <<lock, path, inodes, listening, own, recorded>> PROVE EndpointInv'
<1> USE EndpointAssumption DEF EndpointInv, EndpointType, Phases, Locked, Past,
       Bound, Listening
<1>1. EndpointType'
  BY DEF EndpointType
<1>2. HolderOnly'
  BY DEF HolderOnly, Closed
<1>3. AtThePath'
  BY DEF AtThePath, HolderOnly, OlderFirst
<1>4. Listens'
  BY DEF Listens, AtThePath, HolderOnly
<1>5. OwnFileOnly'
  BY DEF OwnFileOnly, HolderOnly, OlderFirst
<1>6. Closed'
  BY DEF Closed
<1>7. OlderFirst'
  BY DEF OlderFirst, AtThePath, OwnFileOnly
<1> QED
  BY <1>1, <1>2, <1>3, <1>4, <1>5, <1>6, <1>7

LEMMA StepKeeps == ASSUME NEW d \in Daemons, EndpointInv, EndpointStep(d) PROVE EndpointInv'
<1>1. CASE LockFile(d) \/ Probe(d) \/ RemoveStale(d)
  BY <1>1, LockFileKeeps, ProbeKeeps, RemoveStaleKeeps
<1>2. CASE Bind(d) \/ Record(d) \/ Listen(d)
  BY <1>2, BindKeeps, RecordKeeps, ListenKeeps
<1>3. CASE CloseSocket(d) \/ CheckFile(d) \/ Unlink(d) \/ Unlock(d)
  BY <1>3, CloseSocketKeeps, CheckFileKeeps, UnlinkKeeps, UnlockKeeps
<1> QED
  BY <1>1, <1>2, <1>3 DEF EndpointStep

LEMMA IdleKeeps == ASSUME EndpointInv, UNCHANGED endpointVars PROVE EndpointInv'
  BY DEF endpointVars, EndpointInv, EndpointType, HolderOnly, AtThePath, Listens, OwnFileOnly, Closed,
     OlderFirst

LEMMA OwnerKeeps == ASSUME EndpointInv, OwnerStep PROVE EndpointInv'
<1> USE ServerAssumption
<1>1. CASE StartSelf
  BY <1>1, ListenKeeps DEF StartSelf
<1>2. CASE BeginStop
  BY <1>2, MovesKeep DEF BeginStop, Serving, Goto, Listening
<1>3. CASE Notify
  BY <1>3, MovesKeep DEF Notify, Goto, Listening
<1>4. CASE Join
  BY <1>4, MovesKeep DEF Join, Goto, Listening
<1>5. CASE EndpointStep(Self)
  BY <1>5, StepKeeps
<1> QED
  BY <1>1, <1>2, <1>3, <1>4, <1>5 DEF OwnerStep

LEMMA OtherKeeps == ASSUME NEW d \in Daemons, EndpointInv, OtherStep(d) PROVE EndpointInv'
<1>1. CASE Stops(d)
  BY <1>1, MovesKeep DEF Stops, Serving, Goto, Listening
<1> QED
  BY <1>1, StepKeeps, KilledKeeps DEF OtherStep

\* Clients, server thread and executor leave the endpoint alone.
LEMMA ThreadsKeep ==
  ASSUME \/ \E c \in Clients : ClientStep(c) \/ ServerStep(c) \/ Deadline(c)
         \/ PollFails \/ ServerStops \/ ExecutorStep
  PROVE  UNCHANGED endpointVars
<1>1. CASE \E c \in Clients : ClientStep(c)
  BY <1>1 DEF ClientStep, ClientConnects, ClientSends, ClientLeaves
<1>2. CASE \E c \in Clients : ServerStep(c) \/ Deadline(c)
  BY <1>2 DEF ServerStep, Accept, HangsUp, ReadLine, ReadTooMuch, TakeResult, WriteResult, Deadline
<1>3. CASE PollFails \/ ServerStops
  BY <1>3 DEF PollFails, ServerStops, ServerEnds
<1>4. CASE ExecutorStep
  BY <1>4 DEF ExecutorStep, Pop, Block, WakeUp, Perform, SetResult, Decide, Ticked, QuietExecutor
<1> QED
  BY <1>1, <1>2, <1>3, <1>4

LEMMA NextKeeps == ASSUME EndpointInv, [Next]_vars PROVE EndpointInv'
<1>1. CASE \/ \E c \in Clients : ClientStep(c) \/ ServerStep(c) \/ Deadline(c)
           \/ PollFails \/ ServerStops \/ ExecutorStep
  BY <1>1, ThreadsKeep, IdleKeeps
<1>2. CASE OwnerStep
  BY <1>2, OwnerKeeps
<1>3. CASE KilledSelf
  BY <1>3, KilledKeeps, ServerAssumption DEF KilledSelf
<1>4. CASE \E d \in Daemons : OtherStep(d)
  BY <1>4, OtherKeeps
<1>5. CASE OlderEnds
  BY <1>5, OlderEndsKeeps
<1>6. CASE UNCHANGED vars
  BY <1>6, IdleKeeps DEF vars, endpointVars
<1> QED
  BY <1>1, <1>2, <1>3, <1>4, <1>5, <1>6 DEF Next

LEMMA InvIsReachable == EndpointInv => Reachable
  BY EndpointAssumption DEF EndpointInv, HolderOnly, AtThePath, Listens, Reachable, Serving, Listening, Bound,
     Locked, Past

----------------------------------------------------------------------------
(* A daemon that serves listens at the path and no other serves, for any   *)
(* number of daemons, starts, kills and older daemons.                     *)
THEOREM DaemonIsReachable == Spec => []Reachable
<1>1. Init => EndpointInv
  BY InitEndpoint DEF Init
<1>2. EndpointInv /\ [Next]_vars => EndpointInv'
  BY NextKeeps
<1> QED
  BY <1>1, <1>2, InvIsReachable, PTL DEF Spec

----------------------------------------------------------------------------
(***************************************************************************)
(* The answers: a client's job is in one place at a time: not made yet     *)
(* (its connection is still being read), in the queue, in the executor's   *)
(* hands, or over.  Before the executor performs it there is no result; a  *)
(* result is set once, from those hands or by a full queue, and an answer  *)
(* is a copy of it.                                                        *)
(***************************************************************************)
ExecutorStates == {"top", "parking", "blocked", "woken", "picked", "performing", "deciding",
                   "ticking", "ended"}

JobType ==
  /\ running \in BOOLEAN /\ server \in {"polling", "ended"} /\ executor \in ExecutorStates
  /\ executor \in {"picked", "performing"} => current \in Clients
  /\ jobs \in Seq(Clients)
  /\ result \in [Clients -> {"none", "ok", "busy"}]
  /\ slot \in [Clients -> {"none", "backlog", "reading", "waiting", "writing", "closed"}]
  /\ client \in [Clients -> {"new", "open", "sent", "pipelined", "gone"}]
  /\ outcome \in [Clients -> {"none", "ok", "busy", "closed"}]
  /\ performed \in [Clients -> Nat]

\* Each element is in the sequence once.
Once(s) == \A i, j \in 1 .. Len(s) : s[i] = s[j] => i = j

Waits(c) == \E i \in 1 .. Len(jobs) : jobs[i] = c
Held(c) == executor \in {"picked", "performing"} /\ current = c

\* Nobody has read the client's line.
NotYet(c) == slot[c] \in {"none", "backlog", "reading"} =>
  ~Waits(c) /\ ~Held(c) /\ performed[c] = 0 /\ result[c] = "none" /\ outcome[c] = "none"
Queue == Len(jobs) <= MaxJobs /\ Once(jobs)
Fresh(c) == Waits(c) => ~Held(c) /\ performed[c] = 0 /\ result[c] = "none"
InHands(c) == Held(c) => /\ result[c] = "none"
                         /\ performed[c] = IF executor = "picked" THEN 0 ELSE 1
Result(c) == /\ performed[c] <= 1
             /\ result[c] = "ok" => performed[c] = 1
             /\ result[c] = "busy" => performed[c] = 0
Told(c) == outcome[c] \in {"ok", "busy"} => outcome[c] = result[c]

JobInv ==
  /\ JobType /\ Queue
  /\ \A c \in Clients :
       /\ client[c] = "new" => slot[c] = "none"
       /\ NotYet(c) /\ Fresh(c) /\ InHands(c) /\ Result(c) /\ Told(c)

\* The connections that are open, and the files there have been.
FewOpen == IsFiniteSet(Open) /\ Cardinality(Open) <= MaxClients
Files ==
  /\ starts \in Nat
  /\ inodes \in 1 .. starts + 1 /\ path \in 0 .. inodes /\ listening \subseteq 1 .. inodes
  /\ own \in [Daemons -> 0 .. inodes] /\ recorded \in [Daemons -> 0 .. inodes]
  /\ \A d \in Daemons : phase[d] \in {"locked", "free", "removed"} => inodes <= starts
----------------------------------------------------------------------------
(* The queue.                                                              *)

LEMMA TailIs ==
  ASSUME NEW S, NEW s \in Seq(S), s # <<>>
  PROVE  /\ Tail(s) \in Seq(S) /\ Head(s) \in S /\ Len(s) \in Nat \ {0}
         /\ Len(Tail(s)) = Len(s) - 1 /\ Head(s) = s[1]
         /\ \A i \in 1 .. Len(Tail(s)) : Tail(s)[i] = s[i + 1]
  BY HeadTailProperties, EmptySeq

LEMMA AppendIs ==
  ASSUME NEW S, NEW s \in Seq(S), NEW e \in S
  PROVE  /\ Append(s, e) \in Seq(S) /\ Len(s) \in Nat /\ Len(Append(s, e)) = Len(s) + 1
         /\ \A i \in 1 .. Len(Append(s, e)) : Append(s, e)[i] = IF i = Len(s) + 1 THEN e ELSE s[i]
  BY AppendProperties

LEMMA TailOnce ==
  ASSUME NEW S, NEW s \in Seq(S), s # <<>>, Once(s)
  PROVE  Once(Tail(s))
<1> DEFINE t == Tail(s)
<1>1. Len(s) \in Nat \ {0} /\ Len(t) = Len(s) - 1 /\ \A i \in 1 .. Len(t) : t[i] = s[i + 1]
  BY TailIs
<1> HIDE DEF t
<1>2. ASSUME NEW i \in 1 .. Len(t), NEW j \in 1 .. Len(t), t[i] = t[j]
      PROVE  i = j
  <2>1. i + 1 \in 1 .. Len(s) /\ j + 1 \in 1 .. Len(s) /\ s[i + 1] = s[j + 1]
    BY <1>1, <1>2
  <2>2. i + 1 = j + 1
    BY <2>1 DEF Once
  <2> QED
    BY <2>2
<1> QED
  BY <1>2 DEF Once, t

LEMMA AppendOnce ==
  ASSUME NEW S, NEW s \in Seq(S), NEW e \in S, Once(s), \A i \in 1 .. Len(s) : s[i] # e
  PROVE  Once(Append(s, e))
<1> DEFINE t == Append(s, e)
<1>1. /\ Len(s) \in Nat /\ Len(t) = Len(s) + 1
      /\ \A i \in 1 .. Len(t) : t[i] = IF i = Len(s) + 1 THEN e ELSE s[i]
  BY AppendIs
<1> HIDE DEF t
<1>2. ASSUME NEW i \in 1 .. Len(t)
      PROVE  \/ i \in 1 .. Len(s) /\ t[i] = s[i]
             \/ i = Len(s) + 1 /\ t[i] = e
  <2>1. i \in 1 .. Len(s) \/ i = Len(s) + 1
    BY <1>1
  <2>2. i \in 1 .. Len(s) => i # Len(s) + 1
    BY <1>1
  <2>3. t[i] = IF i = Len(s) + 1 THEN e ELSE s[i]
    BY <1>1
  <2> QED
    BY <2>1, <2>2, <2>3
<1>3. ASSUME NEW i \in 1 .. Len(t), NEW j \in 1 .. Len(t), t[i] = t[j]
      PROVE  i = j
  BY <1>2, <1>3 DEF Once
<1> QED
  BY <1>3 DEF Once, t

----------------------------------------------------------------------------
(* Clients and server thread.                                              *)

LEMMA ClientConnectsJob == ASSUME NEW c \in Clients, JobInv, ClientConnects(c) PROVE JobInv'
<1> USE DEF JobInv, JobType, ClientConnects, Waits, threadVars, jobVars, clientVars
<1>1. JobType'
  BY DEF ExecutorStates
<1>2. Queue'
  BY DEF Queue, NotYet
<1>3. ASSUME NEW b \in Clients
      PROVE  /\ client'[b] = "new" => slot'[b] = "none"
             /\ NotYet(b)' /\ Fresh(b)' /\ InHands(b)' /\ Result(b)' /\ Told(b)'
  BY DEF Held, NotYet, Fresh, InHands, Result, Told
<1> QED
  BY <1>1, <1>2, <1>3

LEMMA ClientSendsJob == ASSUME NEW c \in Clients, JobInv, ClientSends(c) PROVE JobInv'
<1> USE DEF JobInv, JobType, ClientSends, Waits, threadVars, jobVars, clientVars
<1>1. JobType'
  BY DEF ExecutorStates
<1>2. Queue'
  BY DEF Queue, NotYet
<1>3. ASSUME NEW b \in Clients
      PROVE  /\ client'[b] = "new" => slot'[b] = "none"
             /\ NotYet(b)' /\ Fresh(b)' /\ InHands(b)' /\ Result(b)' /\ Told(b)'
  BY DEF Held, NotYet, Fresh, InHands, Result, Told
<1> QED
  BY <1>1, <1>2, <1>3

LEMMA ClientLeavesJob == ASSUME NEW c \in Clients, JobInv, ClientLeaves(c) PROVE JobInv'
<1> USE DEF JobInv, JobType, ClientLeaves, Waits, threadVars, jobVars, clientVars
<1>1. JobType'
  BY DEF ExecutorStates
<1>2. Queue'
  BY DEF Queue, NotYet
<1>3. ASSUME NEW b \in Clients
      PROVE  /\ client'[b] = "new" => slot'[b] = "none"
             /\ NotYet(b)' /\ Fresh(b)' /\ InHands(b)' /\ Result(b)' /\ Told(b)'
  BY DEF Held, NotYet, Fresh, InHands, Result, Told
<1> QED
  BY <1>1, <1>2, <1>3

LEMMA AcceptJob == ASSUME NEW c \in Clients, JobInv, Accept(c) PROVE JobInv'
<1> USE DEF JobInv, JobType, Accept, Waits, threadVars, jobVars, clientVars, Polling
<1>1. JobType'
  BY DEF ExecutorStates
<1>2. Queue'
  BY DEF Queue, NotYet
<1>3. ASSUME NEW b \in Clients
      PROVE  /\ client'[b] = "new" => slot'[b] = "none"
             /\ NotYet(b)' /\ Fresh(b)' /\ InHands(b)' /\ Result(b)' /\ Told(b)'
  BY DEF Held, NotYet, Fresh, InHands, Result, Told
<1> QED
  BY <1>1, <1>2, <1>3

LEMMA HangsUpJob == ASSUME NEW c \in Clients, JobInv, HangsUp(c) PROVE JobInv'
<1> USE DEF JobInv, JobType, HangsUp, Waits, threadVars, jobVars, clientVars, Close, Open
<1>1. JobType'
  BY DEF ExecutorStates
<1>2. Queue'
  BY DEF Queue, NotYet
<1>3. ASSUME NEW b \in Clients
      PROVE  /\ client'[b] = "new" => slot'[b] = "none"
             /\ NotYet(b)' /\ Fresh(b)' /\ InHands(b)' /\ Result(b)' /\ Told(b)'
  BY DEF Held, NotYet, Fresh, InHands, Result, Told
<1> QED
  BY <1>1, <1>2, <1>3

LEMMA DeadlineJob == ASSUME NEW c \in Clients, JobInv, Deadline(c) PROVE JobInv'
<1> USE DEF JobInv, JobType, Deadline, Waits, threadVars, jobVars, clientVars, Close, Open
<1>1. JobType'
  BY DEF ExecutorStates
<1>2. Queue'
  BY DEF Queue, NotYet
<1>3. ASSUME NEW b \in Clients
      PROVE  /\ client'[b] = "new" => slot'[b] = "none"
             /\ NotYet(b)' /\ Fresh(b)' /\ InHands(b)' /\ Result(b)' /\ Told(b)'
  BY DEF Held, NotYet, Fresh, InHands, Result, Told
<1> QED
  BY <1>1, <1>2, <1>3

LEMMA ReadLineJob == ASSUME NEW c \in Clients, JobInv, ReadLine(c) PROVE JobInv'
<1> USE DEF JobInv, JobType, Waits, Held
<1>1. /\ slot[c] = "reading" /\ slot' = [slot EXCEPT ![c] = "waiting"]
      /\ executor' \in {executor, "woken"} /\ (executor' # executor => executor = "blocked")
      /\ Queued(c)
      /\ UNCHANGED <<running, server, current, client, outcome, performed>>
  BY DEF ReadLine
<1>2. ~Waits(c) /\ ~Held(c) /\ performed[c] = 0 /\ result[c] = "none" /\ outcome[c] = "none"
  BY <1>1 DEF NotYet
<1>3. CASE Len(jobs) >= MaxJobs
  <2>1. result' = [result EXCEPT ![c] = "busy"] /\ jobs' = jobs
    BY <1>1, <1>3 DEF Queued
  <2>2. JobType' /\ Queue'
    BY <1>1, <2>1 DEF ExecutorStates, Queue
  <2>3. ASSUME NEW b \in Clients
        PROVE  /\ client'[b] = "new" => slot'[b] = "none"
               /\ NotYet(b)' /\ Fresh(b)' /\ InHands(b)' /\ Result(b)' /\ Told(b)'
    BY <1>1, <1>2, <2>1 DEF NotYet, Fresh, InHands, Result, Told
  <2> QED
    BY <2>2, <2>3
<1>4. CASE ~(Len(jobs) >= MaxJobs)
  <2>1. result' = result /\ jobs' = Append(jobs, c)
    BY <1>1, <1>4 DEF Queued
  <2>2. /\ jobs' \in Seq(Clients) /\ Len(jobs) \in Nat /\ Len(jobs') = Len(jobs) + 1
        /\ \A i \in 1 .. Len(jobs') : jobs'[i] = IF i = Len(jobs) + 1 THEN c ELSE jobs[i]
    BY <2>1, AppendIs
  <2>3. JobType'
    BY <1>1, <2>1, <2>2 DEF ExecutorStates
  <2>4. Queue'
    <3>1. Len(jobs') <= MaxJobs
      BY <1>4, <2>2, ServerAssumption DEF Queue
    <3>2. Once(jobs')
      BY <1>2, <2>1, AppendOnce DEF Queue
    <3> QED
      BY <3>1, <3>2 DEF Queue
  <2>5. ASSUME NEW b \in Clients PROVE Waits(b)' <=> Waits(b) \/ b = c
    <3>1. ASSUME NEW i \in 1 .. Len(jobs'), jobs'[i] = b PROVE Waits(b) \/ b = c
      <4>1. CASE i = Len(jobs) + 1
        BY <2>2, <3>1, <4>1
      <4>2. CASE i # Len(jobs) + 1
        <5>1. i \in 1 .. Len(jobs) /\ jobs[i] = b
          BY <2>2, <3>1, <4>2
        <5> QED
          BY <5>1
      <4> QED
        BY <4>1, <4>2
    <3>2. ASSUME NEW i \in 1 .. Len(jobs) PROVE jobs'[i] = jobs[i] /\ i \in 1 .. Len(jobs')
      BY <2>2
    <3>3. jobs'[Len(jobs')] = c /\ Len(jobs') \in 1 .. Len(jobs')
      BY <2>2
    <3> QED
      BY <3>1, <3>2, <3>3
  <2>6. ASSUME NEW b \in Clients
        PROVE  /\ client'[b] = "new" => slot'[b] = "none"
               /\ NotYet(b)' /\ Fresh(b)' /\ InHands(b)' /\ Result(b)' /\ Told(b)'
    <3> HIDE DEF Waits
    <3> QED
      BY <1>1, <1>2, <2>1, <2>5 DEF NotYet, Fresh, InHands, Result, Told
  <2> QED
    BY <2>3, <2>4, <2>6
<1> QED
  BY <1>3, <1>4

LEMMA ReadTooMuchJob == ASSUME NEW c \in Clients, JobInv, ReadTooMuch(c) PROVE JobInv'
<1> USE DEF JobInv, JobType, ReadTooMuch, Waits, threadVars, jobVars, clientVars, Close, Open
<1>1. JobType'
  BY DEF ExecutorStates
<1>2. Queue'
  BY DEF Queue, NotYet
<1>3. ASSUME NEW b \in Clients
      PROVE  /\ client'[b] = "new" => slot'[b] = "none"
             /\ NotYet(b)' /\ Fresh(b)' /\ InHands(b)' /\ Result(b)' /\ Told(b)'
  BY DEF Held, NotYet, Fresh, InHands, Result, Told
<1> QED
  BY <1>1, <1>2, <1>3

LEMMA TakeResultJob == ASSUME NEW c \in Clients, JobInv, TakeResult(c) PROVE JobInv'
<1> USE DEF JobInv, JobType, TakeResult, Waits, threadVars, jobVars, clientVars
<1>1. JobType'
  BY DEF ExecutorStates
<1>2. Queue'
  BY DEF Queue, NotYet
<1>3. ASSUME NEW b \in Clients
      PROVE  /\ client'[b] = "new" => slot'[b] = "none"
             /\ NotYet(b)' /\ Fresh(b)' /\ InHands(b)' /\ Result(b)' /\ Told(b)'
  BY DEF Held, NotYet, Fresh, InHands, Result, Told
<1> QED
  BY <1>1, <1>2, <1>3

LEMMA WriteResultJob == ASSUME NEW c \in Clients, JobInv, WriteResult(c) PROVE JobInv'
<1> USE DEF JobInv, JobType, WriteResult, Waits, threadVars, jobVars, clientVars, Polling
<1>1. JobType'
  BY DEF ExecutorStates
<1>2. Queue'
  BY DEF Queue, NotYet
<1>3. ASSUME NEW b \in Clients
      PROVE  /\ client'[b] = "new" => slot'[b] = "none"
             /\ NotYet(b)' /\ Fresh(b)' /\ InHands(b)' /\ Result(b)' /\ Told(b)'
  BY DEF Held, NotYet, Fresh, InHands, Result, Told
<1> QED
  BY <1>1, <1>2, <1>3

----------------------------------------------------------------------------
(* Executor and owner.                                                     *)

LEMMA ServerEndsJob == ASSUME JobInv, ServerEnds PROVE JobInv'
<1> USE DEF JobInv, JobType, ServerEnds, Waits, Held, threadVars, jobVars, clientVars, Close, Open
<1>1. JobType'
  BY DEF ExecutorStates
<1>2. Queue'
  BY DEF Queue
<1>3. ASSUME NEW b \in Clients
      PROVE  /\ client'[b] = "new" => slot'[b] = "none"
             /\ NotYet(b)' /\ Fresh(b)' /\ InHands(b)' /\ Result(b)' /\ Told(b)'
  BY DEF Queue, NotYet, Fresh, InHands, Result, Told
<1> QED
  BY <1>1, <1>2, <1>3

LEMMA PopJob == ASSUME JobInv, Pop PROVE JobInv'
<1> USE DEF JobInv, JobType, Waits, Held
<1>1. /\ executor \in {"top", "woken"} /\ executor' \in ExecutorStates \ {"performing"}
      /\ UNCHANGED <<running, server, result, slot, client, outcome, performed>>
  BY DEF Pop, QuietExecutor, clientVars, ExecutorStates
<1>2. CASE executor' # "picked"
  <2>1. jobs' = jobs
    BY <1>2 DEF Pop
  <2>2. JobType' /\ Queue'
    BY <1>1, <1>2, <2>1 DEF Queue
  <2>3. ASSUME NEW b \in Clients
        PROVE  /\ client'[b] = "new" => slot'[b] = "none"
               /\ NotYet(b)' /\ Fresh(b)' /\ InHands(b)' /\ Result(b)' /\ Told(b)'
    BY <1>1, <1>2, <2>1 DEF NotYet, Fresh, InHands, Result, Told
  <2> QED
    BY <2>2, <2>3
<1>3. CASE executor' = "picked"
  <2>1. jobs # <<>> /\ jobs' = Tail(jobs) /\ current' = Head(jobs)
    BY <1>1, <1>3 DEF Pop
  <2>2. /\ jobs' \in Seq(Clients) /\ current' \in Clients /\ Len(jobs) \in Nat \ {0}
        /\ Len(jobs') = Len(jobs) - 1 /\ current' = jobs[1]
        /\ \A i \in 1 .. Len(jobs') : jobs'[i] = jobs[i + 1]
    BY <2>1, TailIs
  <2>3. JobType'
    BY <1>1, <1>3, <2>2
  <2>4. Queue'
    <3>1. Len(jobs') <= MaxJobs
      BY <2>2, ServerAssumption DEF Queue
    <3>2. Once(jobs')
      BY <2>1, TailOnce DEF Queue
    <3> QED
      BY <3>1, <3>2 DEF Queue
  <2>5. \A b \in Clients : (Waits(b)' => Waits(b)) /\ (current' = b => Waits(b) /\ ~Waits(b)')
    BY <2>2, SMTT(30) DEF Queue, Once
  <2>6. ASSUME NEW b \in Clients
        PROVE  /\ client'[b] = "new" => slot'[b] = "none"
               /\ NotYet(b)' /\ Fresh(b)' /\ InHands(b)' /\ Result(b)' /\ Told(b)'
    <3> HIDE DEF Waits
    <3> QED
      BY <1>1, <1>3, <2>5 DEF NotYet, Fresh, InHands, Result, Told
  <2> QED
    BY <2>3, <2>4, <2>6
<1> QED
  BY <1>2, <1>3

LEMMA BlockJob == ASSUME JobInv, Block PROVE JobInv'
<1> USE DEF JobInv, JobType, Block, Waits, Held, threadVars, jobVars, clientVars, Executor, QuietExecutor
<1>1. JobType'
  BY DEF ExecutorStates
<1>2. Queue'
  BY DEF Queue
<1>3. ASSUME NEW b \in Clients
      PROVE  /\ client'[b] = "new" => slot'[b] = "none"
             /\ NotYet(b)' /\ Fresh(b)' /\ InHands(b)' /\ Result(b)' /\ Told(b)'
  BY DEF Queue, NotYet, Fresh, InHands, Result, Told
<1> QED
  BY <1>1, <1>2, <1>3

LEMMA WakeUpJob == ASSUME JobInv, WakeUp PROVE JobInv'
<1> USE DEF JobInv, JobType, WakeUp, Waits, Held, threadVars, jobVars, clientVars, Executor, QuietExecutor
<1>1. JobType'
  BY DEF ExecutorStates
<1>2. Queue'
  BY DEF Queue
<1>3. ASSUME NEW b \in Clients
      PROVE  /\ client'[b] = "new" => slot'[b] = "none"
             /\ NotYet(b)' /\ Fresh(b)' /\ InHands(b)' /\ Result(b)' /\ Told(b)'
  BY DEF Queue, NotYet, Fresh, InHands, Result, Told
<1> QED
  BY <1>1, <1>2, <1>3

LEMMA PerformJob == ASSUME JobInv, Perform PROVE JobInv'
<1> USE DEF JobInv, JobType, Perform, Waits, Held, threadVars, jobVars, clientVars, Executor, QuietExecutor
<1>1. JobType'
  BY DEF ExecutorStates
<1>2. Queue'
  BY DEF Queue
<1>3. ASSUME NEW b \in Clients
      PROVE  /\ client'[b] = "new" => slot'[b] = "none"
             /\ NotYet(b)' /\ Fresh(b)' /\ InHands(b)' /\ Result(b)' /\ Told(b)'
  BY DEF Queue, NotYet, Fresh, InHands, Result, Told
<1> QED
  BY <1>1, <1>2, <1>3

LEMMA SetResultJob == ASSUME JobInv, SetResult PROVE JobInv'
<1> USE DEF JobInv, JobType, SetResult, Waits, Held, threadVars, jobVars, clientVars, Executor, QuietExecutor
<1>1. JobType'
  BY DEF ExecutorStates
<1>2. Queue'
  BY DEF Queue
<1>3. ASSUME NEW b \in Clients
      PROVE  /\ client'[b] = "new" => slot'[b] = "none"
             /\ NotYet(b)' /\ Fresh(b)' /\ InHands(b)' /\ Result(b)' /\ Told(b)'
  BY DEF Queue, NotYet, Fresh, InHands, Result, Told
<1> QED
  BY <1>1, <1>2, <1>3

LEMMA DecideJob == ASSUME JobInv, Decide PROVE JobInv'
<1> USE DEF JobInv, JobType, Decide, Waits, Held, threadVars, jobVars, clientVars, Executor, QuietExecutor
<1>1. JobType'
  BY DEF ExecutorStates
<1>2. Queue'
  BY DEF Queue
<1>3. ASSUME NEW b \in Clients
      PROVE  /\ client'[b] = "new" => slot'[b] = "none"
             /\ NotYet(b)' /\ Fresh(b)' /\ InHands(b)' /\ Result(b)' /\ Told(b)'
  BY DEF Queue, NotYet, Fresh, InHands, Result, Told
<1> QED
  BY <1>1, <1>2, <1>3

LEMMA TickedJob == ASSUME JobInv, Ticked PROVE JobInv'
<1> USE DEF JobInv, JobType, Ticked, Waits, Held, threadVars, jobVars, clientVars, Executor, QuietExecutor
<1>1. JobType'
  BY DEF ExecutorStates
<1>2. Queue'
  BY DEF Queue
<1>3. ASSUME NEW b \in Clients
      PROVE  /\ client'[b] = "new" => slot'[b] = "none"
             /\ NotYet(b)' /\ Fresh(b)' /\ InHands(b)' /\ Result(b)' /\ Told(b)'
  BY DEF Queue, NotYet, Fresh, InHands, Result, Told
<1> QED
  BY <1>1, <1>2, <1>3

LEMMA StartSelfJob == ASSUME JobInv, StartSelf PROVE JobInv'
<1> USE DEF JobInv, JobType, StartSelf, Waits, Held, threadVars, jobVars, clientVars
<1>1. JobType'
  BY ServerAssumption, EmptySeq DEF ExecutorStates
<1>2. Queue'
  BY ServerAssumption, EmptySeq DEF Queue, Once
<1>3. ASSUME NEW b \in Clients
      PROVE  /\ client'[b] = "new" => slot'[b] = "none"
             /\ NotYet(b)' /\ Fresh(b)' /\ InHands(b)' /\ Result(b)' /\ Told(b)'
  BY ServerAssumption, EmptySeq DEF Queue, NotYet, Fresh, InHands, Result, Told
<1> QED
  BY <1>1, <1>2, <1>3

LEMMA BeginStopJob == ASSUME JobInv, BeginStop PROVE JobInv'
<1> USE DEF JobInv, JobType, BeginStop, Waits, Held, threadVars, jobVars, clientVars
<1>1. JobType'
  BY DEF ExecutorStates
<1>2. Queue'
  BY DEF Queue
<1>3. ASSUME NEW b \in Clients
      PROVE  /\ client'[b] = "new" => slot'[b] = "none"
             /\ NotYet(b)' /\ Fresh(b)' /\ InHands(b)' /\ Result(b)' /\ Told(b)'
  BY DEF Queue, NotYet, Fresh, InHands, Result, Told
<1> QED
  BY <1>1, <1>2, <1>3

LEMMA NotifyJob == ASSUME JobInv, Notify PROVE JobInv'
<1> USE DEF JobInv, JobType, Notify, Waits, Held, threadVars, jobVars, clientVars
<1>1. JobType'
  BY DEF ExecutorStates
<1>2. Queue'
  BY DEF Queue
<1>3. ASSUME NEW b \in Clients
      PROVE  /\ client'[b] = "new" => slot'[b] = "none"
             /\ NotYet(b)' /\ Fresh(b)' /\ InHands(b)' /\ Result(b)' /\ Told(b)'
  BY DEF Queue, NotYet, Fresh, InHands, Result, Told
<1> QED
  BY <1>1, <1>2, <1>3

LEMMA JoinJob == ASSUME JobInv, Join PROVE JobInv'
<1> USE DEF JobInv, JobType, Join, Waits, Held, threadVars, jobVars, clientVars
<1>1. JobType'
  BY DEF ExecutorStates
<1>2. Queue'
  BY DEF Queue
<1>3. ASSUME NEW b \in Clients
      PROVE  /\ client'[b] = "new" => slot'[b] = "none"
             /\ NotYet(b)' /\ Fresh(b)' /\ InHands(b)' /\ Result(b)' /\ Told(b)'
  BY DEF Queue, NotYet, Fresh, InHands, Result, Told
<1> QED
  BY <1>1, <1>2, <1>3

LEMMA KilledSelfJob == ASSUME JobInv, KilledSelf PROVE JobInv'
<1> USE DEF JobInv, JobType, KilledSelf, Waits, Held, threadVars, jobVars, clientVars
<1>1. JobType'
  BY ServerAssumption, EmptySeq DEF ExecutorStates
<1>2. Queue'
  BY ServerAssumption, EmptySeq DEF Queue, Once
<1>3. ASSUME NEW b \in Clients
      PROVE  /\ client'[b] = "new" => slot'[b] = "none"
             /\ NotYet(b)' /\ Fresh(b)' /\ InHands(b)' /\ Result(b)' /\ Told(b)'
  BY ServerAssumption, EmptySeq DEF Queue, NotYet, Fresh, InHands, Result, Told
<1> QED
  BY <1>1, <1>2, <1>3

\* A socket that is closed drops its backlog.
LEMMA EndpointJob ==
  ASSUME JobInv, Backlog, UNCHANGED <<threadVars, jobVars, client, input, performed>>
  PROVE  JobInv'
<1> USE DEF JobInv, JobType, Backlog, Dropped, Waits, Held, threadVars, jobVars
<1>1. JobType'
  OBVIOUS
<1>2. Queue'
  BY DEF Queue, Once
<1>3. ASSUME NEW b \in Clients
      PROVE  /\ client'[b] = "new" => slot'[b] = "none"
             /\ NotYet(b)' /\ Fresh(b)' /\ InHands(b)' /\ Result(b)' /\ Told(b)'
  BY DEF NotYet, Fresh, InHands, Result, Told
<1> QED
  BY <1>1, <1>2, <1>3

LEMMA IdleJob == ASSUME JobInv, UNCHANGED <<threadVars, jobVars, clientVars>> PROVE JobInv'
  BY DEF JobInv, JobType, Queue, Once, NotYet, Fresh, InHands, Result, Told, Waits, Held,
     threadVars, jobVars, clientVars

LEMMA NextJob == ASSUME JobInv, [Next]_vars PROVE JobInv'
<1>1. CASE \E c \in Clients : ClientStep(c)
  BY <1>1, ClientConnectsJob, ClientSendsJob, ClientLeavesJob DEF ClientStep
<1>2. CASE \E c \in Clients : ServerStep(c) \/ Deadline(c)
  BY <1>2, AcceptJob, HangsUpJob, DeadlineJob, ReadLineJob, ReadTooMuchJob, TakeResultJob, WriteResultJob
     DEF ServerStep
<1>3. CASE PollFails \/ ServerStops
  BY <1>3, ServerEndsJob DEF PollFails, ServerStops
<1>4. CASE ExecutorStep
  BY <1>4, PopJob, BlockJob, WakeUpJob, PerformJob, SetResultJob, DecideJob, TickedJob DEF ExecutorStep
<1>5. CASE OwnerStep
  BY <1>5, StartSelfJob, BeginStopJob, NotifyJob, JoinJob, EndpointJob DEF OwnerStep
<1>6. CASE KilledSelf
  BY <1>6, KilledSelfJob
<1>7. CASE \E d \in Daemons : OtherStep(d)
  BY <1>7, IdleJob DEF OtherStep
<1>8. CASE OlderEnds /\ UNCHANGED <<threadVars, jobVars, clientVars>>
  BY <1>8, IdleJob
<1>9. CASE UNCHANGED vars
  BY <1>9, IdleJob DEF vars, threadVars, jobVars, clientVars
<1> QED
  BY <1>1, <1>2, <1>3, <1>4, <1>5, <1>6, <1>7, <1>8, <1>9 DEF Next

LEMMA InitJob == ASSUME Init PROVE JobInv
<1>1. jobs \in Seq(Clients) /\ Len(jobs) = 0
  BY EmptySeq DEF Init
<1>2. JobType
  BY <1>1 DEF Init, JobType, ExecutorStates
<1>3. Queue
  BY <1>1, ServerAssumption DEF Queue, Once
<1>4. \A c \in Clients : ~Waits(c)
  BY <1>1 DEF Waits
<1> QED
  BY <1>2, <1>3, <1>4 DEF Init, JobInv, NotYet, Fresh, InHands, Result, Told, Held

\* OutcomeIsTrue: whoever was told "ok" had the command executed once, whoever was
\* told "busy" not at all, and no command is executed twice.
THEOREM AnswersAreTrue == Spec => []OutcomeIsTrue
<1>1. Init => JobInv
  BY InitJob
<1>2. JobInv /\ [Next]_vars => JobInv'
  BY NextJob
<1>3. JobInv => OutcomeIsTrue
  BY DEF JobInv, JobType, Result, Told, OutcomeIsTrue
<1> QED
  BY <1>1, <1>2, <1>3, PTL DEF Spec

----------------------------------------------------------------------------
(* The bounds.                                                             *)

LEMMA OpenShrinks == ASSUME FewOpen, Open' \subseteq Open PROVE FewOpen'
<1>1. IsFiniteSet(Open') /\ Cardinality(Open') <= Cardinality(Open)
  BY FS_Subset DEF FewOpen
<1>2. Cardinality(Open') \in Nat /\ Cardinality(Open) \in Nat
  BY <1>1, FS_CardinalityType DEF FewOpen
<1> QED
  BY <1>1, <1>2, ServerAssumption DEF FewOpen

LEMMA AcceptOpen == ASSUME NEW c \in Clients, JobType, FewOpen, Accept(c) PROVE FewOpen'
<1>1. CASE Cardinality(Open) >= MaxClients
  <2>1. Open' \subseteq Open
    BY <1>1 DEF Accept, Open, JobType
  <2> QED
    BY <2>1, OpenShrinks
<1>2. CASE ~(Cardinality(Open) >= MaxClients)
  <2>1. Open' = Open \cup {c}
    BY <1>2 DEF Accept, Open, JobType
  <2>2. Cardinality(Open) \in Nat
    BY FS_CardinalityType DEF FewOpen
  <2>3. IsFiniteSet(Open') /\ Cardinality(Open') <= Cardinality(Open) + 1
    BY <2>1, <2>2, FS_AddElement DEF FewOpen
  <2>4. Cardinality(Open') \in Nat
    BY <2>3, FS_CardinalityType
  <2> QED
    BY <1>2, <2>2, <2>3, <2>4, ServerAssumption DEF FewOpen
<1> QED
  BY <1>1, <1>2

\* Only Accept opens a connection.
LEMMA NextOpen == ASSUME JobType, FewOpen, [Next]_vars PROVE FewOpen'
<1> USE DEF Open, JobType, threadVars, jobVars, clientVars
<1>1. CASE \E c \in Clients : Accept(c)
  BY <1>1, AcceptOpen
<1>2. CASE \E c \in Clients : ClientStep(c)
  <2>1. Open' \subseteq Open
    BY <1>2 DEF ClientStep, ClientConnects, ClientSends, ClientLeaves
  <2> QED
    BY <2>1, OpenShrinks
<1>3. CASE \E c \in Clients : HangsUp(c) \/ ReadTooMuch(c) \/ Deadline(c)
  <2>1. Open' \subseteq Open
    BY <1>3 DEF HangsUp, ReadTooMuch, Deadline, Close
  <2> QED
    BY <2>1, OpenShrinks
<1>4. CASE \E c \in Clients : ReadLine(c) \/ TakeResult(c) \/ WriteResult(c)
  <2>1. Open' \subseteq Open
    BY <1>4 DEF ReadLine, TakeResult, WriteResult
  <2> QED
    BY <2>1, OpenShrinks
<1>5. CASE PollFails \/ ServerStops
  <2>1. Open' \subseteq Open
    BY <1>5 DEF PollFails, ServerStops, ServerEnds, Close
  <2> QED
    BY <2>1, OpenShrinks
<1>6. CASE ExecutorStep
  <2>1. slot' = slot
    BY <1>6 DEF ExecutorStep, Pop, Block, WakeUp, Perform, SetResult, Decide, Ticked, QuietExecutor
  <2> QED
    BY <2>1, OpenShrinks
<1>7. CASE OwnerStep
  <2>1. CASE StartSelf \/ BeginStop \/ Notify \/ Join
    <3>1. slot' = slot
      BY <2>1 DEF StartSelf, BeginStop, Notify, Join
    <3> QED
      BY <3>1, OpenShrinks
  <2>2. CASE Backlog
    <3>1. Open' \subseteq Open
      BY <2>2 DEF Backlog
    <3> QED
      BY <3>1, OpenShrinks
  <2> QED
    BY <1>7, <2>1, <2>2 DEF OwnerStep
<1>8. CASE KilledSelf
  <2>1. Open' \subseteq Open
    BY <1>8 DEF KilledSelf
  <2> QED
    BY <2>1, OpenShrinks
<1>9. CASE \/ \E d \in Daemons : OtherStep(d)
           \/ OlderEnds /\ UNCHANGED <<threadVars, jobVars, clientVars>>
           \/ UNCHANGED vars
  <2>1. slot' = slot
    BY <1>9 DEF OtherStep, vars
  <2> QED
    BY <2>1, OpenShrinks
<1> QED
  BY <1>1, <1>2, <1>3, <1>4, <1>5, <1>6, <1>7, <1>8, <1>9 DEF Next, ServerStep

\* One start makes one file at most, as only one daemon at a time is about to bind.
\* The ranges, of what a step leaves alone or sets to what there was.
FilesKept ==
  /\ inodes' = inodes /\ starts' = starts /\ path' \in {path, NoFile}
  /\ own' \in [Daemons -> 0 .. inodes] /\ recorded' \in [Daemons -> 0 .. inodes]
  /\ listening' \subseteq 1 .. inodes
  /\ \A e \in Daemons : \/ phase'[e] \notin {"locked", "free", "removed"}
                         \/ phase[e] \in {"locked", "free", "removed"}

LEMMA KeptFiles == ASSUME Files, FilesKept PROVE Files'
  BY DEF Files, FilesKept, NoFile

LEMMA StepFiles == ASSUME NEW d \in Daemons, EndpointInv, Files, EndpointStep(d) PROVE Files'
<1> USE DEF EndpointInv, EndpointType, Files, FilesKept, Goto, NoFile
<1>1. CASE LockFile(d)
  BY <1>1, EndpointAssumption DEF LockFile, HolderOnly, Locked, Past
<1>2. CASE Bind(d)
  <2>1. phase[d] = "removed" /\ inodes <= starts
    BY <1>2 DEF Bind
  <2>2. \A e \in Daemons \ {d} : phase[e] \notin {"locked", "free", "removed"}
    BY <2>1 DEF HolderOnly, Locked, Past
  <2> QED
    BY <1>2, <2>1, <2>2 DEF Bind
<1>3. CASE Probe(d)
  <2>1. FilesKept
    BY <1>3 DEF Probe
  <2> QED
    BY <2>1, KeptFiles
<1>4. CASE RemoveStale(d)
  <2>1. FilesKept
    BY <1>4 DEF RemoveStale
  <2> QED
    BY <2>1, KeptFiles
<1>5. CASE Record(d)
  <2>1. FilesKept
    BY <1>5 DEF Record
  <2> QED
    BY <2>1, KeptFiles
<1>6. CASE Listen(d)
  <2>1. own[d] \in 1 .. inodes
    BY <1>6 DEF Listen, AtThePath, Bound
  <2>2. FilesKept
    BY <1>6, <2>1 DEF Listen
  <2> QED
    BY <2>2, KeptFiles
<1>7. CASE CloseSocket(d)
  <2>1. listening' \subseteq listening /\ own' = [own EXCEPT ![d] = NoFile]
    BY <1>7 DEF CloseSocket
  <2>2. \A e \in Daemons : phase'[e] = phase[e] \/ phase'[e] = "closed"
    BY <1>7 DEF CloseSocket
  <2>3. UNCHANGED <<inodes, starts, path, recorded>>
    BY <1>7 DEF CloseSocket
  <2>4. own' \in [Daemons -> 0 .. inodes]
    BY <2>1
  <2>5. FilesKept
    BY <2>1, <2>2, <2>3, <2>4
  <2> QED
    BY <2>5, KeptFiles
<1>8. CASE CheckFile(d) \/ Unlink(d)
  <2>1. FilesKept
    BY <1>8 DEF CheckFile, Unlink
  <2> QED
    BY <2>1, KeptFiles
<1>9. CASE Unlock(d)
  <2>1. FilesKept
    BY <1>9 DEF Unlock
  <2> QED
    BY <2>1, KeptFiles
<1> QED
  BY <1>1, <1>2, <1>3, <1>4, <1>5, <1>6, <1>7, <1>8, <1>9 DEF EndpointStep

LEMMA NextFiles == ASSUME EndpointInv, Files, [Next]_vars PROVE Files'
<1> USE ServerAssumption
<1>1. CASE \/ \E c \in Clients : ClientStep(c) \/ ServerStep(c) \/ Deadline(c)
           \/ PollFails \/ ServerStops \/ ExecutorStep \/ UNCHANGED vars
  <2>1. UNCHANGED endpointVars
    BY <1>1, ThreadsKeep DEF vars, endpointVars
  <2> QED
    BY <2>1 DEF endpointVars, Files
<1>2. CASE OwnerStep
  <2>1. CASE StartSelf
    BY <2>1, StepFiles DEF StartSelf, EndpointStep
  <2>2. CASE BeginStop \/ Notify \/ Join
    BY <2>2 DEF BeginStop, Notify, Join, Goto, Files, EndpointInv, EndpointType
  <2> QED
    BY <1>2, <2>1, <2>2, StepFiles DEF OwnerStep
<1>3. CASE \E d \in Daemons : Killed(d) \/ Stops(d)
  <2>1. PICK d \in Daemons : Killed(d) \/ Stops(d)
    BY <1>3
  <2>2. \A e \in Daemons : phase'[e] = phase[e] \/ phase'[e] \in {"down", "stopped"}
    BY <2>1 DEF Killed, Stops, Goto, EndpointInv, EndpointType
  <2>3. listening' \subseteq 1 .. inodes
    BY <2>1 DEF Killed, Stops, Files
  <2>4. own' \in [Daemons -> 0 .. inodes] /\ recorded' \in [Daemons -> 0 .. inodes]
    BY <2>1 DEF Killed, Stops, Files, NoFile
  <2>5. FilesKept
    BY <2>1, <2>2, <2>3, <2>4 DEF Killed, Stops, FilesKept
  <2> QED
    BY <2>5, KeptFiles
<1>4. CASE \E d \in Daemons : OtherStep(d)
  BY <1>3, <1>4, StepFiles DEF OtherStep
<1>5. CASE OlderEnds
  BY <1>5 DEF OlderEnds, Files, NoFile
<1> QED
  BY <1>1, <1>2, <1>3, <1>4, <1>5 DEF Next, KilledSelf

LEMMA InitBounds == ASSUME Init PROVE FewOpen /\ Files
<1>1. Open = {}
  BY DEF Init, Open
<1>2. FewOpen
  BY <1>1, FS_EmptySet, ServerAssumption DEF FewOpen
<1> QED
  BY <1>2 DEF Init, EndpointInit, Files, NoFile, OlderSocket

\* TypeOK: no more jobs wait and no more connections are open than the bounds
\* say, no job waits twice, and each start makes one file at most.
THEOREM BoundsAreKept == Spec => []TypeOK
<1> DEFINE Inv == EndpointInv /\ JobInv /\ FewOpen /\ Files
<1>1. Init => Inv
  BY InitEndpoint, InitJob, InitBounds DEF Init
<1>2. Inv /\ [Next]_vars => Inv'
  BY NextKeeps, NextJob, NextOpen, NextFiles DEF JobInv
<1>3. Inv => TypeOK
  <2> SUFFICES ASSUME Inv PROVE TypeOK
    OBVIOUS
  <2>1. IsInjective(jobs)
    BY LenProperties DEF JobInv, JobType, Queue, Once, IsInjective
  <2> QED
    BY <2>1 DEF JobInv, JobType, Queue, FewOpen, Files, EndpointInv, EndpointType, TypeOK, ExecutorStates
<1> QED
  BY <1>1, <1>2, <1>3, PTL DEF Spec
==============================================================================
