---------------------------- MODULE IpcEndpoint ----------------------------
(***************************************************************************)
(* Who owns the IPC socket: IpcServer::start and the second half of        *)
(* IpcServer::stop, run by several daemons over one path.                  *)
(*                                                                         *)
(* A daemon takes the lock file, looks whether somebody answers at the     *)
(* path, removes what is there, binds a socket of its own and listens.     *)
(* Every step is a system call: daemons interleave between any two, and a  *)
(* daemon may be killed between any two, which gives up its lock and its   *)
(* descriptors and leaves the file at the path.  A start that throws ends  *)
(* in stop() too.  Older daemons know nothing of the lock: one may be      *)
(* listening from the start.  Inodes are numbered as they are made.        *)
(*                                                                         *)
(* A definition named Wrong... is what a plausible mistake would make of   *)
(* the definition that follows it; no action uses it.                      *)
(***************************************************************************)
EXTENDS Naturals, FiniteSets

CONSTANTS
  Daemons,    \* sonyd processes (and what replaces each when it is started again)
  Nobody,     \* no daemon
  MaxStarts   \* bound: start() calls

ASSUME EndpointAssumption == Nobody \notin Daemons /\ MaxStarts \in Nat

NoFile == 0
OlderSocket == 1

VARIABLES
  lock,       \* who holds the flock
  path,       \* the inode of the file at _socketPath
  inodes,     \* how many there have been
  starts,     \* what is used of the bound
  listening,  \* the inodes somebody listens on
  phase,      \* of each daemon: how far start() or stop() is
  own,        \* its _listenFd: the socket it bound, NoFile without one
  recorded    \* its _socketInode

endpointVars == <<lock, path, inodes, starts, listening, phase, own, recorded>>

EndpointInit ==
  /\ lock = Nobody
  /\ path \in {NoFile, OlderSocket} /\ inodes = 1 /\ starts = 0
  /\ listening \in IF path = NoFile THEN {{}} ELSE {{}, {OlderSocket}}
  /\ phase = [d \in Daemons |-> "down"]
  /\ own = [d \in Daemons |-> NoFile]
  /\ recorded = [d \in Daemons |-> NoFile]

Goto(d, p) == phase' = [phase EXCEPT ![d] = p]

----------------------------------------------------------------------------
(* start().                                                                *)

WrongLockFile(d) ==
  /\ phase[d] = "down" /\ starts < MaxStarts
  /\ starts' = starts + 1
  /\ lock' = IF lock = Nobody THEN d ELSE lock
  /\ Goto(d, "locked")
  /\ UNCHANGED <<path, inodes, listening, own, recorded>>
LockFile(d) ==
  /\ phase[d] = "down" /\ starts < MaxStarts
  /\ starts' = starts + 1
  /\ IF lock = Nobody THEN lock' = d /\ Goto(d, "locked")
                      ELSE UNCHANGED lock /\ Goto(d, "stopped")
  /\ UNCHANGED <<path, inodes, listening, own, recorded>>

\* Somebody answers: an older daemon.
Probe(d) ==
  /\ phase[d] = "locked"
  /\ Goto(d, IF path \in listening THEN "stopped" ELSE "free")
  /\ UNCHANGED <<lock, path, inodes, starts, listening, own, recorded>>

RemoveStale(d) ==
  /\ phase[d] = "free"
  /\ path' = NoFile
  /\ Goto(d, "removed")
  /\ UNCHANGED <<lock, inodes, starts, listening, own, recorded>>

Bind(d) ==
  /\ phase[d] = "removed"
  /\ IF path = NoFile
     THEN /\ inodes' = inodes + 1 /\ path' = inodes'
          /\ own' = [own EXCEPT ![d] = inodes']
          /\ Goto(d, "bound")
     ELSE /\ Goto(d, "stopped") /\ UNCHANGED <<inodes, path, own>>
  /\ UNCHANGED <<lock, starts, listening, recorded>>

Record(d) ==
  /\ phase[d] = "bound"
  /\ recorded' = [recorded EXCEPT ![d] = path]
  /\ Goto(d, "recorded")
  /\ UNCHANGED <<lock, path, inodes, starts, listening, own>>

\* chmod or listen may fail; after them _running is set and the threads start.
Listen(d) ==
  /\ phase[d] = "recorded"
  /\ \/ listening' = listening \cup {own[d]} /\ Goto(d, "running")
     \/ UNCHANGED listening /\ Goto(d, "stopped")
  /\ UNCHANGED <<lock, path, inodes, starts, own, recorded>>

----------------------------------------------------------------------------
(* stop(), once both threads are joined.                                   *)

CloseSocket(d) ==
  /\ phase[d] = "stopped"
  /\ listening' = listening \ {own[d]}
  /\ own' = [own EXCEPT ![d] = NoFile]
  /\ Goto(d, "closed")
  /\ UNCHANGED <<lock, path, inodes, starts, recorded>>

WrongIsOwnFile(d) == path # NoFile
IsOwnFile(d) == recorded[d] # NoFile /\ path = recorded[d]

CheckFile(d) ==
  /\ phase[d] = "closed"
  /\ Goto(d, IF IsOwnFile(d) THEN "unlinking" ELSE "unlinked")
  /\ UNCHANGED <<lock, path, inodes, starts, listening, own, recorded>>

Unlink(d) ==
  /\ phase[d] = "unlinking"
  /\ path' = NoFile
  /\ Goto(d, "unlinked")
  /\ UNCHANGED <<lock, inodes, starts, listening, own, recorded>>

Unlock(d) ==
  /\ phase[d] = "unlinked"
  /\ recorded' = [recorded EXCEPT ![d] = NoFile]
  /\ lock' = IF lock = d THEN Nobody ELSE lock
  /\ Goto(d, "down")
  /\ UNCHANGED <<path, inodes, starts, listening, own>>

----------------------------------------------------------------------------
\* The process is killed.
Killed(d) ==
  /\ phase[d] # "down"
  /\ listening' = listening \ {own[d]}
  /\ own' = [own EXCEPT ![d] = NoFile]
  /\ recorded' = [recorded EXCEPT ![d] = NoFile]
  /\ lock' = IF lock = d THEN Nobody ELSE lock
  /\ Goto(d, "down")
  /\ UNCHANGED <<path, inodes, starts>>

\* The older daemon ends, and leaves its file or takes it along.
OlderEnds ==
  /\ OlderSocket \in listening
  /\ listening' = listening \ {OlderSocket}
  /\ path' \in {path, NoFile}
  /\ UNCHANGED <<lock, inodes, starts, phase, own, recorded>>

\* The steps one daemon takes by itself.
EndpointStep(d) ==
  \/ LockFile(d) \/ Probe(d) \/ RemoveStale(d) \/ Bind(d) \/ Record(d) \/ Listen(d)
  \/ CloseSocket(d) \/ CheckFile(d) \/ Unlink(d) \/ Unlock(d)

Serving(d) == phase[d] = "running"

=============================================================================
