----------------------------- MODULE ServiceLock -----------------------------
(***************************************************************************)
(* One node, one service: how the processes that run `agentbnb serve` keep *)
(* each other out with the pid file of src/src/runtime/process-guard.ts,   *)
(* how src/src/runtime/service-coordinator.ts starts and shuts the service *)
(* down, and how a process outside stops it.                               *)
(*                                                                         *)
(* Every call to the file system is a step: a process may be overtaken     *)
(* between the read of the pid file and the unlink it decides on.  Process *)
(* ids come back: in a container a restarted service has the id its        *)
(* predecessor left in the file.  All processes use one gateway port.      *)
(***************************************************************************)
EXTENDS Naturals, FiniteSets

CONSTANTS
    Proc,            \* process ids that run the service
    NoProc,          \* no process; as an actor, the manager that unlinks a stale file
    MaxStarts,       \* bound: starts of a process id
    MaxDisruptions   \* bound: signals, crashes, failing starts

ASSUME LockAssumption ==
    /\ NoProc \notin Proc
    /\ MaxStarts \in Nat /\ MaxDisruptions \in Nat

VARIABLES
    file,        \* the pid file: absent, or created by a run and maybe written
    phase,       \* where each process is
    run,         \* how often each process id was started
    left,        \* attempts of acquire, or calls of release, that are left
    intended,    \* what the process read before the unlink it is about to do
    outcome,     \* how the last run of the process ended
    manager,     \* the process outside: "idle", "waiting", "unlinking"
    target,      \* the pid it stops
    raced,       \* history: some live run's file went after a stale read
    disruptions

procVars == <<phase, run, left, intended, outcome>>
managerVars == <<manager, target>>
lockVars == <<file, procVars, managerVars, raced, disruptions>>

Absent == [by |-> NoProc, run |-> 0, written |-> TRUE]
File == [by : Proc \cup {NoProc}, run : 0 .. MaxStarts, written : BOOLEAN]

Starting == {"checking", "checkUnlink", "probing", "probeUnlink", "acquiring",
             "acquireUnlink", "created", "holding", "listening"}
Closing == {"closing", "closed", "releaseUnlink"}
PortOpen == {"listening", "serving", "closing"}
Holding == {"created", "holding", "listening", "serving", "closing"}

LockTypeOK ==
    /\ file \in File
    /\ phase \in [Proc -> Starting \cup Closing \cup {"dead", "serving"}]
    /\ run \in [Proc -> 0 .. MaxStarts]
    /\ left \in [Proc -> 0 .. 2]
    /\ intended \in [Proc \cup {NoProc} -> File]
    /\ outcome \in [Proc -> {"none", "already", "refused", "stopped", "failed", "killed"}]
    /\ manager \in {"idle", "waiting", "unlinking"} /\ target \in Proc \cup {NoProc}
    /\ raced \in BOOLEAN /\ disruptions \in 0 .. MaxDisruptions

\* The file a crash may have left: none, an empty one, that of a dead process.
LockInit ==
    /\ file \in {Absent, [by |-> NoProc, run |-> 0, written |-> FALSE]}
                \cup {[by |-> p, run |-> 0, written |-> TRUE] : p \in Proc}
    /\ phase = [p \in Proc |-> "dead"]
    /\ run = [p \in Proc |-> 0]
    /\ left = [p \in Proc |-> 0]
    /\ intended = [p \in Proc \cup {NoProc} |-> Absent]
    /\ outcome = [p \in Proc |-> "none"]
    /\ manager = "idle" /\ target = NoProc
    /\ raced = FALSE
    /\ disruptions = 0

Alive(p) == phase[p] # "dead"
\* readPidFile returns null for a file that is absent or not yet written.
Readable == file.by # NoProc /\ file.written
NamesLiving == Readable /\ Alive(file.by)

Goes(p, next) == phase' = [phase EXCEPT ![p] = next]
Exits(p, how) == Goes(p, "dead") /\ outcome' = [outcome EXCEPT ![p] = how]
Plans(reader) == intended' = [intended EXCEPT ![reader] = file]

\* safeUnlink: whatever the path names by now is gone.  It is a race when
\* that is the file of a living run and not what the process had judged.
Unlink(actor) ==
    /\ file' = Absent
    /\ raced' = (raced \/ /\ file.by # NoProc /\ file.by # actor
                          /\ Alive(file.by) /\ file.run = run[file.by]
                          /\ file # intended[actor] \/ ~file.written)

-----------------------------------------------------------------------------
(* ensureRunning in the foreground                                         *)

Start(p) ==
    /\ phase[p] = "dead" /\ run[p] < MaxStarts
    /\ Goes(p, "checking")
    /\ run' = [run EXCEPT ![p] = @ + 1]
    /\ outcome' = [outcome EXCEPT ![p] = "none"]
    /\ UNCHANGED <<file, left, intended, managerVars, raced, disruptions>>

ToAcquire(p) == Goes(p, "acquiring") /\ left' = [left EXCEPT ![p] = 2]

\* getRunningMeta.
Check(p) ==
    /\ phase[p] = "checking"
    /\ IF NamesLiving THEN Goes(p, "probing") /\ UNCHANGED <<left, intended>>
       ELSE IF Readable THEN Goes(p, "checkUnlink") /\ Plans(p) /\ UNCHANGED left
       ELSE ToAcquire(p) /\ UNCHANGED intended
    /\ UNCHANGED <<file, run, outcome, managerVars, raced, disruptions>>

CheckUnlink(p) ==
    /\ phase[p] \in {"checkUnlink", "probeUnlink"}
    /\ ToAcquire(p)
    /\ Unlink(p)
    /\ UNCHANGED <<run, intended, outcome, managerVars, disruptions>>

\* release: the file goes if it is the process's own or its holder is dead.
\* Seeded fault: it goes whoever holds it.
ReleasableByAll(p) == Readable
Releasable(p) == Readable /\ (file.by = p \/ ~Alive(file.by))

\* The health check of the port.  A healthy service ends the start; without
\* an answer a foreground start releases the lock, if it may.
Probe(p) ==
    /\ phase[p] = "probing"
    /\ \/ /\ \E q \in Proc : phase[q] \in PortOpen
          /\ Exits(p, "already")
          /\ UNCHANGED <<left, intended>>
       \/ /\ IF Releasable(p) THEN Goes(p, "probeUnlink") /\ Plans(p) /\ UNCHANGED left
             ELSE ToAcquire(p) /\ UNCHANGED intended
          /\ UNCHANGED outcome
    /\ UNCHANGED <<file, run, managerVars, raced, disruptions>>

\* Seeded fault: the file is opened with 'w', and what is there overwritten.
AcquireOverwrites(p) ==
    /\ phase[p] = "acquiring"
    /\ file' = [by |-> p, run |-> run[p], written |-> FALSE]
    /\ Goes(p, "created")
    /\ UNCHANGED <<run, left, intended, outcome, managerVars, raced, disruptions>>
\* Seeded fault: a lock that cannot be read keeps everyone out.
AcquireTrusts(p) ==
    /\ phase[p] = "acquiring"
    /\ IF file = Absent
       THEN /\ file' = [by |-> p, run |-> run[p], written |-> FALSE]
            /\ Goes(p, "created")
            /\ UNCHANGED <<intended, outcome>>
       ELSE /\ UNCHANGED file
            /\ IF NamesLiving \/ ~Readable
               THEN Exits(p, "refused") /\ UNCHANGED intended
               ELSE Goes(p, "acquireUnlink") /\ Plans(p) /\ UNCHANGED outcome
    /\ UNCHANGED <<run, left, managerVars, raced, disruptions>>
\* One attempt of acquire: open with 'wx', or judge the file that is there.
Acquire(p) ==
    /\ phase[p] = "acquiring"
    /\ IF file = Absent
       THEN /\ file' = [by |-> p, run |-> run[p], written |-> FALSE]
            /\ Goes(p, "created")
            /\ UNCHANGED <<intended, outcome>>
       ELSE /\ UNCHANGED file
            /\ IF NamesLiving
               THEN Exits(p, "refused") /\ UNCHANGED intended
               ELSE Goes(p, "acquireUnlink") /\ Plans(p) /\ UNCHANGED outcome
    /\ UNCHANGED <<run, left, managerVars, raced, disruptions>>

\* The unlink of cleanupStaleLock: done by somebody else already, or a retry,
\* of which there is one.
AcquireUnlink(p) ==
    /\ phase[p] = "acquireUnlink"
    /\ IF file = Absent
       THEN Exits(p, "refused") /\ UNCHANGED <<file, raced, left>>
       ELSE /\ Unlink(p)
            /\ left' = [left EXCEPT ![p] = @ - 1]
            /\ IF left[p] = 1 THEN Exits(p, "refused")
               ELSE Goes(p, "acquiring") /\ UNCHANGED outcome
    /\ UNCHANGED <<run, intended, managerVars, disruptions>>

\* The pid is written through the open file, which the path may no longer name.
Write(p) ==
    /\ phase[p] = "created"
    /\ Goes(p, "holding")
    /\ file' = IF file.by = p /\ file.run = run[p]
               THEN [file EXCEPT !.written = TRUE] ELSE file
    /\ UNCHANGED <<run, left, intended, outcome, managerVars, raced, disruptions>>

-----------------------------------------------------------------------------
(* The service: startServiceStack and shutdownInProcess                    *)

\* The calls of release that follow: one, or two when a start has failed.
Winds(p, next, calls) == Goes(p, next) /\ left' = [left EXCEPT ![p] = calls]

\* Runtime first, then the gateway's port, which another service may hold.
Listen(p) ==
    /\ phase[p] = "holding"
    /\ IF \E q \in Proc : phase[q] \in PortOpen
       THEN Winds(p, "closed", 2)
       ELSE Goes(p, "listening") /\ UNCHANGED left
    /\ UNCHANGED <<file, run, intended, outcome, managerVars, raced, disruptions>>

\* Registry and relay are up: the handlers of signals are registered.
Ready(p) ==
    /\ phase[p] = "listening"
    /\ Goes(p, "serving")
    /\ UNCHANGED <<file, run, left, intended, outcome, managerVars, raced, disruptions>>

Disrupts == disruptions < MaxDisruptions /\ disruptions' = disruptions + 1

StartFails(p) ==
    /\ phase[p] = "listening" /\ Disrupts
    /\ Winds(p, "closing", 2)
    /\ UNCHANGED <<file, run, intended, outcome, managerVars, raced>>

\* SIGTERM: handled by a service that is up; the default action before that,
\* and once more after it, for the handlers are registered once.
Signalled(p) ==
    /\ Alive(p)
    /\ IF phase[p] = "serving"
       THEN Winds(p, "closing", 1) /\ UNCHANGED outcome
       ELSE Exits(p, "killed") /\ UNCHANGED left
    /\ UNCHANGED <<run, intended>>

Terminate(p) ==
    /\ Disrupts /\ Signalled(p)
    /\ UNCHANGED <<file, managerVars, raced>>

Crash(p) ==
    /\ phase[p] = "serving" /\ Disrupts
    /\ Exits(p, "killed")
    /\ UNCHANGED <<file, run, left, intended, managerVars, raced>>

CloseGateway(p) ==
    /\ phase[p] = "closing"
    /\ Goes(p, "closed")
    /\ UNCHANGED <<file, run, left, intended, outcome, managerVars, raced, disruptions>>

\* One call of release returns.
Returns(p) ==
    /\ left' = [left EXCEPT ![p] = @ - 1]
    /\ IF left[p] = 1 THEN Exits(p, "stopped") ELSE Goes(p, "closed") /\ UNCHANGED outcome

\* Seeded fault: the first release of a start that failed is the last.
ReleaseForgets(p) ==
    /\ phase[p] = "closed"
    /\ Exits(p, "stopped")
    /\ UNCHANGED <<left, intended, file, run, managerVars, raced, disruptions>>
Release(p) ==
    /\ phase[p] = "closed"
    /\ IF Releasable(p) THEN Goes(p, "releaseUnlink") /\ Plans(p) /\ UNCHANGED <<left, outcome>>
       ELSE Returns(p) /\ UNCHANGED intended
    /\ UNCHANGED <<file, run, managerVars, raced, disruptions>>

ReleaseUnlink(p) ==
    /\ phase[p] = "releaseUnlink"
    /\ Unlink(p)
    /\ Returns(p)
    /\ UNCHANGED <<run, intended, managerVars, disruptions>>

-----------------------------------------------------------------------------
(* A process outside: stop, and the rollback of a managed start            *)

StopSignals ==
    /\ manager = "idle" /\ NamesLiving /\ Disrupts
    /\ Signalled(file.by)
    /\ manager' = "waiting" /\ target' = file.by
    /\ UNCHANGED <<file, raced>>

\* The process is gone, and the lock is released if its holder is dead; or
\* the wait timed out.
StopReleases ==
    /\ manager = "waiting"
    /\ \/ /\ ~Alive(target) /\ Readable /\ ~NamesLiving
          /\ manager' = "unlinking" /\ Plans(NoProc) /\ UNCHANGED target
       \/ /\ manager' = "idle" /\ target' = NoProc /\ UNCHANGED intended
          /\ Alive(target) \/ ~Readable \/ NamesLiving
    /\ UNCHANGED <<file, phase, run, left, outcome, raced, disruptions>>

StopUnlinks ==
    /\ manager = "unlinking"
    /\ Unlink(NoProc)
    /\ manager' = "idle" /\ target' = NoProc
    /\ UNCHANGED <<procVars, disruptions>>

-----------------------------------------------------------------------------

Proceeds(p) ==
    \/ Check(p) \/ CheckUnlink(p) \/ Probe(p) \/ Acquire(p) \/ AcquireUnlink(p)
    \/ Write(p) \/ Listen(p) \/ Ready(p) \/ CloseGateway(p) \/ Release(p) \/ ReleaseUnlink(p)

LockNext ==
    \/ \E p \in Proc : Start(p) \/ Proceeds(p) \/ StartFails(p) \/ Terminate(p) \/ Crash(p)
    \/ StopSignals \/ StopReleases \/ StopUnlinks

\* A process that runs goes on; nothing starts, signals or fails by itself.
LockFairness == \A p \in Proc : WF_lockVars(Proceeds(p))

LockSpec == LockInit /\ [][LockNext]_lockVars /\ LockFairness

-----------------------------------------------------------------------------
(* Properties                                                              *)

Holders == {p \in Proc : phase[p] \in Holding}

\* Two processes hold the lock at once only after a race: some process
\* unlinked the file of a living one, because it had read an older file under
\* that path or caught the new one before its pid was written
\* (process-guard.ts:56, :148-160).
ExclusiveUnlessRaced == Cardinality(Holders) > 1 => raced

\* The lock file names the service that is up, which is what `stop` needs to
\* find it, again unless there was a race (process-guard.ts:98-105).
ServiceIsNamed ==
    \A p \in Proc :
       phase[p] \in {"holding", "listening", "serving"} /\ ~raced
          => file = [by |-> p, run |-> run[p], written |-> TRUE]

\* The lock's state and its meaning: but for a race, the file names the service.
LockInv == LockTypeOK /\ ServiceIsNamed

\* A service that shut down, or a start that failed, leaves no lock of its own
\* (service-coordinator.ts:225-228, :469).
CleanExitLeavesNoLock ==
    \A p \in Proc : outcome[p] = "stopped" => ~(file.by = p /\ file.run = run[p])

\* A lock never bars the service: starts that begin when signals and crashes
\* are over and nobody is under way lead to a service that is up, whatever the
\* file says: stale, empty, or naming the very process that reads it
\* (process-guard.ts:151, service-coordinator.ts:124).
SomeoneServes ==
    ( /\ disruptions = MaxDisruptions
      /\ \E p \in Proc : phase[p] = "checking"
      /\ \A p \in Proc : phase[p] \in {"checking", "dead"}
      /\ manager = "idle" )
    ~> (\E p \in Proc : phase[p] = "serving")

\* The process lock is acquired atomically: it has at most one holder
\* (process-guard.ts:34-38).
LockIsExclusive == Cardinality(Holders) <= 1

=============================================================================
