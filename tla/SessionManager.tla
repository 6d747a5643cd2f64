--------------------------- MODULE SessionManager ---------------------------
(***************************************************************************)
(* Interactive sessions on the relay: src/src/session/session-manager.ts   *)
(* and session-escrow.ts, driven by session-relay.ts and by the relay's    *)
(* handleDisconnect.  A requester holds a whole budget in escrow, messages *)
(* are metered in memory, and the session ends by request, by disconnect,  *)
(* by an exhausted budget or by one of two timers; ending it settles the   *)
(* escrow.                                                                 *)
(*                                                                         *)
(* Everything runs inside one callback of one process, so each handler and *)
(* each timer callback is one action.  The statuses 'open', 'closing' and  *)
(* 'settled' are set and left within a callback and never observed.        *)
(*                                                                         *)
(* A socket speaks for the owner it registered under last; session_open    *)
(* names requester and provider by owner name or by agent id, whoever      *)
(* sends it, and the clients in the repository send agent ids.  Session    *)
(* ids are fresh (randomUUID).                                             *)
(***************************************************************************)
EXTENDS Integers, FiniteSets

CONSTANTS
    Owner,         \* connection keys
    AgentId,
    Session,
    None,
    Budget,        \* budgets a requester may offer
    MessageRate,   \* per_message_base_rate
    FlatRate,      \* per_session_flat_rate
    MaxMessages,   \* max_messages_per_session
    MaxSessions,   \* max_concurrent_sessions_per_agent
    MaxRestarts    \* bound: restarts of the relay process

Name == Owner \cup AgentId
Model == {"per_message", "per_minute", "per_session"}

ASSUME SessionAssumption ==
    /\ Owner \cap AgentId = {}
    /\ None \notin Name
    /\ Budget \subseteq Nat \ {0}
    /\ MessageRate \in Nat \ {0} /\ FlatRate \in Nat \ {0}
    /\ MaxMessages \in Nat \ {0}
    /\ MaxSessions \in Nat \ {0}
    /\ MaxRestarts \in Nat

VARIABLES
    speaking,       \* registeredOwner of the sockets that still send frames
    session,        \* sessions
    tracking,       \* SessionEscrow.tracking: spent of an escrow, or None
    timers,         \* idleTimers and durationTimers
    agentSessions,  \* sessions a name takes part in
    escrow,         \* status of the session's row in credit_escrow
    restarts

sessionVars == <<speaking, session, tracking, timers, agentSessions, escrow, restarts>>

NoSession == [status |-> "none", opener |-> None, requester |-> None,
              provider |-> None, model |-> "per_message", budget |-> 0,
              spent |-> 0, messages |-> 0]
SessionRow == [status : {"none", "active", "closed", "lost"},
               opener : Owner \cup {None}, requester : Name \cup {None},
               provider : Name \cup {None}, model : Model, budget : Nat,
               spent : Nat, messages : 0 .. MaxMessages]

SessionTypeOK ==
    /\ speaking \in SUBSET Owner
    /\ session \in [Session -> SessionRow]
    /\ tracking \in [Session -> Nat \cup {None}]
    /\ timers \in [Session -> SUBSET {"idle", "duration"}]
    /\ agentSessions \in [Name -> SUBSET Session]
    /\ escrow \in [Session -> {"none", "held", "settled", "released"}]
    /\ restarts \in 0 .. MaxRestarts

SessionInit ==
    /\ speaking = {}
    /\ session = [s \in Session |-> NoSession]
    /\ tracking = [s \in Session |-> None]
    /\ timers = [s \in Session |-> {}]
    /\ agentSessions = [n \in Name |-> {}]
    /\ escrow = [s \in Session |-> "none"]
    /\ restarts = 0

-----------------------------------------------------------------------------
(* Helpers                                                                 *)

Active(s) == session[s].status = "active"

\* A frame can arrive from a registered socket.  Which of them sends it, and
\* whether it has a part in the session it names, is not looked at.
FrameArrives == speaking # {}

\* Seeded fault: the limit is passed by one.
BelowLimitOrAt(o) == Cardinality(agentSessions[o]) <= MaxSessions

\* The check openSession makes first.
BelowLimit(o) == Cardinality(agentSessions[o]) < MaxSessions

\* Seeded fault: the provider is not tracked.
TrackedOpener(o, p, s) ==
    [agentSessions EXCEPT ![o] = @ \cup {s}]

Tracked(o, p, s) ==
    [n \in Name |-> IF n \in {o, p} THEN agentSessions[n] \cup {s}
                                    ELSE agentSessions[n]]

\* Seeded fault: an unspent budget is paid too.
OutcomePaid(spent) == "settled"

\* SessionEscrow.settle pays out the whole row as soon as anything was spent.
Outcome(spent) == IF spent > 0 THEN "settled" ELSE "released"

TimersCleared(R) == [s \in Session |-> IF s \in R THEN {} ELSE timers[s]]

\* endSessionInternal on the sessions of R, left by their last message as
\* "last" says.  It untracks the requester under the id it gave, not under
\* the connection key the session was tracked for.
EndSessions(R, last) ==
    /\ session' = [s \in Session |->
          IF s \in R THEN [last[s] EXCEPT !.status = "closed"] ELSE session[s]]
    /\ tracking' = [s \in Session |-> IF s \in R THEN None ELSE tracking[s]]
    /\ timers' = TimersCleared(R)
    /\ agentSessions' = [n \in Name |->
          agentSessions[n] \ {s \in R : n \in {session[s].requester,
                                               session[s].provider}}]
    /\ escrow' = [s \in Session |->
          IF s \in R THEN Outcome(last[s].spent) ELSE escrow[s]]
    /\ UNCHANGED restarts

-----------------------------------------------------------------------------
(* Messages                                                                *)

\* A socket registers under o.  One that spoke for another owner stops doing
\* so, and nothing ends that owner's sessions.
Register(o, former) ==
    /\ speaking' = (speaking \ {former}) \cup {o}
    /\ UNCHANGED <<session, tracking, timers, agentSessions, escrow, restarts>>

\* openSession, once the hold succeeded; it throws over the limit and when
\* the requester cannot afford the budget.  The sender need not be reachable
\* under its owner name, nor be the requester it names.
OpenSession(s, o, requester, provider, model, budget) ==
    LET spent == IF model = "per_session" THEN FlatRate ELSE 0
    IN  /\ o \in speaking
        /\ session[s].status = "none"
        /\ BelowLimit(o)
        /\ session' = [session EXCEPT ![s] =
              [status |-> "active", opener |-> o, requester |-> requester,
               provider |-> provider, model |-> model, budget |-> budget,
               spent |-> spent, messages |-> 1]]
        /\ tracking' = [tracking EXCEPT ![s] = spent]
        /\ timers' = [timers EXCEPT ![s] = {"idle", "duration"}]
        /\ agentSessions' = Tracked(o, provider, s)
        /\ escrow' = [escrow EXCEPT ![s] = "held"]
        /\ UNCHANGED <<speaking, restarts>>

\* The charge of a reply.  Seeded fault: the session's own counter is left.
ChargedInEscrowOnly(s, sender) ==
    IF sender = "provider" /\ session[s].model = "per_message"
    THEN [spent |-> session[s].spent, tracked |-> tracking[s] + MessageRate]
    ELSE [spent |-> session[s].spent, tracked |-> tracking[s]]
Charged(s, sender) ==
    IF sender = "provider" /\ session[s].model = "per_message"
    THEN [spent |-> session[s].spent + MessageRate,
          tracked |-> tracking[s] + MessageRate]
    ELSE [spent |-> session[s].spent, tracked |-> tracking[s]]

Exhausts(s, sender) ==
    /\ sender = "provider" /\ session[s].model = "per_message"
    /\ session[s].budget - Charged(s, sender).tracked <= 0

AtMessageLimit(s) == session[s].messages >= MaxMessages

\* routeMessage on an active session (on any other it only answers an error):
\* at the message limit the message is dropped and the session ends.
MessageOverLimit(s) ==
    /\ Active(s) /\ FrameArrives
    /\ AtMessageLimit(s)
    /\ EndSessions({s}, session)
    /\ UNCHANGED speaking

\* The reply that uses the budget up is forwarded, then the session ends.
LastReply(s, sender) ==
    /\ Active(s) /\ FrameArrives
    /\ ~AtMessageLimit(s)
    /\ Exhausts(s, sender)
    /\ EndSessions({s}, [session EXCEPT
          ![s].spent = Charged(s, sender).spent, ![s].messages = @ + 1])
    /\ UNCHANGED speaking

RouteMessage(s, sender) ==
    /\ Active(s) /\ FrameArrives
    /\ ~AtMessageLimit(s)
    /\ ~Exhausts(s, sender)
    /\ session' = [session EXCEPT ![s].spent = Charged(s, sender).spent,
                                  ![s].messages = @ + 1]
    /\ tracking' = [tracking EXCEPT ![s] = Charged(s, sender).tracked]
    /\ timers' = [timers EXCEPT ![s] = @ \cup {"idle"}]
    /\ UNCHANGED <<speaking, agentSessions, escrow,
                   restarts>>

\* endSession, by either party.
EndSession(s) ==
    /\ Active(s) /\ FrameArrives
    /\ EndSessions({s}, session)
    /\ UNCHANGED speaking

\* handleDisconnect, at the error or the close of a socket that speaks for o:
\* the sessions tracked under the connection key.  A socket may still speak
\* for o afterwards: one that replaced it, or this one before its close.
Disconnect(o) ==
    /\ o \in speaking
    /\ speaking' \in {speaking, speaking \ {o}}
    /\ EndSessions({s \in agentSessions[o] : Active(s)}, session)

-----------------------------------------------------------------------------
(* Time                                                                    *)

IdleTimeout(s) ==
    /\ "idle" \in timers[s]
    /\ Active(s)
    /\ EndSessions({s}, session)
    /\ UNCHANGED speaking

\* Seeded fault: the callback looks for a session that is still opening.
DurationTimeoutMissed(s) ==
    /\ "duration" \in timers[s]
    /\ timers' = [timers EXCEPT ![s] = @ \ {"duration"}]
    /\ UNCHANGED <<speaking, session, tracking, agentSessions, escrow, restarts>>

DurationTimeout(s) ==
    /\ "duration" \in timers[s]
    /\ Active(s)
    /\ EndSessions({s}, session)
    /\ UNCHANGED speaking

\* Seeded fault: a finalised escrow is released again.
RecoverableAny(s) == escrow[s] # "none"

\* recoverOrphanedEscrows
Recoverable(s) == escrow[s] = "held"

\* shutdown or a crash: what is in memory is lost, and the next start of the
\* daemon releases the held rows that are older than ten minutes.
Restart(old) ==
    /\ restarts < MaxRestarts
    /\ restarts' = restarts + 1
    /\ \A s \in old : Recoverable(s)
    /\ speaking' = {}
    /\ session' = [s \in Session |->
          IF Active(s) THEN [session[s] EXCEPT !.status = "lost"] ELSE session[s]]
    /\ tracking' = [s \in Session |-> None]
    /\ timers' = [s \in Session |-> {}]
    /\ agentSessions' = [n \in Name |-> {}]
    /\ escrow' = [s \in Session |-> IF s \in old THEN "released" ELSE escrow[s]]

SessionNext ==
    \/ \E o \in Owner :
          \/ \E former \in speaking \cup {None} : Register(o, former)
          \/ Disconnect(o)
    \/ \E s \in Session, o \in Owner, model \in Model, budget \in Budget :
          \E requester, provider \in Name :
             OpenSession(s, o, requester, provider, model, budget)
    \/ \E s \in Session, sender \in {"requester", "provider"} :
          LastReply(s, sender) \/ RouteMessage(s, sender)
    \/ \E s \in Session :
          \/ MessageOverLimit(s) \/ EndSession(s)
          \/ IdleTimeout(s) \/ DurationTimeout(s)
    \/ \E old \in SUBSET Session : Restart(old)

SessionSpec == SessionInit /\ [][SessionNext]_sessionVars

\* The duration timer fires: setTimeout is all the fairness there is.
FairSessionSpec ==
    SessionSpec /\ \A s \in Session : WF_sessionVars(DurationTimeout(s))

-----------------------------------------------------------------------------
(* Properties                                                              *)

\* The session's counter and the escrow's agree while the session runs, and
\* the escrow is held exactly that long: endSessionInternal decides by the
\* one whether to settle, SessionEscrow.settle by the other.
MeterMatchesEscrow ==
    \A s \in Session :
        IF Active(s)
        THEN tracking[s] = session[s].spent /\ escrow[s] = "held"
        ELSE /\ tracking[s] = None
             /\ escrow[s] = "held" => session[s].status = "lost"

\* The provider is paid exactly when it was charged for: a session nobody
\* replied in refunds the budget, however it ended.
PaidWhenCharged ==
    \A s \in Session :
        session[s].status = "closed" =>
            (escrow[s] = "settled" <=> session[s].spent > 0)

\* A running session has both timers, an ended one none that could end it
\* again (resetIdleTimer, startDurationTimer, clearTimers).
TimersOfRunning ==
    \A s \in Session :
        timers[s] = IF Active(s) THEN {"idle", "duration"} ELSE {}

\* A running session is found by its opener's connection and by the provider
\* name it gave, and by nobody who has no part in it.
RunningIsTracked ==
    /\ \A s \in Session :
          Active(s) => /\ s \in agentSessions[session[s].opener]
                       /\ s \in agentSessions[session[s].provider]
    /\ \A n \in Name : \A s \in agentSessions[n] :
          n \in {session[s].opener, session[s].provider}

\* A disconnect ends every running session of the connection: those it opened
\* and those that name it as provider (SessionManager.handleDisconnect).
DisconnectEndsSessions ==
    [][\A o \in Owner : Disconnect(o) =>
          \A s \in Session :
             o \in {session[s].opener, session[s].provider} => ~Active(s)']_sessionVars

\* No opener runs more sessions at once than the limit.
LimitHolds ==
    \A o \in Owner :
        Cardinality({s \in Session : Active(s) /\ session[s].opener = o})
            <= MaxSessions

\* Sessions keep what the escrow promises, restarts included.
SessionPromise == INSTANCE EscrowPromise WITH
    EscrowId <- Session,
    HoldAmount <- Budget,
    phase <- [s \in Session |->
        CASE escrow[s] = "none" -> "none"
          [] escrow[s] = "held" -> "open"
          [] escrow[s] = "settled" -> "paid"
          [] escrow[s] = "released" -> "refunded"],
    amount <- [s \in Session |-> session[s].budget],
    out <- [s \in Session |-> IF escrow[s] \in {"settled", "released"}
                              THEN session[s].budget ELSE 0]

SessionKeepsPromise == SessionPromise!PromiseSpec

\* Every session ends, however busy the parties keep the idle timer.
EverySessionEnds == \A s \in Session : Active(s) ~> ~Active(s)

=============================================================================
