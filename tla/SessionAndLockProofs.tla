------------------------- MODULE SessionAndLockProofs -------------------------
(***************************************************************************)
(* Theorems about the session manager (SessionManager), for any number of  *)
(* owners, agents and sessions, any budgets, rates and limits; and about   *)
(* the daemon's process lock (ServiceLock), for any number of processes,   *)
(* restarts, signals and crashes.  The two share neither state nor lemmas. *)
(*                                                                         *)
(* Sessions.  Whatever ends sessions (a request, a timer, a disconnect, the *)
(* message limit or an exhausted budget) does so through EndSessions, so   *)
(* that one lemma, EndsKeep, carries most of the induction.                *)
(*                                                                         *)
(* Lock.  A step of a process is one of three kinds: it moves without      *)
(* touching the pid file (MoveKeeps), it unlinks whatever the path names   *)
(* (UnlinkKeeps), or it starts, creates the file or writes its pid.        *)
(***************************************************************************)
EXTENDS SessionManager, ServiceLock, FiniteSetTheorems, TLAPS

-----------------------------------------------------------------------------
(* Sessions: the invariants                                                *)

\* A session id nobody has used has no row anywhere; a used one has an escrow.
FreshHasNoEscrow ==
    \A s \in Session :
        /\ session[s].status = "none" => session[s] = NoSession
        /\ session[s].status = "none" <=> escrow[s] = "none"

\* A running session has an opener and a provider.
HasParties ==
    \A s \in Session :
        Active(s) => session[s].opener \in Owner /\ session[s].provider \in Name

\* The inductive invariant.
SessionInv ==
    /\ SessionTypeOK
    /\ FreshHasNoEscrow
    /\ HasParties
    /\ MeterMatchesEscrow
    /\ PaidWhenCharged
    /\ TimersOfRunning
    /\ RunningIsTracked

\* What a step may do to the escrow of a session.
EscrowStays(s) ==
    escrow'[s] = escrow[s] /\ session'[s].budget = session[s].budget
EscrowOpens(s) ==
    escrow[s] = "none" /\ escrow'[s] = "held" /\ session'[s].budget \in Budget
EscrowCloses(s) ==
    /\ escrow[s] = "held" /\ escrow'[s] \in {"settled", "released"}
    /\ session'[s].budget = session[s].budget

EscrowMoves == \A s \in Session :
                   EscrowStays(s) \/ EscrowOpens(s) \/ EscrowCloses(s)

GoodStep == SessionInv' /\ EscrowMoves

-----------------------------------------------------------------------------
\* A row stays a row when its counters get values of their types.
LEMMA RowFields ==
    ASSUME NEW x \in SessionRow, NEW n \in Nat, NEW m \in 0 .. MaxMessages,
           NEW status \in {"none", "active", "closed", "lost"}
    PROVE  /\ [x EXCEPT !.status = status] \in SessionRow
           /\ [x EXCEPT !.spent = n, !.messages = m] \in SessionRow
BY DEF SessionRow

\* Ending running sessions, with rows that differ from the present ones in
\* their counters only, keeps the invariant.
LEMMA EndsKeep ==
    ASSUME SessionInv, NEW R \in SUBSET Session, NEW last,
           last \in [Session -> SessionRow],
           \A s \in R : /\ Active(s)
                        /\ last[s].opener = session[s].opener
                        /\ last[s].provider = session[s].provider
                        /\ last[s].budget = session[s].budget,
           EndSessions(R, last),
           speaking' \in SUBSET Owner
    PROVE  GoodStep
<1>1. /\ session' = [s \in Session |->
             IF s \in R THEN [last[s] EXCEPT !.status = "closed"] ELSE session[s]]
      /\ tracking' = [s \in Session |-> IF s \in R THEN None ELSE tracking[s]]
      /\ timers' = [s \in Session |-> IF s \in R THEN {} ELSE timers[s]]
      /\ agentSessions' = [n \in Name |->
             agentSessions[n] \ {s \in R : n \in {session[s].requester,
                                                  session[s].provider}}]
      /\ escrow' = [s \in Session |->
             IF s \in R THEN Outcome(last[s].spent) ELSE escrow[s]]
      /\ restarts' = restarts
  BY DEF EndSessions, TimersCleared
<1>2. \A s \in R : /\ session'[s].status = "closed"
                   /\ session'[s].opener = session[s].opener
                   /\ session'[s].provider = session[s].provider
                   /\ session'[s].budget = session[s].budget
                   /\ session'[s].spent = last[s].spent
                   /\ session'[s] \in SessionRow
                   /\ tracking'[s] = None /\ timers'[s] = {}
                   /\ escrow'[s] = Outcome(last[s].spent)
  <2> SUFFICES ASSUME NEW s \in R
               PROVE  /\ session'[s].status = "closed"
                      /\ session'[s].opener = session[s].opener
                      /\ session'[s].provider = session[s].provider
                      /\ session'[s].budget = session[s].budget
                      /\ session'[s].spent = last[s].spent
                      /\ session'[s] \in SessionRow
                      /\ tracking'[s] = None /\ timers'[s] = {}
                      /\ escrow'[s] = Outcome(last[s].spent)
    OBVIOUS
  <2>1. session'[s] = [last[s] EXCEPT !.status = "closed"]
        /\ last[s] \in SessionRow
    BY <1>1
  <2>2. session'[s] \in SessionRow
    BY <2>1 DEF SessionRow
  <2> QED
    BY <1>1, <2>1, <2>2 DEF SessionRow
<1>3. \A s \in Session \ R : /\ session'[s] = session[s]
                             /\ tracking'[s] = tracking[s]
                             /\ timers'[s] = timers[s]
                             /\ escrow'[s] = escrow[s]
  BY <1>1
<1>4. \A s \in R : escrow'[s] \in {"settled", "released"}
  BY <1>2 DEF Outcome
<1>5. SessionTypeOK'
  <2>1. session' \in [Session -> SessionRow]
    BY <1>1, <1>2, <1>3 DEF SessionInv, SessionTypeOK
  <2>2. tracking' \in [Session -> Nat \cup {None}]
    BY <1>1 DEF SessionInv, SessionTypeOK
  <2>3. timers' \in [Session -> SUBSET {"idle", "duration"}]
    BY <1>1 DEF SessionInv, SessionTypeOK
  <2>4. agentSessions' \in [Name -> SUBSET Session]
    BY <1>1 DEF SessionInv, SessionTypeOK
  <2>5. escrow' \in [Session -> {"none", "held", "settled", "released"}]
    BY <1>1 DEF SessionInv, SessionTypeOK, Outcome
  <2> QED
    BY <1>1, <2>1, <2>2, <2>3, <2>4, <2>5 DEF SessionInv, SessionTypeOK
<1>6. FreshHasNoEscrow'
  BY <1>2, <1>3, <1>4 DEF SessionInv, FreshHasNoEscrow
<1>7. MeterMatchesEscrow'
  BY <1>2, <1>3, <1>4 DEF SessionInv, MeterMatchesEscrow, Active
<1>8. PaidWhenCharged'
  BY <1>2, <1>3 DEF SessionInv, PaidWhenCharged, Outcome
<1>9. TimersOfRunning'
  <2> SUFFICES ASSUME NEW s \in Session
               PROVE  timers'[s] = IF Active(s)' THEN {"idle", "duration"} ELSE {}
    BY DEF TimersOfRunning
  <2>1. CASE s \in R
    BY <1>2, <2>1 DEF Active
  <2>2. CASE s \notin R
    BY <1>3, <2>2 DEF SessionInv, TimersOfRunning, Active
  <2> QED
    BY <2>1, <2>2
<1>10. RunningIsTracked'
  <2>1. ASSUME NEW s \in Session, Active(s)'
        PROVE  /\ s \in agentSessions'[session'[s].opener]
               /\ s \in agentSessions'[session'[s].provider]
    <3>1. s \notin R /\ session'[s] = session[s] /\ Active(s)
      BY <1>2, <1>3, <2>1 DEF Active
    <3>2. /\ s \in agentSessions[session[s].opener]
          /\ s \in agentSessions[session[s].provider]
      BY <3>1 DEF SessionInv, RunningIsTracked
    <3>3. session[s].opener \in Name /\ session[s].provider \in Name
      BY <3>1 DEF SessionInv, HasParties, Name
    <3> QED
      BY <1>1, <3>1, <3>2, <3>3
  <2>2. ASSUME NEW n \in Name, NEW s \in agentSessions'[n]
        PROVE  n \in {session'[s].opener, session'[s].provider}
    <3>1. s \in agentSessions[n] /\ s \in Session
      BY <1>1, <2>2 DEF SessionInv, SessionTypeOK
    <3>2. n \in {session[s].opener, session[s].provider}
      BY <3>1 DEF SessionInv, RunningIsTracked
    <3> QED
      BY <1>2, <1>3, <3>1, <3>2
  <2> QED
    BY <2>1, <2>2 DEF RunningIsTracked
<1>11. EscrowMoves
  <2>1. \A s \in R : escrow[s] = "held"
    BY DEF SessionInv, MeterMatchesEscrow
  <2> QED
    BY <1>2, <1>3, <1>4, <2>1 DEF EscrowMoves, EscrowStays, EscrowCloses
<1>12. HasParties'
  BY <1>2, <1>3 DEF SessionInv, HasParties, Active
<1> QED
  BY <1>5, <1>6, <1>7, <1>8, <1>9, <1>10, <1>11, <1>12
  DEF GoodStep, SessionInv

\* What ends one session keeps the invariant: its row as it is, or with the
\* charge of the last reply.
LEMMA EndOneKeeps ==
    ASSUME SessionInv, NEW s \in Session, Active(s), NEW n \in Nat,
           NEW last, \/ last = session
                     \/ /\ session[s].messages + 1 \in 0 .. MaxMessages
                        /\ last = [session EXCEPT ![s].spent = n,
                                                  ![s].messages = @ + 1],
           EndSessions({s}, last), UNCHANGED speaking
    PROVE  GoodStep
<1>1. session \in [Session -> SessionRow] /\ speaking \in SUBSET Owner
  BY DEF SessionInv, SessionTypeOK
<1>2. last \in [Session -> SessionRow]
      /\ last[s].opener = session[s].opener
      /\ last[s].provider = session[s].provider
      /\ last[s].budget = session[s].budget
  <2>1. CASE last = session
    BY <1>1, <2>1
  <2>2. CASE /\ session[s].messages + 1 \in 0 .. MaxMessages
             /\ last = [session EXCEPT ![s].spent = n, ![s].messages = @ + 1]
    <3> DEFINE m == session[s].messages + 1
    <3>1. m \in 0 .. MaxMessages
      BY <2>2
    <3>2. last = [session EXCEPT ![s] = [session[s] EXCEPT !.spent = n, !.messages = m]]
      BY <1>1, <2>2
    <3> HIDE DEF m
    <3>3. [session[s] EXCEPT !.spent = n, !.messages = m] \in SessionRow
      BY <1>1, <3>1, RowFields
    <3>4. session[s] \in SessionRow
      BY <1>1
    <3> QED
      BY <1>1, <3>2, <3>3, <3>4 DEF SessionRow
  <2> QED
    BY <2>1, <2>2
<1> QED
  BY <1>1, <1>2, EndsKeep

\* The charge of a reply is a number, and the same one in both counters.
LEMMA ChargedNat ==
    ASSUME SessionInv, NEW s \in Session, Active(s), NEW sender
    PROVE  /\ Charged(s, sender).spent \in Nat
           /\ Charged(s, sender).tracked = Charged(s, sender).spent
<1>1. session[s].spent \in Nat /\ tracking[s] = session[s].spent
  BY DEF SessionInv, SessionTypeOK, SessionRow, MeterMatchesEscrow
<1> QED
  BY <1>1, SessionAssumption DEF Charged

\* The initial state has no sessions.
LEMMA InitSessionInv ==
    SessionInit => SessionInv
<1> SUFFICES ASSUME SessionInit PROVE SessionInv
  OBVIOUS
<1>1. NoSession \in SessionRow /\ NoSession.status = "none"
  BY SessionAssumption DEF NoSession, SessionRow, Model
<1>2. SessionTypeOK
  BY <1>1, SessionAssumption DEF SessionInit, SessionTypeOK
<1>3. \A s \in Session : session[s] = NoSession /\ ~Active(s)
  BY <1>1 DEF SessionInit, Active
<1>4. FreshHasNoEscrow /\ HasParties /\ MeterMatchesEscrow /\ PaidWhenCharged
  BY <1>1, <1>3 DEF SessionInit, FreshHasNoEscrow, HasParties,
     MeterMatchesEscrow, PaidWhenCharged
<1>5. TimersOfRunning /\ RunningIsTracked
  BY <1>3 DEF SessionInit, TimersOfRunning, RunningIsTracked
<1> QED
  BY <1>2, <1>4, <1>5 DEF SessionInv

\* A registration moves no session.
LEMMA RegisterKeeps ==
    ASSUME SessionInv, NEW o \in Owner, NEW former, Register(o, former)
    PROVE  GoodStep
<1>1. speaking' = (speaking \ {former}) \cup {o} /\ UNCHANGED <<session, tracking,
                                            timers, agentSessions, escrow, restarts>>
  BY DEF Register
<1>2. SessionTypeOK'
  BY <1>1 DEF SessionInv, SessionTypeOK
<1>3. FreshHasNoEscrow' /\ HasParties' /\ MeterMatchesEscrow' /\ PaidWhenCharged'
  BY <1>1 DEF SessionInv, FreshHasNoEscrow, HasParties, MeterMatchesEscrow,
     PaidWhenCharged, Active
<1>4. TimersOfRunning' /\ RunningIsTracked'
  BY <1>1 DEF SessionInv, TimersOfRunning, RunningIsTracked, Active
<1>5. EscrowMoves
  BY <1>1 DEF EscrowMoves, EscrowStays
<1> QED
  BY <1>2, <1>3, <1>4, <1>5 DEF GoodStep, SessionInv

\* A new session has a row, a meter, both timers, an escrow, and is tracked
\* under both its names.
LEMMA OpenSessionKeeps ==
    ASSUME SessionInv, NEW s \in Session, NEW o \in Owner,
           NEW model \in Model, NEW budget \in Budget,
           NEW requester \in Name, NEW provider \in Name,
           OpenSession(s, o, requester, provider, model, budget)
    PROVE  GoodStep
<1> DEFINE spent == IF model = "per_session" THEN FlatRate ELSE 0
           row == [status |-> "active", opener |-> o, requester |-> requester,
                   provider |-> provider, model |-> model, budget |-> budget,
                   spent |-> spent, messages |-> 1]
<1>1. /\ session[s].status = "none"
      /\ session' = [session EXCEPT ![s] = row]
      /\ tracking' = [tracking EXCEPT ![s] = spent]
      /\ timers' = [timers EXCEPT ![s] = {"idle", "duration"}]
      /\ agentSessions' = [n \in Name |->
             IF n \in {o, provider} THEN agentSessions[n] \cup {s}
                                    ELSE agentSessions[n]]
      /\ escrow' = [escrow EXCEPT ![s] = "held"]
      /\ UNCHANGED <<speaking, restarts>>
  BY DEF OpenSession, Tracked
<1>2. spent \in Nat
  BY SessionAssumption
<1> HIDE DEF spent
<1>3. requester \in Name
  OBVIOUS
<1>4. /\ row \in SessionRow /\ row.status = "active" /\ row.opener = o
      /\ row.provider = provider /\ row.budget = budget /\ row.spent = spent
  BY <1>2, <1>3, SessionAssumption DEF SessionRow
<1> HIDE DEF row
<1>5. SessionTypeOK
  BY DEF SessionInv
<1>6. /\ session'[s] = row /\ tracking'[s] = spent
      /\ timers'[s] = {"idle", "duration"} /\ escrow'[s] = "held"
      /\ escrow[s] = "none"
  BY <1>1, <1>5 DEF SessionTypeOK, SessionInv, FreshHasNoEscrow
<1>7. \A r \in Session \ {s} :
          /\ session'[r] = session[r] /\ tracking'[r] = tracking[r]
          /\ timers'[r] = timers[r] /\ escrow'[r] = escrow[r]
  BY <1>1, <1>5 DEF SessionTypeOK
<1>8. SessionTypeOK'
  <2>1. session' \in [Session -> SessionRow]
    BY <1>1, <1>4, <1>5 DEF SessionTypeOK
  <2>2. tracking' \in [Session -> Nat \cup {None}]
    BY <1>1, <1>2, <1>5 DEF SessionTypeOK
  <2>3. timers' \in [Session -> SUBSET {"idle", "duration"}]
    BY <1>1, <1>5 DEF SessionTypeOK
  <2>4. agentSessions' \in [Name -> SUBSET Session]
    BY <1>1, <1>5 DEF SessionTypeOK
  <2>5. escrow' \in [Session -> {"none", "held", "settled", "released"}]
    BY <1>1, <1>5 DEF SessionTypeOK
  <2> QED
    BY <1>1, <1>5, <2>1, <2>2, <2>3, <2>4, <2>5 DEF SessionTypeOK
<1>9. FreshHasNoEscrow' /\ HasParties'
  BY <1>4, <1>6, <1>7 DEF SessionInv, FreshHasNoEscrow, HasParties, Active
<1>10. MeterMatchesEscrow' /\ PaidWhenCharged'
  BY <1>4, <1>6, <1>7 DEF SessionInv, MeterMatchesEscrow, PaidWhenCharged, Active
<1>11. TimersOfRunning'
  <2> SUFFICES ASSUME NEW r \in Session
               PROVE  timers'[r] = IF Active(r)' THEN {"idle", "duration"} ELSE {}
    BY DEF TimersOfRunning
  <2>1. CASE r = s
    BY <1>4, <1>6, <2>1 DEF Active
  <2>2. CASE r # s
    BY <1>7, <2>2 DEF SessionInv, TimersOfRunning, Active
  <2> QED
    BY <2>1, <2>2
<1>12. RunningIsTracked'
  <2>1. ASSUME NEW r \in Session, Active(r)'
        PROVE  /\ r \in agentSessions'[session'[r].opener]
               /\ r \in agentSessions'[session'[r].provider]
    <3>1. CASE r = s
      BY <1>1, <1>4, <1>6, <3>1 DEF Name
    <3>2. CASE r # s
      <4>1. session'[r] = session[r] /\ Active(r)
        BY <1>7, <2>1, <3>2 DEF Active
      <4>2. /\ r \in agentSessions[session[r].opener]
            /\ r \in agentSessions[session[r].provider]
        BY <4>1 DEF SessionInv, RunningIsTracked
      <4>3. session[r].opener \in Name /\ session[r].provider \in Name
        BY <4>1 DEF SessionInv, HasParties, Name
      <4> QED
        BY <1>1, <4>1, <4>2, <4>3
    <3> QED
      BY <3>1, <3>2
  <2>2. ASSUME NEW n \in Name, NEW r \in agentSessions'[n]
        PROVE  n \in {session'[r].opener, session'[r].provider}
    <3>1. r \in agentSessions[n] \/ (r = s /\ n \in {o, provider})
      BY <1>1
    <3>2. CASE r = s /\ n \in {o, provider}
      BY <1>4, <1>6, <3>2
    <3>3. CASE r \in agentSessions[n]
      <4>1. r \in Session /\ n \in {session[r].opener, session[r].provider}
        BY <1>5, <3>3 DEF SessionInv, RunningIsTracked, SessionTypeOK
      <4>2. r # s
        <5>1. session[s].opener = None /\ session[s].provider = None
          BY <1>1 DEF SessionInv, FreshHasNoEscrow, NoSession
        <5> QED
          BY <4>1, <5>1, SessionAssumption
      <4> QED
        BY <1>7, <4>1, <4>2
    <3> QED
      BY <3>1, <3>2, <3>3
  <2> QED
    BY <2>1, <2>2 DEF RunningIsTracked
<1>13. EscrowMoves
  BY <1>4, <1>6, <1>7 DEF EscrowMoves, EscrowStays, EscrowOpens
<1> QED
  BY <1>8, <1>9, <1>10, <1>11, <1>12, <1>13 DEF GoodStep, SessionInv

\* A message raises both counters of a running session alike and restarts
\* its idle timer.
LEMMA RouteMessageKeeps ==
    ASSUME SessionInv, NEW s \in Session, NEW sender, RouteMessage(s, sender)
    PROVE  GoodStep
<1> DEFINE n == Charged(s, sender).spent
           m == session[s].messages + 1
<1>1. /\ Active(s) /\ ~AtMessageLimit(s)
      /\ session' = [session EXCEPT ![s].spent = n, ![s].messages = @ + 1]
      /\ tracking' = [tracking EXCEPT ![s] = Charged(s, sender).tracked]
      /\ timers' = [timers EXCEPT ![s] = @ \cup {"idle"}]
      /\ UNCHANGED <<speaking, agentSessions, escrow, restarts>>
  BY DEF RouteMessage
<1>2. n \in Nat /\ Charged(s, sender).tracked = n
  BY <1>1, ChargedNat
<1>3. SessionTypeOK
  BY DEF SessionInv
<1>4. session[s] \in SessionRow /\ session \in [Session -> SessionRow]
  BY <1>3 DEF SessionTypeOK
<1>5. m \in 0 .. MaxMessages
  <2>1. session[s].messages \in 0 .. MaxMessages
    BY <1>4 DEF SessionRow
  <2> QED
    BY <1>1, <2>1, SessionAssumption DEF AtMessageLimit
<1>6. session' = [session EXCEPT ![s] = [session[s] EXCEPT !.spent = n, !.messages = m]]
  BY <1>1, <1>4
<1> HIDE DEF n, m
<1> DEFINE row == [session[s] EXCEPT !.spent = n, !.messages = m]
<1>7. /\ row \in SessionRow /\ row.status = session[s].status
      /\ row.opener = session[s].opener /\ row.provider = session[s].provider
      /\ row.budget = session[s].budget /\ row.spent = n
  BY <1>2, <1>4, <1>5, RowFields DEF SessionRow
<1> HIDE DEF row
<1>8. /\ session'[s] = row /\ tracking'[s] = n /\ row.status = "active"
      /\ timers'[s] = {"idle", "duration"}
  <2>1. session'[s] = row
    BY <1>4, <1>6 DEF row
  <2>2. tracking'[s] = n
    BY <1>1, <1>2, <1>3 DEF SessionTypeOK
  <2>3. timers[s] = {"idle", "duration"}
    BY <1>1 DEF SessionInv, TimersOfRunning
  <2>4. timers'[s] = {"idle", "duration"}
    BY <1>1, <1>3, <2>3 DEF SessionTypeOK
  <2> QED
    BY <1>1, <1>7, <2>1, <2>2, <2>4 DEF Active
<1>9. \A r \in Session \ {s} :
          session'[r] = session[r] /\ tracking'[r] = tracking[r]
          /\ timers'[r] = timers[r]
  BY <1>1, <1>3, <1>6 DEF SessionTypeOK
<1>10. SessionTypeOK'
  <2>1. session' \in [Session -> SessionRow]
    BY <1>4, <1>6, <1>7 DEF row
  <2>2. tracking' \in [Session -> Nat \cup {None}]
    BY <1>1, <1>2, <1>3 DEF SessionTypeOK
  <2>3. timers' \in [Session -> SUBSET {"idle", "duration"}]
    BY <1>1, <1>3 DEF SessionTypeOK
  <2> QED
    BY <1>1, <1>3, <2>1, <2>2, <2>3 DEF SessionTypeOK
<1>11. \A r \in Session : /\ session'[r].status = session[r].status
                          /\ session'[r].opener = session[r].opener
                          /\ session'[r].provider = session[r].provider
                          /\ session'[r].budget = session[r].budget
                          /\ escrow'[r] = escrow[r]
  BY <1>1, <1>7, <1>8, <1>9
<1>12. FreshHasNoEscrow' /\ HasParties'
  <2>1. FreshHasNoEscrow'
    <3> SUFFICES ASSUME NEW r \in Session
                 PROVE  /\ session'[r].status = "none" => session'[r] = NoSession
                        /\ session'[r].status = "none" <=> escrow'[r] = "none"
      BY DEF FreshHasNoEscrow
    <3>1. session'[r].status = "none" => session'[r] = NoSession
      BY <1>8, <1>9 DEF SessionInv, FreshHasNoEscrow
    <3>2. session'[r].status = "none" <=> escrow'[r] = "none"
      BY <1>11 DEF SessionInv, FreshHasNoEscrow
    <3> QED
      BY <3>1, <3>2
  <2>2. HasParties'
    BY <1>11 DEF SessionInv, HasParties, Active
  <2> QED
    BY <2>1, <2>2
<1>13. MeterMatchesEscrow' /\ PaidWhenCharged'
  <2>1. ASSUME NEW r \in Session
        PROVE  IF Active(r)' THEN tracking'[r] = session'[r].spent
                                  /\ escrow'[r] = "held"
               ELSE tracking'[r] = None
                    /\ (escrow'[r] = "held" => session'[r].status = "lost")
    <3>1. CASE r = s
      BY <1>1, <1>7, <1>8, <1>11, <3>1 DEF SessionInv, MeterMatchesEscrow, Active
    <3>2. CASE r # s
      BY <1>9, <1>11, <3>2 DEF SessionInv, MeterMatchesEscrow, Active
    <3> QED
      BY <3>1, <3>2
  <2>2. ASSUME NEW r \in Session, session'[r].status = "closed"
        PROVE  escrow'[r] = "settled" <=> session'[r].spent > 0
    <3>1. r # s
      BY <1>8, <2>2
    <3> QED
      BY <1>9, <1>11, <2>2, <3>1 DEF SessionInv, PaidWhenCharged
  <2> QED
    BY <2>1, <2>2 DEF MeterMatchesEscrow, PaidWhenCharged
<1>14. TimersOfRunning'
  <2> SUFFICES ASSUME NEW r \in Session
               PROVE  timers'[r] = IF Active(r)' THEN {"idle", "duration"} ELSE {}
    BY DEF TimersOfRunning
  <2>1. CASE r = s
    BY <1>8, <2>1 DEF Active
  <2>2. CASE r # s
    BY <1>9, <2>2 DEF SessionInv, TimersOfRunning, Active
  <2> QED
    BY <2>1, <2>2
<1>15. RunningIsTracked'
  <2>1. \A n1 \in Name : agentSessions'[n1] \subseteq Session
    BY <1>10 DEF SessionTypeOK
  <2> QED
    BY <1>1, <1>11, <2>1 DEF SessionInv, RunningIsTracked, Active
<1>16. EscrowMoves
  BY <1>11 DEF EscrowMoves, EscrowStays
<1> QED
  BY <1>10, <1>12, <1>13, <1>14, <1>15, <1>16 DEF GoodStep, SessionInv

\* Every way to end one session keeps the invariant.
LEMMA EndingKeeps ==
    ASSUME SessionInv, NEW s \in Session, NEW sender,
           \/ MessageOverLimit(s) \/ LastReply(s, sender)
           \/ EndSession(s) \/ IdleTimeout(s) \/ DurationTimeout(s)
    PROVE  GoodStep
<1>1. CASE LastReply(s, sender)
  <2>1. /\ Active(s) /\ ~AtMessageLimit(s) /\ UNCHANGED speaking
        /\ EndSessions({s}, [session EXCEPT
               ![s].spent = Charged(s, sender).spent, ![s].messages = @ + 1])
    BY <1>1 DEF LastReply
  <2>2. session[s].messages \in 0 .. MaxMessages
    BY DEF SessionInv, SessionTypeOK, SessionRow
  <2>3. session[s].messages + 1 \in 0 .. MaxMessages
    BY <2>1, <2>2, SessionAssumption DEF AtMessageLimit
  <2>4. Charged(s, sender).spent \in Nat
    BY <2>1, ChargedNat
  <2> DEFINE last == [session EXCEPT
                 ![s].spent = Charged(s, sender).spent, ![s].messages = @ + 1]
  <2>5. EndSessions({s}, last)
    BY <2>1
  <2>6. last = [session EXCEPT ![s].spent = Charged(s, sender).spent,
                               ![s].messages = @ + 1]
    OBVIOUS
  <2> HIDE DEF last
  <2> QED
    BY <2>1, <2>3, <2>4, <2>5, <2>6, EndOneKeeps
<1>2. CASE \/ MessageOverLimit(s) \/ EndSession(s)
           \/ IdleTimeout(s) \/ DurationTimeout(s)
  <2>1. Active(s) /\ EndSessions({s}, session) /\ UNCHANGED speaking
    BY <1>2 DEF MessageOverLimit, EndSession, IdleTimeout, DurationTimeout
  <2>2. 0 \in Nat
    OBVIOUS
  <2> QED
    BY <2>1, <2>2, EndOneKeeps
<1> QED
  BY <1>1, <1>2

\* A disconnect ends the sessions its connection is tracked for.
LEMMA DisconnectKeeps ==
    ASSUME SessionInv, NEW o \in Owner, Disconnect(o)
    PROVE  GoodStep
<1> DEFINE R == {s \in agentSessions[o] : Active(s)}
<1>1. speaking' \in {speaking, speaking \ {o}} /\ EndSessions(R, session)
  BY DEF Disconnect
<1>2. o \in Name
  BY DEF Name
<1>3. R \in SUBSET Session /\ session \in [Session -> SessionRow]
      /\ speaking \in SUBSET Owner
  BY <1>2 DEF SessionInv, SessionTypeOK
<1>4. \A s \in R : Active(s)
  OBVIOUS
<1> HIDE DEF R
<1> QED
  BY <1>1, <1>3, <1>4, EndsKeep

\* Among them is every running session that it opened or provides.
LEMMA DisconnectEnds ==
    ASSUME SessionInv, NEW o \in Owner, Disconnect(o), NEW s \in Session,
           o \in {session[s].opener, session[s].provider}
    PROVE  ~Active(s)'
<1> DEFINE R == {r \in agentSessions[o] : Active(r)}
<1>1. session' = [r \in Session |->
          IF r \in R THEN [session[r] EXCEPT !.status = "closed"] ELSE session[r]]
  BY DEF Disconnect, EndSessions
<1>2. session[s] \in SessionRow
  BY DEF SessionInv, SessionTypeOK
<1>3. CASE Active(s)
  <2>1. s \in R
    BY <1>3 DEF SessionInv, RunningIsTracked
  <2>2. session'[s] = [session[s] EXCEPT !.status = "closed"]
    BY <1>1, <2>1
  <2> QED
    BY <1>2, <2>2 DEF Active, SessionRow
<1>4. CASE ~Active(s)
  BY <1>1, <1>4 DEF Active
<1> QED
  BY <1>3, <1>4

\* A restart ends everything in memory; an escrow is released or stays held.
LEMMA RestartKeeps ==
    ASSUME SessionInv, NEW old \in SUBSET Session, Restart(old)
    PROVE  GoodStep
<1>1. /\ restarts < MaxRestarts /\ restarts' = restarts + 1
      /\ \A s \in old : escrow[s] = "held"
      /\ speaking' = {}
      /\ session' = [s \in Session |->
             IF Active(s) THEN [session[s] EXCEPT !.status = "lost"] ELSE session[s]]
      /\ tracking' = [s \in Session |-> None]
      /\ timers' = [s \in Session |-> {}]
      /\ agentSessions' = [n \in Name |-> {}]
      /\ escrow' = [s \in Session |-> IF s \in old THEN "released" ELSE escrow[s]]
  BY DEF Restart, Recoverable
<1>2. SessionTypeOK
  BY DEF SessionInv
<1>3. ASSUME NEW s \in Session
      PROVE  /\ session'[s] \in SessionRow
             /\ session'[s].status = IF Active(s) THEN "lost" ELSE session[s].status
             /\ session'[s].budget = session[s].budget
             /\ session'[s].spent = session[s].spent
             /\ ~Active(s) => session'[s] = session[s]
  <2>1. session[s] \in SessionRow
    BY <1>2 DEF SessionTypeOK
  <2>2. CASE Active(s)
    <3>1. session'[s] = [session[s] EXCEPT !.status = "lost"]
      BY <1>1, <2>2
    <3>2. session'[s] \in SessionRow
      BY <2>1, <3>1 DEF SessionRow
    <3> QED
      BY <2>1, <2>2, <3>1, <3>2 DEF SessionRow
  <2>3. CASE ~Active(s)
    BY <1>1, <2>1, <2>3
  <2> QED
    BY <2>2, <2>3
<1>4. \A s \in Session : ~Active(s)'
  BY <1>3 DEF Active
<1>5. SessionTypeOK'
  <2>1. session' \in [Session -> SessionRow]
    BY <1>1, <1>3
  <2>2. escrow' \in [Session -> {"none", "held", "settled", "released"}]
    BY <1>1, <1>2 DEF SessionTypeOK
  <2>3. restarts' \in 0 .. MaxRestarts
    BY <1>1, <1>2, SessionAssumption DEF SessionTypeOK
  <2> QED
    BY <1>1, <2>1, <2>2, <2>3 DEF SessionTypeOK
<1>6. FreshHasNoEscrow'
  <2> SUFFICES ASSUME NEW s \in Session
               PROVE  /\ session'[s].status = "none" => session'[s] = NoSession
                      /\ session'[s].status = "none" <=> escrow'[s] = "none"
    BY DEF FreshHasNoEscrow
  <2>1. session'[s].status = "none" => session'[s] = NoSession
    BY <1>3 DEF SessionInv, FreshHasNoEscrow
  <2>2. session'[s].status = "none" <=> session[s].status = "none"
    BY <1>3 DEF Active
  <2>3. escrow'[s] = "none" <=> escrow[s] = "none"
    BY <1>1
  <2>4. session[s].status = "none" <=> escrow[s] = "none"
    BY DEF SessionInv, FreshHasNoEscrow
  <2> QED
    BY <2>1, <2>2, <2>3, <2>4
<1>7. HasParties' /\ RunningIsTracked' /\ TimersOfRunning'
  BY <1>1, <1>4 DEF HasParties, RunningIsTracked, TimersOfRunning
<1>8. MeterMatchesEscrow'
  <2> SUFFICES ASSUME NEW s \in Session
               PROVE  /\ tracking'[s] = None
                      /\ escrow'[s] = "held" => session'[s].status = "lost"
    BY <1>4 DEF MeterMatchesEscrow
  <2>1. escrow'[s] = "held" => escrow[s] = "held"
    BY <1>1
  <2> QED
    BY <1>1, <1>3, <2>1 DEF SessionInv, MeterMatchesEscrow
<1>9. PaidWhenCharged'
  <2> SUFFICES ASSUME NEW s \in Session, session'[s].status = "closed"
               PROVE  escrow'[s] = "settled" <=> session'[s].spent > 0
    BY DEF PaidWhenCharged
  <2>1. ~Active(s) /\ session[s].status = "closed"
    BY <1>3
  <2>2. escrow[s] # "held"
    BY <2>1 DEF SessionInv, MeterMatchesEscrow
  <2>3. escrow'[s] = escrow[s]
    BY <1>1, <2>2
  <2> QED
    BY <1>3, <2>1, <2>3 DEF SessionInv, PaidWhenCharged
<1>10. EscrowMoves
  BY <1>1, <1>3 DEF EscrowMoves, EscrowStays, EscrowCloses
<1> QED
  BY <1>5, <1>6, <1>7, <1>8, <1>9, <1>10 DEF GoodStep, SessionInv

\* Every step keeps the invariant and makes one of the moves of an escrow.
LEMMA StepIsGood ==
    ASSUME SessionInv, SessionNext
    PROVE  GoodStep
<1>1. CASE \E o \in Owner : \/ \E former \in speaking \cup {None} : Register(o, former)
                             \/ Disconnect(o)
  BY <1>1, RegisterKeeps, DisconnectKeeps
<1>2. CASE \E s \in Session, o \in Owner, model \in Model, budget \in Budget :
              \E requester, provider \in Name :
                 OpenSession(s, o, requester, provider, model, budget)
  BY <1>2, OpenSessionKeeps
<1>3. CASE \E s \in Session, sender \in {"requester", "provider"} :
              LastReply(s, sender) \/ RouteMessage(s, sender)
  BY <1>3, RouteMessageKeeps, EndingKeeps
<1>4. CASE \E s \in Session : \/ MessageOverLimit(s) \/ EndSession(s)
                               \/ IdleTimeout(s) \/ DurationTimeout(s)
  BY <1>4, EndingKeeps
<1>5. CASE \E old \in SUBSET Session : Restart(old)
  BY <1>5, RestartKeeps
<1> QED
  BY <1>1, <1>2, <1>3, <1>4, <1>5 DEF SessionNext

\* A step that changes nothing keeps the invariant.
LEMMA StutterKeepsSessions ==
    ASSUME SessionInv, UNCHANGED sessionVars
    PROVE  SessionInv'
BY DEF SessionInv, sessionVars, SessionTypeOK, FreshHasNoEscrow, HasParties,
   MeterMatchesEscrow, PaidWhenCharged, TimersOfRunning, RunningIsTracked,
   Active

-----------------------------------------------------------------------------
\* The sessions, their meters, timers and escrows always fit together.
THEOREM SessionInvariant == SessionSpec => []SessionInv
<1>1. SessionInit => SessionInv
  BY InitSessionInv
<1>2. SessionInv /\ [SessionNext]_sessionVars => SessionInv'
  BY StepIsGood, StutterKeepsSessions DEF GoodStep
<1> QED
  BY <1>1, <1>2, PTL DEF SessionSpec

\* The variables of the session manager keep their types.
THEOREM SessionTypeCorrect == SessionSpec => []SessionTypeOK
<1>1. SessionInv => SessionTypeOK
  BY DEF SessionInv
<1> QED
  BY <1>1, SessionInvariant, PTL

\* The meter of the session and the meter of its escrow never disagree, and
\* the escrow is held as long as the session runs (endSessionInternal and
\* SessionEscrow.settle).
THEOREM MetersAgree == SessionSpec => []MeterMatchesEscrow
<1>1. SessionInv => MeterMatchesEscrow
  BY DEF SessionInv
<1> QED
  BY <1>1, SessionInvariant, PTL

\* However a session ended, the provider was paid exactly when it had charged
\* for something (SessionEscrow.settle and refund).
THEOREM PaysWhatWasCharged == SessionSpec => []PaidWhenCharged
<1>1. SessionInv => PaidWhenCharged
  BY DEF SessionInv
<1> QED
  BY <1>1, SessionInvariant, PTL

\* A running session has both timers and an ended one has none (clearTimers).
THEOREM TimersAreCleared == SessionSpec => []TimersOfRunning
<1>1. SessionInv => TimersOfRunning
  BY DEF SessionInv
<1> QED
  BY <1>1, SessionInvariant, PTL

\* A running session is found under its opener and under its provider's name,
\* which is where a disconnect looks for it: none that the connection opened
\* or provides runs on (trackAgentSession and handleDisconnect).
THEOREM DisconnectFindsSessions ==
    SessionSpec => []RunningIsTracked /\ DisconnectEndsSessions
<1> DEFINE A == \A o \in Owner : Disconnect(o) =>
                   \A s \in Session :
                      o \in {session[s].opener, session[s].provider} => ~Active(s)'
<1>1. SessionInv => RunningIsTracked
  BY DEF SessionInv
<1>2. SessionInv /\ [SessionNext]_sessionVars => [A]_sessionVars
  BY DisconnectEnds
<1> QED
  BY <1>1, <1>2, SessionInvariant, PTL DEF SessionSpec, DisconnectEndsSessions

-----------------------------------------------------------------------------
\* What the refinement mapping makes of the three moves of an escrow.
LEMMA MovesArePromised ==
    ASSUME SessionInv, SessionInv', EscrowMoves
    PROVE  SessionPromise!PromiseNext
<1> DEFINE promised == [s \in Session |->
               CASE escrow[s] = "none" -> "none"
                 [] escrow[s] = "held" -> "open"
                 [] escrow[s] = "settled" -> "paid"
                 [] escrow[s] = "released" -> "refunded"]
           amount == [s \in Session |-> session[s].budget]
           out == [s \in Session |-> IF escrow[s] \in {"settled", "released"}
                                     THEN session[s].budget ELSE 0]
<1> SUFFICES ASSUME NEW s \in Session
             PROVE  \/ /\ promised'[s] = promised[s] /\ amount'[s] = amount[s]
                       /\ out'[s] = out[s]
                    \/ /\ promised[s] = "none" /\ promised'[s] = "open"
                       /\ amount'[s] \in Budget /\ out'[s] = out[s]
                    \/ /\ promised[s] = "open"
                       /\ \/ /\ promised'[s] \in {"paid", "refunded"}
                             /\ out'[s] = amount[s]
                          \/ promised'[s] = "confirmed" /\ out'[s] = 0
                       /\ amount'[s] = amount[s]
  BY DEF SessionPromise!PromiseNext, SessionPromise!Stays,
     SessionPromise!Opens, SessionPromise!Closes
<1>1. /\ promised[s] = CASE escrow[s] = "none" -> "none"
                         [] escrow[s] = "held" -> "open"
                         [] escrow[s] = "settled" -> "paid"
                         [] escrow[s] = "released" -> "refunded"
      /\ promised'[s] = CASE escrow'[s] = "none" -> "none"
                          [] escrow'[s] = "held" -> "open"
                          [] escrow'[s] = "settled" -> "paid"
                          [] escrow'[s] = "released" -> "refunded"
      /\ amount[s] = session[s].budget /\ amount'[s] = session'[s].budget
      /\ out[s] = IF escrow[s] \in {"settled", "released"}
                  THEN session[s].budget ELSE 0
      /\ out'[s] = IF escrow'[s] \in {"settled", "released"}
                   THEN session'[s].budget ELSE 0
  OBVIOUS
<1> HIDE DEF promised, amount, out
<1>2. CASE EscrowStays(s)
  BY <1>1, <1>2 DEF EscrowStays
<1>3. CASE EscrowOpens(s)
  BY <1>1, <1>3 DEF EscrowOpens
<1>4. CASE EscrowCloses(s)
  BY <1>1, <1>4 DEF EscrowCloses
<1> QED
  BY <1>2, <1>3, <1>4 DEF EscrowMoves

\* Sessions keep the promise of the escrow: what a requester put in escrow
\* for a session is paid out once, in full, to one side or the other, however
\* the session ends and however often the relay restarts.
THEOREM SessionsKeepPromise == SessionSpec => SessionKeepsPromise
<1>1. SessionInit => SessionPromise!PromiseInit
  BY DEF SessionInit, SessionPromise!PromiseInit, NoSession
<1>2. SessionInv /\ SessionInv' /\ [SessionNext]_sessionVars
          => [SessionPromise!PromiseNext]_SessionPromise!promiseVars
  <2>1. ASSUME SessionInv, SessionInv', SessionNext
        PROVE  SessionPromise!PromiseNext
    BY <2>1, StepIsGood, MovesArePromised DEF GoodStep
  <2>2. ASSUME UNCHANGED sessionVars
        PROVE  UNCHANGED SessionPromise!promiseVars
    BY <2>2 DEF sessionVars, SessionPromise!promiseVars
  <2> QED
    BY <2>1, <2>2
<1> QED
  BY <1>1, <1>2, SessionInvariant, PTL
  DEF SessionSpec, SessionKeepsPromise, SessionPromise!PromiseSpec

-----------------------------------------------------------------------------
(* The limit of sessions.                                                  *)

OpenedBy(o) == {s \in Session : Active(s) /\ session[s].opener = o}

\* The set the limit is checked on is finite, and holds more than the running
\* sessions the name opened.
LimitInv == LimitHolds /\ \A n \in Name : IsFiniteSet(agentSessions[n])

\* A step that starts no session and tracks none keeps the limit.
LEMMA FewerKeep ==
    ASSUME SessionInv, LimitInv,
           \A s \in Session : Active(s)' => Active(s) /\ session'[s].opener = session[s].opener,
           \A n \in Name : agentSessions'[n] \in SUBSET agentSessions[n]
    PROVE  LimitInv'
<1>1. \A n \in Name : IsFiniteSet(agentSessions'[n])
  BY FS_Subset DEF LimitInv
<1>2. ASSUME NEW o \in Owner
      PROVE  Cardinality(OpenedBy(o)') <= MaxSessions
  <2>1. OpenedBy(o)' \in SUBSET OpenedBy(o)
    BY DEF OpenedBy
  <2>2. OpenedBy(o) \in SUBSET agentSessions[o] /\ o \in Name
    BY DEF OpenedBy, SessionInv, RunningIsTracked, Name
  <2>3. IsFiniteSet(OpenedBy(o)) /\ Cardinality(OpenedBy(o)) <= MaxSessions
    BY <2>2, FS_Subset DEF LimitInv, LimitHolds, OpenedBy
  <2>4. /\ Cardinality(OpenedBy(o)') <= Cardinality(OpenedBy(o))
        /\ Cardinality(OpenedBy(o)') \in Nat /\ Cardinality(OpenedBy(o)) \in Nat
    BY <2>1, <2>3, FS_Subset, FS_CardinalityType
  <2> QED
    BY <2>3, <2>4, SessionAssumption
<1> QED
  BY <1>1, <1>2 DEF LimitInv, LimitHolds, OpenedBy

\* Ending sessions keeps the limit.
LEMMA EndsKeepLimit ==
    ASSUME SessionInv, SessionInv', LimitInv, NEW R \in SUBSET Session, NEW last,
           EndSessions(R, last)
    PROVE  LimitInv'
<1>1. \A s \in Session : /\ s \in R => timers'[s] = {}
                         /\ s \notin R => session'[s] = session[s]
  BY DEF EndSessions, TimersCleared
<1>2. \A s \in R : ~Active(s)'
  BY <1>1 DEF SessionInv, TimersOfRunning
<1>3. \A n \in Name : agentSessions'[n] \in SUBSET agentSessions[n]
  BY DEF EndSessions
<1>4. \A s \in Session : Active(s)' => Active(s) /\ session'[s].opener = session[s].opener
  BY <1>1, <1>2 DEF Active
<1> QED
  BY <1>3, <1>4, FewerKeep

\* A session is opened below the limit of everything its opener takes part in.
LEMMA OpenKeepsLimit ==
    ASSUME SessionInv, LimitInv, NEW s \in Session, NEW o \in Owner, NEW requester,
           NEW provider \in Name, NEW model, NEW budget,
           OpenSession(s, o, requester, provider, model, budget)
    PROVE  LimitInv'
<1>1. /\ BelowLimit(o) /\ o \in Name
      /\ \A r \in Session \ {s} : session'[r] = session[r]
      /\ session'[s].opener = o
      /\ agentSessions' = Tracked(o, provider, s)
  BY DEF OpenSession, Name, SessionInv, SessionTypeOK
<1>2. ASSUME NEW n \in Name PROVE IsFiniteSet(agentSessions'[n])
  <2>1. agentSessions'[n] = agentSessions[n] \cup {s} \/ agentSessions'[n] = agentSessions[n]
    BY <1>1 DEF Tracked
  <2> QED
    BY <2>1, FS_AddElement DEF LimitInv
<1>3. ASSUME NEW p \in Owner
      PROVE  Cardinality(OpenedBy(p)') <= MaxSessions
  <2>1. OpenedBy(p) \in SUBSET agentSessions[p] /\ p \in Name
    BY DEF OpenedBy, SessionInv, RunningIsTracked, Name
  <2>2. IsFiniteSet(agentSessions[p])
    BY <2>1 DEF LimitInv
  <2>3. /\ IsFiniteSet(OpenedBy(p)) /\ Cardinality(OpenedBy(p)) <= Cardinality(agentSessions[p])
        /\ Cardinality(OpenedBy(p)) <= MaxSessions
    BY <2>1, <2>2, FS_Subset DEF LimitInv, LimitHolds, OpenedBy
  <2>4. Cardinality(OpenedBy(p)) \in Nat /\ Cardinality(agentSessions[p]) \in Nat
    BY <2>2, <2>3, FS_CardinalityType
  <2>5. CASE p = o
    <3>1. OpenedBy(p)' \in SUBSET (OpenedBy(p) \cup {s})
      BY <1>1 DEF OpenedBy, Active
    <3>2. /\ IsFiniteSet(OpenedBy(p) \cup {s})
          /\ Cardinality(OpenedBy(p) \cup {s}) <= Cardinality(OpenedBy(p)) + 1
          /\ Cardinality(OpenedBy(p) \cup {s}) \in Nat
      <4>1. /\ IsFiniteSet(OpenedBy(p) \cup {s})
            /\ Cardinality(OpenedBy(p) \cup {s}) =
                 IF s \in OpenedBy(p) THEN Cardinality(OpenedBy(p))
                                      ELSE Cardinality(OpenedBy(p)) + 1
        BY <2>3, FS_AddElement
      <4> QED
        BY <2>4, <4>1
    <3>3. /\ Cardinality(OpenedBy(p)') <= Cardinality(OpenedBy(p) \cup {s})
          /\ Cardinality(OpenedBy(p)') \in Nat
      BY <3>1, <3>2, FS_Subset, FS_CardinalityType
    <3>4. Cardinality(agentSessions[p]) < MaxSessions
      BY <1>1, <2>5 DEF BelowLimit
    <3> QED
      BY <2>3, <2>4, <3>2, <3>3, <3>4, SessionAssumption
  <2>6. CASE p # o
    <3>1. OpenedBy(p)' \in SUBSET OpenedBy(p)
      BY <1>1, <2>6 DEF OpenedBy, Active
    <3>2. /\ Cardinality(OpenedBy(p)') <= Cardinality(OpenedBy(p))
          /\ Cardinality(OpenedBy(p)') \in Nat
      BY <2>3, <3>1, FS_Subset, FS_CardinalityType
    <3> QED
      BY <2>3, <2>4, <3>2, SessionAssumption
  <2> QED
    BY <2>5, <2>6
<1> QED
  BY <1>2, <1>3 DEF LimitInv, LimitHolds, OpenedBy

\* Every step keeps the limit.
LEMMA StepKeepsLimit ==
    ASSUME SessionInv, SessionInv', LimitInv, [SessionNext]_sessionVars
    PROVE  LimitInv'
<1>1. CASE UNCHANGED <<session, agentSessions>>
  BY <1>1 DEF LimitInv, LimitHolds, Active
<1>2. ASSUME NEW o \in Owner, NEW former, Register(o, former) PROVE LimitInv'
  BY <1>1, <1>2 DEF Register
<1>3. ASSUME NEW o \in Owner, Disconnect(o) PROVE LimitInv'
  <2>1. {s \in agentSessions[o] : Active(s)} \in SUBSET Session
    BY DEF SessionInv, SessionTypeOK, Name
  <2> QED
    BY <1>3, <2>1, EndsKeepLimit DEF Disconnect
<1>4. ASSUME NEW s \in Session, NEW sender,
             \/ MessageOverLimit(s) \/ LastReply(s, sender)
             \/ EndSession(s) \/ IdleTimeout(s) \/ DurationTimeout(s)
      PROVE  LimitInv'
  <2>1. {s} \in SUBSET Session /\ \E last : EndSessions({s}, last)
    BY <1>4 DEF MessageOverLimit, LastReply, EndSession, IdleTimeout, DurationTimeout
  <2> QED
    BY <2>1, EndsKeepLimit
<1>5. ASSUME NEW s \in Session, NEW sender, RouteMessage(s, sender) PROVE LimitInv'
  <2>1. agentSessions' = agentSessions
        /\ session' = [session EXCEPT ![s].spent = Charged(s, sender).spent,
                                      ![s].messages = @ + 1]
    BY <1>5 DEF RouteMessage
  <2>2. \A r \in Session : Active(r)' => Active(r) /\ session'[r].opener = session[r].opener
    BY <1>5, <2>1 DEF Active, SessionInv, SessionTypeOK, SessionRow, RouteMessage
  <2> QED
    BY <2>1, <2>2, FewerKeep
<1>6. ASSUME NEW old \in SUBSET Session, Restart(old) PROVE LimitInv'
  <2>1. \A r \in Session : timers'[r] = {}
    BY <1>6 DEF Restart
  <2>2. \A r \in Session : ~Active(r)'
    BY <2>1 DEF SessionInv, TimersOfRunning
  <2>3. \A n \in Name : agentSessions'[n] \in SUBSET agentSessions[n]
    BY <1>6 DEF Restart
  <2> QED
    BY <2>2, <2>3, FewerKeep
<1>7. CASE UNCHANGED sessionVars
  BY <1>1, <1>7 DEF sessionVars
<1> QED
  BY <1>2, <1>3, <1>4, <1>5, <1>6, <1>7, OpenKeepsLimit DEF SessionNext

\* No opener runs more sessions at once than the limit, however disconnects,
\* timers and messages interleave (session-manager.ts:67).
THEOREM LimitIsKept == SessionSpec => []LimitHolds
<1>1. SessionInit => LimitInv
  <2> SUFFICES ASSUME SessionInit PROVE LimitInv
    OBVIOUS
  <2>1. \A n \in Name : IsFiniteSet(agentSessions[n])
    BY FS_EmptySet DEF SessionInit
  <2>2. \A o \in Owner : {s \in Session : Active(s) /\ session[s].opener = o} = {}
    BY DEF SessionInit, Active, NoSession
  <2>3. Cardinality({}) <= MaxSessions
    BY FS_EmptySet, SessionAssumption
  <2>4. LimitHolds
    BY <2>2, <2>3 DEF LimitHolds
  <2> QED
    BY <2>1, <2>4 DEF LimitInv
<1>2. SessionInv /\ SessionInv' /\ LimitInv /\ [SessionNext]_sessionVars => LimitInv'
  BY StepKeepsLimit
<1>3. LimitInv => LimitHolds
  BY DEF LimitInv
<1> QED
  BY <1>1, <1>2, <1>3, SessionInvariant, PTL DEF SessionSpec

-----------------------------------------------------------------------------
(* Lock: the invariants                                                    *)

UnlinkPhases == {"checkUnlink", "probeUnlink", "acquireUnlink", "releaseUnlink"}
Counting == {"acquiring", "acquireUnlink", "closing", "closed", "releaseUnlink"}
Actor == Proc \cup {NoProc}

Unlinking(a) == IF a = NoProc THEN manager = "unlinking" ELSE phase[a] \in UnlinkPhases

\* An attempt, or a release, is left where one is needed.
TriesLeft == \A p \in Proc : phase[p] \in Counting => left[p] >= 1

\* A run has an outcome when it is over.
OutcomeOfDead == \A p \in Proc : outcome[p] # "none" => phase[p] = "dead"

\* No file is from the future.
FilesOfRuns ==
    /\ file.by \in Proc => file.run <= run[file.by]
    /\ \A a \in Actor : intended[a].by \in Proc => intended[a].run <= run[intended[a].by]

\* What an actor has read and is about to unlink, unless it was its own or not
\* written, named a run that is over.
IntendedStale ==
    \A a \in Actor :
       Unlinking(a) /\ intended[a].written
          /\ intended[a].by \in Proc /\ intended[a].by # a
       => \/ ~Alive(intended[a].by)
          \/ intended[a].run < run[intended[a].by]

\* A file without a pid is that of a run at its second step, or killed there.
HalfWritten ==
    file.by \in Proc /\ ~file.written /\ file.run = run[file.by]
       => phase[file.by] = "created" \/ outcome[file.by] = "killed"

\* But for a race, the file is that of the process that holds the lock.
HolderNamed ==
    ~raced => \A p \in Proc :
                 phase[p] \in Holding => /\ file.by = p /\ file.run = run[p]
                                         /\ file.written <=> phase[p] # "created"

\* The inductive invariant.
LockStrong ==
    /\ LockTypeOK
    /\ TriesLeft
    /\ OutcomeOfDead
    /\ FilesOfRuns
    /\ IntendedStale
    /\ HalfWritten
    /\ HolderNamed
    /\ CleanExitLeavesNoLock

-----------------------------------------------------------------------------
\* The holder of the lock is unique and named by the file, unless there was a
\* race.
LEMMA StrongImplies ==
    ASSUME LockStrong
    PROVE  LockInv /\ ExclusiveUnlessRaced /\ CleanExitLeavesNoLock
<1> USE LockAssumption
<1>1. ServiceIsNamed
  <2> SUFFICES ASSUME NEW p \in Proc, phase[p] \in {"holding", "listening", "serving"}, ~raced
               PROVE  file = [by |-> p, run |-> run[p], written |-> TRUE]
    BY DEF ServiceIsNamed
  <2>1. file.by = p /\ file.run = run[p] /\ file.written <=> TRUE
    BY DEF LockStrong, HolderNamed, Holding
  <2>2. file \in [by : Proc \cup {NoProc}, run : 0 .. MaxStarts, written : BOOLEAN]
    BY DEF LockStrong, LockTypeOK, File
  <2> QED
    BY <2>1, <2>2 DEF LockStrong, HolderNamed, Holding
<1>2. ExclusiveUnlessRaced
  <2> SUFFICES ASSUME ~raced PROVE ~(Cardinality(Holders) > 1)
    BY DEF ExclusiveUnlessRaced
  <2>1. \A p, q \in Holders : p = q
    BY DEF LockStrong, HolderNamed, Holders
  <2>2. CASE Holders = {}
    BY <2>2, FS_EmptySet
  <2>3. CASE Holders # {}
    <3>1. PICK p \in Holders : TRUE
      BY <2>3
    <3>2. Holders = {p}
      BY <2>1, <3>1
    <3>3. Cardinality({p}) = 1
      BY FS_Singleton
    <3> QED
      BY <3>2, <3>3
  <2> QED
    BY <2>2, <2>3
<1> QED
  BY <1>1, <1>2 DEF LockStrong, LockInv

\* A living process that moves and leaves the file alone: what it has to
\* respect for the invariant to hold after it.
LEMMA MoveKeeps ==
    ASSUME LockStrong, LockTypeOK', NEW p \in Proc, Alive(p),
           file' = file, run' = run, raced' = raced,
           manager' = "unlinking" => manager = "unlinking",
           intended'[NoProc] = intended[NoProc],
           \A q \in Proc \ {p} : /\ phase'[q] = phase[q] /\ left'[q] = left[q]
                                 /\ outcome'[q] = outcome[q]
                                 /\ intended'[q] = intended[q],
           intended'[p] \in {intended[p], file},
           phase'[p] \in Holding => /\ phase'[p] # "created"
                                    /\ phase[p] \in Holding \ {"created"},
           phase[p] = "created" => outcome'[p] = "killed",
           outcome'[p] # "none" => phase'[p] = "dead",
           phase'[p] \in Counting => left'[p] >= 1,
           phase'[p] \in UnlinkPhases =>
              /\ intended'[p] = file
              /\ file.written /\ file.by \in Proc \ {p} => ~Alive(file.by),
           outcome'[p] = "stopped" => ~(file.by = p /\ file.run = run[p])
    PROVE  LockStrong'
<1> USE LockAssumption DEF LockStrong
<1>1. TriesLeft'
  BY DEF TriesLeft
<1>2. OutcomeOfDead'
  BY DEF OutcomeOfDead
<1>3. FilesOfRuns'
  BY DEF FilesOfRuns, Actor
<1>4. IntendedStale'
  <2> SUFFICES ASSUME NEW a \in Actor, Unlinking(a)', intended'[a].written,
                      intended'[a].by \in Proc, intended'[a].by # a
               PROVE  \/ ~Alive(intended[a].by)'
                      \/ intended'[a].run < run'[intended'[a].by]
    BY DEF IntendedStale
  <2>1. CASE a = p
    <3>1. intended'[p] = file /\ ~Alive(file.by)
      BY <2>1 DEF Unlinking
    <3>2. file.by # p /\ file.by \in Proc
      BY <2>1, <3>1
    <3> QED
      BY <2>1, <3>1, <3>2 DEF Alive
  <2>2. CASE a # p
    <3>1. Unlinking(a) /\ intended'[a] = intended[a]
      BY <2>2 DEF Unlinking, Actor
    <3>2. ~Alive(intended[a].by) \/ intended[a].run < run[intended[a].by]
      BY <3>1 DEF IntendedStale
    <3> QED
      BY <3>1, <3>2 DEF Alive
  <2> QED
    BY <2>1, <2>2
<1>5. HalfWritten'
  BY DEF HalfWritten, OutcomeOfDead, Alive
<1>6. HolderNamed'
  <2> SUFFICES ASSUME ~raced, NEW q \in Proc, phase'[q] \in Holding
               PROVE  /\ file.by = q /\ file.run = run[q]
                      /\ file.written <=> phase'[q] # "created"
    BY DEF HolderNamed
  <2>1. CASE q = p
    BY <2>1 DEF HolderNamed
  <2>2. CASE q # p
    BY <2>2 DEF HolderNamed
  <2> QED
    BY <2>1, <2>2
<1>7. CleanExitLeavesNoLock'
  BY DEF CleanExitLeavesNoLock
<1> QED
  BY <1>1, <1>2, <1>3, <1>4, <1>5, <1>6, <1>7

\* An actor that unlinks what it had read, or what has taken its place.
LEMMA UnlinkKeeps ==
    ASSUME LockStrong, LockTypeOK', NEW a \in Actor, Unlinking(a), Unlink(a),
           run' = run, intended' = intended,
           manager' = "unlinking" => manager = "unlinking",
           \A q \in Proc \ {a} : /\ phase'[q] = phase[q] /\ left'[q] = left[q]
                                 /\ outcome'[q] = outcome[q],
           a \in Proc => /\ phase'[a] \notin Holding \cup UnlinkPhases
                         /\ phase'[a] \in Counting => left'[a] >= 1
                         /\ outcome'[a] # "none" => phase'[a] = "dead"
    PROVE  LockStrong'
<1> USE LockAssumption DEF LockStrong
<1>1. file' = Absent /\ file'.by = NoProc /\ NoProc \notin Proc
  BY DEF Unlink, Absent
<1>2. TriesLeft'
  BY DEF TriesLeft
<1>3. OutcomeOfDead'
  BY DEF OutcomeOfDead
<1>4. FilesOfRuns'
  BY <1>1 DEF FilesOfRuns
<1>5. IntendedStale'
  <2> SUFFICES ASSUME NEW b \in Actor, Unlinking(b)', intended[b].written,
                      intended[b].by \in Proc, intended[b].by # b
               PROVE  \/ ~Alive(intended[b].by)'
                      \/ intended[b].run < run[intended[b].by]
    BY DEF IntendedStale
  <2>1. Unlinking(b)
    BY DEF Unlinking, Actor
  <2>2. ~Alive(intended[b].by) \/ intended[b].run < run[intended[b].by]
    BY <2>1 DEF IntendedStale
  <2>3. a \in Proc => phase[a] # "dead"
    BY <1>1 DEF Unlinking, UnlinkPhases
  <2> QED
    BY <2>2, <2>3 DEF Alive
<1>6. HalfWritten'
  BY <1>1 DEF HalfWritten
<1>7. HolderNamed'
  <2> SUFFICES ASSUME ~raced', NEW q \in Proc, phase'[q] \in Holding
               PROVE  FALSE
    BY DEF HolderNamed
  <2>1. q # a /\ phase[q] \in Holding
    OBVIOUS
  <2>2. ~raced
    BY DEF Unlink
  <2>3. file.by = q /\ file.run = run[q]
    BY <2>1, <2>2 DEF HolderNamed
  <2>4. Alive(q)
    BY <2>1 DEF Alive, Holding
  <2>5. file = intended[a] /\ file.written
    BY <1>1, <2>1, <2>3, <2>4 DEF Unlink, LockTypeOK
  <2>6. ~Alive(q) \/ file.run < run[q]
    BY <2>1, <2>3, <2>5 DEF IntendedStale
  <2> QED
    BY <2>3, <2>4, <2>6 DEF LockTypeOK
<1>8. CleanExitLeavesNoLock'
  BY <1>1 DEF CleanExitLeavesNoLock
<1> QED
  BY <1>2, <1>3, <1>4, <1>5, <1>6, <1>7, <1>8

-----------------------------------------------------------------------------
\* The initial states satisfy the invariant.
LEMMA InitStrong == LockInit => LockStrong
<1> SUFFICES ASSUME LockInit PROVE LockStrong
  OBVIOUS
<1> USE LockAssumption
<1>1. LockTypeOK
  <2>1. Absent \in File
    BY DEF File, Absent
  <2>2. file \in File
    <3>1. \A p \in Proc : [by |-> p, run |-> 0, written |-> TRUE] \in File
      BY DEF File
    <3>2. [by |-> NoProc, run |-> 0, written |-> FALSE] \in File
      BY DEF File
    <3> QED
      BY <2>1, <3>1, <3>2 DEF LockInit
  <2>3. intended \in [Proc \cup {NoProc} -> File]
    BY <2>1 DEF LockInit
  <2>4. /\ phase \in [Proc -> Starting \cup Closing \cup {"dead", "serving"}]
        /\ run \in [Proc -> 0 .. MaxStarts]
        /\ left \in [Proc -> 0 .. 2]
        /\ outcome \in [Proc -> {"none", "already", "refused", "stopped", "failed", "killed"}]
        /\ manager \in {"idle", "waiting", "unlinking"} /\ target \in Proc \cup {NoProc}
        /\ raced \in BOOLEAN /\ disruptions \in 0 .. MaxDisruptions
    <3>1. phase \in [Proc -> Starting \cup Closing \cup {"dead", "serving"}]
      BY DEF LockInit
    <3>2. run \in [Proc -> 0 .. MaxStarts] /\ left \in [Proc -> 0 .. 2]
      BY DEF LockInit
    <3>3. outcome \in [Proc -> {"none", "already", "refused", "stopped", "failed", "killed"}]
      BY DEF LockInit
    <3>4. raced \in BOOLEAN /\ disruptions \in 0 .. MaxDisruptions
      <4>1. raced \in BOOLEAN
        BY DEF LockInit
      <4>2. disruptions \in 0 .. MaxDisruptions
        BY DEF LockInit
      <4> QED
        BY <4>1, <4>2
    <3>5. manager \in {"idle", "waiting", "unlinking"} /\ target \in Proc \cup {NoProc}
      BY DEF LockInit
    <3> QED
      BY <3>1, <3>2, <3>3, <3>4, <3>5
  <2> QED
    BY <2>2, <2>3, <2>4 DEF LockTypeOK
<1>2. TriesLeft /\ OutcomeOfDead /\ CleanExitLeavesNoLock
  BY DEF LockInit, TriesLeft, OutcomeOfDead, CleanExitLeavesNoLock, Counting
<1>3. FilesOfRuns /\ HalfWritten
  <2>1. Absent.by = NoProc
    BY DEF Absent
  <2>2. file.by \in Proc => file.run = 0 /\ file.written
    BY <2>1 DEF LockInit
  <2> QED
    BY <2>1, <2>2 DEF LockInit, FilesOfRuns, HalfWritten, Actor
<1>4. IntendedStale /\ HolderNamed
  BY DEF LockInit, IntendedStale, HolderNamed, Absent, Actor, Holding
<1> QED
  BY <1>1, <1>2, <1>3, <1>4 DEF LockStrong

\* Every step keeps the types.
LEMMA TypeKeeps ==
    ASSUME LockStrong, [LockNext]_lockVars
    PROVE  LockTypeOK'
<1> USE LockAssumption DEF LockStrong, LockTypeOK, Starting, Closing, Goes
<1>0. /\ Absent \in File
      /\ \A p \in Proc : [by |-> p, run |-> run[p], written |-> FALSE] \in File
      /\ [file EXCEPT !.written = TRUE] \in File
  <2>1. Absent \in File
    BY DEF File, Absent
  <2>2. \A p \in Proc : [by |-> p, run |-> run[p], written |-> FALSE] \in File
    BY DEF File
  <2>3. ASSUME NEW f \in File PROVE [f EXCEPT !.written = TRUE] \in File
    BY DEF File
  <2> QED
    BY <2>1, <2>2, <2>3
<1>1. ASSUME NEW p \in Proc, Start(p) PROVE LockTypeOK'
  BY <1>0, <1>1 DEF Start, procVars, managerVars
<1>2. ASSUME NEW p \in Proc, Check(p) PROVE LockTypeOK'
  BY <1>0, <1>2 DEF Check, Plans, ToAcquire, procVars, managerVars
<1>3. ASSUME NEW p \in Proc, CheckUnlink(p) PROVE LockTypeOK'
  BY <1>0, <1>3 DEF CheckUnlink, ToAcquire, Unlink, procVars, managerVars
<1>4. ASSUME NEW p \in Proc, Probe(p) PROVE LockTypeOK'
  BY <1>0, <1>4 DEF Probe, Exits, Plans, ToAcquire, procVars, managerVars
<1>5. ASSUME NEW p \in Proc, Acquire(p) PROVE LockTypeOK'
  BY <1>0, <1>5 DEF Acquire, Exits, Plans, procVars, managerVars
<1>6. ASSUME NEW p \in Proc, AcquireUnlink(p) PROVE LockTypeOK'
  <2>1. left[p] - 1 \in 0 .. 2
    BY <1>6 DEF AcquireUnlink, TriesLeft, Counting
  <2>2. file' \in File /\ raced' \in BOOLEAN /\ left' \in [Proc -> 0 .. 2]
    BY <1>0, <1>6, <2>1 DEF AcquireUnlink, Unlink
  <2>3. /\ phase' \in [Proc -> Starting \cup Closing \cup {"dead", "serving"}]
        /\ outcome' \in [Proc -> {"none", "already", "refused", "stopped", "failed", "killed"}]
    BY <1>6 DEF AcquireUnlink, Exits
  <2> QED
    BY <1>6, <2>2, <2>3 DEF AcquireUnlink, managerVars
<1>7. ASSUME NEW p \in Proc, Write(p) PROVE LockTypeOK'
  BY <1>0, <1>7 DEF Write, procVars, managerVars
<1>8. ASSUME NEW p \in Proc, Listen(p) PROVE LockTypeOK'
  BY <1>0, <1>8 DEF Listen, Winds, procVars, managerVars
<1>9. ASSUME NEW p \in Proc, Ready(p) PROVE LockTypeOK'
  BY <1>0, <1>9 DEF Ready, procVars, managerVars
<1>10. ASSUME NEW p \in Proc, StartFails(p) PROVE LockTypeOK'
  BY <1>0, <1>10 DEF StartFails, Winds, Disrupts, procVars, managerVars
<1>11. ASSUME NEW p \in Proc, Terminate(p) PROVE LockTypeOK'
  BY <1>0, <1>11 DEF Terminate, Signalled, Winds, Exits, Disrupts, procVars, managerVars
<1>12. ASSUME NEW p \in Proc, Crash(p) PROVE LockTypeOK'
  BY <1>0, <1>12 DEF Crash, Exits, Disrupts, procVars, managerVars
<1>13. ASSUME NEW p \in Proc, CloseGateway(p) PROVE LockTypeOK'
  BY <1>0, <1>13 DEF CloseGateway, procVars, managerVars
<1>14. ASSUME NEW p \in Proc, Release(p) PROVE LockTypeOK'
  BY <1>0, <1>14 DEF Release, Plans, Returns, Exits, procVars, managerVars, TriesLeft, Counting
<1>15. ASSUME NEW p \in Proc, ReleaseUnlink(p) PROVE LockTypeOK'
  BY <1>0, <1>15 DEF ReleaseUnlink, Unlink, Returns, Exits, procVars, managerVars, TriesLeft, Counting
<1>16. ASSUME StopSignals PROVE LockTypeOK'
  <2>1. file.by \in Proc
    BY <1>16 DEF StopSignals, NamesLiving, Readable, File
  <2> QED
    BY <1>0, <1>16, <2>1 DEF StopSignals, Signalled, Winds, Exits, Disrupts
<1>17. ASSUME StopReleases PROVE LockTypeOK'
  BY <1>0, <1>17 DEF StopReleases, Plans
<1>18. ASSUME StopUnlinks PROVE LockTypeOK'
  BY <1>0, <1>18 DEF StopUnlinks, Unlink, procVars
<1>19. ASSUME UNCHANGED lockVars PROVE LockTypeOK'
  BY <1>19 DEF lockVars, procVars, managerVars
<1> QED
  BY <1>1, <1>2, <1>3, <1>4, <1>5, <1>6, <1>7, <1>8, <1>9, <1>10, <1>11, <1>12, <1>13, <1>14, <1>15, <1>16, <1>17, <1>18, <1>19 DEF LockNext, Proceeds

\* A process that starts, or creates the file, or writes its pid.
LEMMA StartKeeps ==
    ASSUME LockStrong, LockTypeOK', NEW p \in Proc, Start(p)
    PROVE  LockStrong'
<1> USE LockAssumption DEF LockStrong, Start, procVars, managerVars, Goes
<1>1. /\ phase'[p] = "checking" /\ run'[p] = run[p] + 1 /\ outcome'[p] = "none"
      /\ phase[p] = "dead" /\ run[p] \in Nat
      /\ \A q \in Proc \ {p} : phase'[q] = phase[q] /\ run'[q] = run[q] /\ outcome'[q] = outcome[q]
  BY DEF LockTypeOK
<1>t. /\ \A q \in Proc : run[q] \in Nat
      /\ file.run \in Nat /\ \A a \in Actor : intended[a].run \in Nat
  BY DEF LockTypeOK, Actor, File
<1>2. TriesLeft'
  BY <1>1 DEF TriesLeft, Counting
<1>3. OutcomeOfDead'
  BY <1>1 DEF OutcomeOfDead
<1>4. FilesOfRuns'
  BY <1>1, <1>t DEF FilesOfRuns, Actor
<1>5. IntendedStale'
  <2> SUFFICES ASSUME NEW a \in Actor, Unlinking(a)', intended[a].written,
                      intended[a].by \in Proc, intended[a].by # a
               PROVE  \/ ~Alive(intended[a].by)'
                      \/ intended[a].run < run'[intended[a].by]
    BY DEF IntendedStale
  <2>1. Unlinking(a)
    BY <1>1 DEF Unlinking, Actor, UnlinkPhases
  <2>2. ~Alive(intended[a].by) \/ intended[a].run < run[intended[a].by]
    BY <2>1 DEF IntendedStale
  <2>3. CASE intended[a].by = p
    BY <1>1, <1>t, <2>3 DEF FilesOfRuns
  <2>4. CASE intended[a].by # p
    BY <1>1, <2>2, <2>4 DEF Alive
  <2> QED
    BY <2>3, <2>4
<1>6. HalfWritten'
  BY <1>1, <1>t DEF HalfWritten, FilesOfRuns
<1>7. HolderNamed'
  BY <1>1 DEF HolderNamed, Holding
<1>8. CleanExitLeavesNoLock'
  BY <1>1 DEF CleanExitLeavesNoLock
<1> QED
  BY <1>2, <1>3, <1>4, <1>5, <1>6, <1>7, <1>8

\* The file is created with 'wx' only when there is none, so that but for a
\* race nobody holds the lock.
LEMMA CreateKeeps ==
    ASSUME LockStrong, LockTypeOK', NEW p \in Proc, Acquire(p), file = Absent
    PROVE  LockStrong'
<1> USE LockAssumption DEF LockStrong, Acquire, procVars, managerVars, Goes
<1>1. /\ phase'[p] = "created" /\ phase[p] = "acquiring" /\ UNCHANGED <<run, outcome, intended, left>>
      /\ \A q \in Proc \ {p} : phase'[q] = phase[q]
      /\ file'.by = p /\ file'.run = run[p] /\ file'.written = FALSE
      /\ file.by = NoProc
  BY DEF LockTypeOK, Absent
<1>t. \A q \in Proc : run[q] \in Nat
  BY DEF LockTypeOK
<1>2. TriesLeft'
  BY <1>1 DEF TriesLeft, Counting
<1>3. OutcomeOfDead'
  BY <1>1 DEF OutcomeOfDead
<1>4. FilesOfRuns'
  BY <1>1, <1>t DEF FilesOfRuns, Actor
<1>5. IntendedStale'
  BY <1>1 DEF IntendedStale, Unlinking, Actor, UnlinkPhases, Alive
<1>6. HalfWritten'
  BY <1>1 DEF HalfWritten
<1>7. HolderNamed'
  BY <1>1 DEF HolderNamed, Holding
<1>8. CleanExitLeavesNoLock'
  BY <1>1 DEF CleanExitLeavesNoLock, OutcomeOfDead
<1> QED
  BY <1>2, <1>3, <1>4, <1>5, <1>6, <1>7, <1>8

\* The pid is written into a file that is still there, or into nothing.
LEMMA WriteKeeps ==
    ASSUME LockStrong, LockTypeOK', NEW p \in Proc, Write(p)
    PROVE  LockStrong'
<1> USE LockAssumption DEF LockStrong, Write, procVars, managerVars, Goes
<1>1. /\ phase'[p] = "holding" /\ phase[p] = "created" /\ UNCHANGED <<run, outcome, intended, left, raced>>
      /\ \A q \in Proc \ {p} : phase'[q] = phase[q]
  BY DEF LockTypeOK
<1>2. /\ file'.by = file.by /\ file'.run = file.run
      /\ file.written => file'.written
      /\ file.by # p \/ file.run # run[p] => file' = file
      /\ file.by = p /\ file.run = run[p] => file'.written = TRUE
  BY DEF LockTypeOK, File
<1>3. TriesLeft' /\ OutcomeOfDead'
  BY <1>1 DEF TriesLeft, OutcomeOfDead, Counting
<1>4. FilesOfRuns'
  BY <1>1, <1>2 DEF FilesOfRuns, Actor
<1>5. IntendedStale'
  BY <1>1 DEF IntendedStale, Unlinking, Actor, UnlinkPhases, Alive
<1>6. HalfWritten'
  BY <1>1, <1>2 DEF HalfWritten
<1>7. HolderNamed'
  <2> SUFFICES ASSUME ~raced, NEW q \in Proc, phase'[q] \in Holding
               PROVE  /\ file'.by = q /\ file'.run = run[q]
                      /\ file'.written <=> phase'[q] # "created"
    BY <1>1 DEF HolderNamed
  <2>1. file.by = p /\ file.run = run[p]
    BY <1>1 DEF HolderNamed, Holding
  <2>2. q = p
    BY <1>1, <2>1 DEF HolderNamed
  <2> QED
    BY <1>1, <1>2, <2>1, <2>2
<1>8. CleanExitLeavesNoLock'
  BY <1>1, <1>2 DEF CleanExitLeavesNoLock
<1> QED
  BY <1>3, <1>4, <1>5, <1>6, <1>7, <1>8


-----------------------------------------------------------------------------
\* Every step keeps the invariant.
LEMMA StepKeeps ==
    ASSUME LockStrong, [LockNext]_lockVars
    PROVE  LockStrong'
<1> USE LockAssumption
<1>0. LockTypeOK'
  BY TypeKeeps
<1>t. LockTypeOK /\ TriesLeft /\ OutcomeOfDead /\ CleanExitLeavesNoLock
  BY DEF LockStrong
<1>1. ASSUME NEW p \in Proc, Start(p) PROVE LockStrong'
  BY <1>0, <1>1, StartKeeps
<1>2. ASSUME NEW p \in Proc, Write(p) PROVE LockStrong'
  BY <1>0, <1>2, WriteKeeps
<1>3. ASSUME NEW p \in Proc, Check(p) PROVE LockStrong'
  <2>1. /\ Alive(p) /\ UNCHANGED <<file, run, raced, manager>>
        /\ intended'[NoProc] = intended[NoProc]
        /\ \A q \in Proc \ {p} : /\ phase'[q] = phase[q] /\ left'[q] = left[q]
                                  /\ outcome'[q] = outcome[q] /\ intended'[q] = intended[q]
        /\ intended'[p] \in {intended[p], file}
    BY <1>t, <1>3 DEF Check, Goes, Alive, procVars, managerVars, Plans, ToAcquire, NamesLiving, Readable, LockTypeOK
  <2>2. /\ phase'[p] \in Holding => phase'[p] # "created" /\ phase[p] \in Holding \ {"created"}
        /\ phase[p] = "created" => outcome'[p] = "killed"
        /\ outcome'[p] # "none" => phase'[p] = "dead"
        /\ phase'[p] \in Counting => left'[p] >= 1
    BY <1>t, <1>3 DEF Check, Goes, Alive, procVars, managerVars, Plans, ToAcquire, NamesLiving, Readable, LockTypeOK, TriesLeft, OutcomeOfDead, Holding, Counting
  <2>3. /\ phase'[p] \in UnlinkPhases =>
              /\ intended'[p] = file
              /\ file.written /\ file.by \in Proc \ {p} => ~Alive(file.by)
        /\ outcome'[p] = "stopped" => ~(file.by = p /\ file.run = run[p])
    BY <1>t, <1>3 DEF Check, Goes, Alive, procVars, managerVars, Plans, ToAcquire, NamesLiving, Readable, LockTypeOK, OutcomeOfDead, CleanExitLeavesNoLock, UnlinkPhases
  <2> QED
    BY <1>0, <2>1, <2>2, <2>3, MoveKeeps
<1>4. ASSUME NEW p \in Proc, Probe(p) PROVE LockStrong'
  <2>1. /\ Alive(p) /\ UNCHANGED <<file, run, raced, manager>>
        /\ intended'[NoProc] = intended[NoProc]
        /\ \A q \in Proc \ {p} : /\ phase'[q] = phase[q] /\ left'[q] = left[q]
                                  /\ outcome'[q] = outcome[q] /\ intended'[q] = intended[q]
        /\ intended'[p] \in {intended[p], file}
    BY <1>t, <1>4 DEF Probe, Goes, Alive, procVars, managerVars, Exits, Plans, ToAcquire, Releasable, Readable, LockTypeOK
  <2>2. /\ phase'[p] \in Holding => phase'[p] # "created" /\ phase[p] \in Holding \ {"created"}
        /\ phase[p] = "created" => outcome'[p] = "killed"
        /\ outcome'[p] # "none" => phase'[p] = "dead"
        /\ phase'[p] \in Counting => left'[p] >= 1
    BY <1>t, <1>4 DEF Probe, Goes, Alive, procVars, managerVars, Exits, Plans, ToAcquire, Releasable, Readable, LockTypeOK, TriesLeft, OutcomeOfDead, Holding, Counting
  <2>3. /\ phase'[p] \in UnlinkPhases =>
              /\ intended'[p] = file
              /\ file.written /\ file.by \in Proc \ {p} => ~Alive(file.by)
        /\ outcome'[p] = "stopped" => ~(file.by = p /\ file.run = run[p])
    BY <1>t, <1>4 DEF Probe, Goes, Alive, procVars, managerVars, Exits, Plans, ToAcquire, Releasable, Readable, LockTypeOK, OutcomeOfDead, CleanExitLeavesNoLock, UnlinkPhases
  <2> QED
    BY <1>0, <2>1, <2>2, <2>3, MoveKeeps
<1>5. ASSUME NEW p \in Proc, Listen(p) PROVE LockStrong'
  <2>1. /\ Alive(p) /\ UNCHANGED <<file, run, raced, manager>>
        /\ intended'[NoProc] = intended[NoProc]
        /\ \A q \in Proc \ {p} : /\ phase'[q] = phase[q] /\ left'[q] = left[q]
                                  /\ outcome'[q] = outcome[q] /\ intended'[q] = intended[q]
        /\ intended'[p] \in {intended[p], file}
    BY <1>t, <1>5 DEF Listen, Goes, Alive, procVars, managerVars, Winds, LockTypeOK
  <2>2. /\ phase'[p] \in Holding => phase'[p] # "created" /\ phase[p] \in Holding \ {"created"}
        /\ phase[p] = "created" => outcome'[p] = "killed"
        /\ outcome'[p] # "none" => phase'[p] = "dead"
        /\ phase'[p] \in Counting => left'[p] >= 1
    BY <1>t, <1>5 DEF Listen, Goes, Alive, procVars, managerVars, Winds, LockTypeOK, TriesLeft, OutcomeOfDead, Holding, Counting
  <2>3. /\ phase'[p] \in UnlinkPhases =>
              /\ intended'[p] = file
              /\ file.written /\ file.by \in Proc \ {p} => ~Alive(file.by)
        /\ outcome'[p] = "stopped" => ~(file.by = p /\ file.run = run[p])
    BY <1>t, <1>5 DEF Listen, Goes, Alive, procVars, managerVars, Winds, LockTypeOK, OutcomeOfDead, CleanExitLeavesNoLock, UnlinkPhases
  <2> QED
    BY <1>0, <2>1, <2>2, <2>3, MoveKeeps
<1>6. ASSUME NEW p \in Proc, Ready(p) PROVE LockStrong'
  <2>1. /\ Alive(p) /\ UNCHANGED <<file, run, raced, manager>>
        /\ intended'[NoProc] = intended[NoProc]
        /\ \A q \in Proc \ {p} : /\ phase'[q] = phase[q] /\ left'[q] = left[q]
                                  /\ outcome'[q] = outcome[q] /\ intended'[q] = intended[q]
        /\ intended'[p] \in {intended[p], file}
    BY <1>t, <1>6 DEF Ready, Goes, Alive, procVars, managerVars, LockTypeOK
  <2>2. /\ phase'[p] \in Holding => phase'[p] # "created" /\ phase[p] \in Holding \ {"created"}
        /\ phase[p] = "created" => outcome'[p] = "killed"
        /\ outcome'[p] # "none" => phase'[p] = "dead"
        /\ phase'[p] \in Counting => left'[p] >= 1
    BY <1>t, <1>6 DEF Ready, Goes, Alive, procVars, managerVars, LockTypeOK, TriesLeft, OutcomeOfDead, Holding, Counting
  <2>3. /\ phase'[p] \in UnlinkPhases =>
              /\ intended'[p] = file
              /\ file.written /\ file.by \in Proc \ {p} => ~Alive(file.by)
        /\ outcome'[p] = "stopped" => ~(file.by = p /\ file.run = run[p])
    BY <1>t, <1>6 DEF Ready, Goes, Alive, procVars, managerVars, LockTypeOK, OutcomeOfDead, CleanExitLeavesNoLock, UnlinkPhases
  <2> QED
    BY <1>0, <2>1, <2>2, <2>3, MoveKeeps
<1>7. ASSUME NEW p \in Proc, StartFails(p) PROVE LockStrong'
  <2>1. /\ Alive(p) /\ UNCHANGED <<file, run, raced, manager>>
        /\ intended'[NoProc] = intended[NoProc]
        /\ \A q \in Proc \ {p} : /\ phase'[q] = phase[q] /\ left'[q] = left[q]
                                  /\ outcome'[q] = outcome[q] /\ intended'[q] = intended[q]
        /\ intended'[p] \in {intended[p], file}
    BY <1>t, <1>7 DEF StartFails, Goes, Alive, procVars, managerVars, Winds, Disrupts, LockTypeOK
  <2>2. /\ phase'[p] \in Holding => phase'[p] # "created" /\ phase[p] \in Holding \ {"created"}
        /\ phase[p] = "created" => outcome'[p] = "killed"
        /\ outcome'[p] # "none" => phase'[p] = "dead"
        /\ phase'[p] \in Counting => left'[p] >= 1
    BY <1>t, <1>7 DEF StartFails, Goes, Alive, procVars, managerVars, Winds, Disrupts, LockTypeOK, TriesLeft, OutcomeOfDead, Holding, Counting
  <2>3. /\ phase'[p] \in UnlinkPhases =>
              /\ intended'[p] = file
              /\ file.written /\ file.by \in Proc \ {p} => ~Alive(file.by)
        /\ outcome'[p] = "stopped" => ~(file.by = p /\ file.run = run[p])
    BY <1>t, <1>7 DEF StartFails, Goes, Alive, procVars, managerVars, Winds, Disrupts, LockTypeOK, OutcomeOfDead, CleanExitLeavesNoLock, UnlinkPhases
  <2> QED
    BY <1>0, <2>1, <2>2, <2>3, MoveKeeps
<1>8. ASSUME NEW p \in Proc, Terminate(p) PROVE LockStrong'
  <2>1. /\ Alive(p) /\ UNCHANGED <<file, run, raced, manager>>
        /\ intended'[NoProc] = intended[NoProc]
        /\ \A q \in Proc \ {p} : /\ phase'[q] = phase[q] /\ left'[q] = left[q]
                                  /\ outcome'[q] = outcome[q] /\ intended'[q] = intended[q]
        /\ intended'[p] \in {intended[p], file}
    BY <1>t, <1>8 DEF Terminate, Goes, Alive, procVars, managerVars, Signalled, Winds, Exits, Disrupts, LockTypeOK
  <2>2. /\ phase'[p] \in Holding => phase'[p] # "created" /\ phase[p] \in Holding \ {"created"}
        /\ phase[p] = "created" => outcome'[p] = "killed"
        /\ outcome'[p] # "none" => phase'[p] = "dead"
        /\ phase'[p] \in Counting => left'[p] >= 1
    BY <1>t, <1>8 DEF Terminate, Goes, Alive, procVars, managerVars, Signalled, Winds, Exits, Disrupts, LockTypeOK, TriesLeft, OutcomeOfDead, Holding, Counting
  <2>3. /\ phase'[p] \in UnlinkPhases =>
              /\ intended'[p] = file
              /\ file.written /\ file.by \in Proc \ {p} => ~Alive(file.by)
        /\ outcome'[p] = "stopped" => ~(file.by = p /\ file.run = run[p])
    BY <1>t, <1>8 DEF Terminate, Goes, Alive, procVars, managerVars, Signalled, Winds, Exits, Disrupts, LockTypeOK, OutcomeOfDead, CleanExitLeavesNoLock, UnlinkPhases
  <2> QED
    BY <1>0, <2>1, <2>2, <2>3, MoveKeeps
<1>9. ASSUME NEW p \in Proc, Crash(p) PROVE LockStrong'
  <2>1. /\ Alive(p) /\ UNCHANGED <<file, run, raced, manager>>
        /\ intended'[NoProc] = intended[NoProc]
        /\ \A q \in Proc \ {p} : /\ phase'[q] = phase[q] /\ left'[q] = left[q]
                                  /\ outcome'[q] = outcome[q] /\ intended'[q] = intended[q]
        /\ intended'[p] \in {intended[p], file}
    BY <1>t, <1>9 DEF Crash, Goes, Alive, procVars, managerVars, Exits, Disrupts, LockTypeOK
  <2>2. /\ phase'[p] \in Holding => phase'[p] # "created" /\ phase[p] \in Holding \ {"created"}
        /\ phase[p] = "created" => outcome'[p] = "killed"
        /\ outcome'[p] # "none" => phase'[p] = "dead"
        /\ phase'[p] \in Counting => left'[p] >= 1
    BY <1>t, <1>9 DEF Crash, Goes, Alive, procVars, managerVars, Exits, Disrupts, LockTypeOK, TriesLeft, OutcomeOfDead, Holding, Counting
  <2>3. /\ phase'[p] \in UnlinkPhases =>
              /\ intended'[p] = file
              /\ file.written /\ file.by \in Proc \ {p} => ~Alive(file.by)
        /\ outcome'[p] = "stopped" => ~(file.by = p /\ file.run = run[p])
    BY <1>t, <1>9 DEF Crash, Goes, Alive, procVars, managerVars, Exits, Disrupts, LockTypeOK, OutcomeOfDead, CleanExitLeavesNoLock, UnlinkPhases
  <2> QED
    BY <1>0, <2>1, <2>2, <2>3, MoveKeeps
<1>10. ASSUME NEW p \in Proc, CloseGateway(p) PROVE LockStrong'
  <2>1. /\ Alive(p) /\ UNCHANGED <<file, run, raced, manager>>
        /\ intended'[NoProc] = intended[NoProc]
        /\ \A q \in Proc \ {p} : /\ phase'[q] = phase[q] /\ left'[q] = left[q]
                                  /\ outcome'[q] = outcome[q] /\ intended'[q] = intended[q]
        /\ intended'[p] \in {intended[p], file}
    BY <1>t, <1>10 DEF CloseGateway, Goes, Alive, procVars, managerVars, LockTypeOK
  <2>2. /\ phase'[p] \in Holding => phase'[p] # "created" /\ phase[p] \in Holding \ {"created"}
        /\ phase[p] = "created" => outcome'[p] = "killed"
        /\ outcome'[p] # "none" => phase'[p] = "dead"
        /\ phase'[p] \in Counting => left'[p] >= 1
    BY <1>t, <1>10 DEF CloseGateway, Goes, Alive, procVars, managerVars, LockTypeOK, TriesLeft, OutcomeOfDead, Holding, Counting
  <2>3. /\ phase'[p] \in UnlinkPhases =>
              /\ intended'[p] = file
              /\ file.written /\ file.by \in Proc \ {p} => ~Alive(file.by)
        /\ outcome'[p] = "stopped" => ~(file.by = p /\ file.run = run[p])
    BY <1>t, <1>10 DEF CloseGateway, Goes, Alive, procVars, managerVars, LockTypeOK, OutcomeOfDead, CleanExitLeavesNoLock, UnlinkPhases
  <2> QED
    BY <1>0, <2>1, <2>2, <2>3, MoveKeeps
<1>11. ASSUME NEW p \in Proc, Release(p) PROVE LockStrong'
  <2>1. /\ Alive(p) /\ UNCHANGED <<file, run, raced, manager>>
        /\ intended'[NoProc] = intended[NoProc]
        /\ \A q \in Proc \ {p} : /\ phase'[q] = phase[q] /\ left'[q] = left[q]
                                  /\ outcome'[q] = outcome[q] /\ intended'[q] = intended[q]
        /\ intended'[p] \in {intended[p], file}
    BY <1>t, <1>11 DEF Release, Goes, Alive, procVars, managerVars, Plans, Returns, Exits, Releasable, Readable, LockTypeOK
  <2>2. /\ phase'[p] \in Holding => phase'[p] # "created" /\ phase[p] \in Holding \ {"created"}
        /\ phase[p] = "created" => outcome'[p] = "killed"
        /\ outcome'[p] # "none" => phase'[p] = "dead"
        /\ phase'[p] \in Counting => left'[p] >= 1
    BY <1>t, <1>11 DEF Release, Goes, Alive, procVars, managerVars, Plans, Returns, Exits, Releasable, Readable, LockTypeOK, TriesLeft, OutcomeOfDead, Holding, Counting
  <2>3. /\ phase'[p] \in UnlinkPhases =>
              /\ intended'[p] = file
              /\ file.written /\ file.by \in Proc \ {p} => ~Alive(file.by)
        /\ outcome'[p] = "stopped" => ~(file.by = p /\ file.run = run[p])
    <3>1. phase[p] = "closed" /\ outcome[p] = "none"
      BY <1>t, <1>11 DEF Release, OutcomeOfDead, LockTypeOK
    <3>2. file.by = p /\ file.run = run[p] => file.written
      BY <1>t, <3>1 DEF LockStrong, HalfWritten
    <3>3. outcome'[p] = "stopped" => ~Releasable(p)
      BY <1>t, <1>11, <3>1 DEF Release, Goes, LockTypeOK
    <3>4. phase'[p] \in UnlinkPhases =>
              /\ intended'[p] = file
              /\ file.written /\ file.by \in Proc \ {p} => ~Alive(file.by)
      BY <1>t, <1>11, <3>1 DEF Release, Plans, Returns, Exits, Releasable, Goes, LockTypeOK, UnlinkPhases
    <3> QED
      BY <3>2, <3>3, <3>4 DEF Releasable, Readable
  <2> QED
    BY <1>0, <2>1, <2>2, <2>3, MoveKeeps
<1>12. ASSUME NEW p \in Proc, Acquire(p), file = Absent PROVE LockStrong'
  BY <1>0, <1>12, CreateKeeps
<1>13. ASSUME NEW p \in Proc, Acquire(p), file # Absent PROVE LockStrong'
  <2>1. /\ Alive(p) /\ UNCHANGED <<file, run, raced, manager>>
        /\ intended'[NoProc] = intended[NoProc]
        /\ \A q \in Proc \ {p} : /\ phase'[q] = phase[q] /\ left'[q] = left[q]
                                  /\ outcome'[q] = outcome[q] /\ intended'[q] = intended[q]
        /\ intended'[p] \in {intended[p], file}
    BY <1>t, <1>13 DEF Acquire, Goes, Alive, procVars, managerVars, Exits, Plans, NamesLiving, Readable, LockTypeOK
  <2>2. /\ phase'[p] \in Holding => phase'[p] # "created" /\ phase[p] \in Holding \ {"created"}
        /\ phase[p] = "created" => outcome'[p] = "killed"
        /\ outcome'[p] # "none" => phase'[p] = "dead"
        /\ phase'[p] \in Counting => left'[p] >= 1
    BY <1>t, <1>13 DEF Acquire, Goes, Alive, procVars, managerVars, Exits, Plans, NamesLiving, Readable, LockTypeOK, TriesLeft, OutcomeOfDead, Holding, Counting
  <2>3. /\ phase'[p] \in UnlinkPhases =>
              /\ intended'[p] = file
              /\ file.written /\ file.by \in Proc \ {p} => ~Alive(file.by)
        /\ outcome'[p] = "stopped" => ~(file.by = p /\ file.run = run[p])
    BY <1>t, <1>13 DEF Acquire, Goes, Alive, procVars, managerVars, Exits, Plans, NamesLiving, Readable, LockTypeOK, OutcomeOfDead, CleanExitLeavesNoLock, UnlinkPhases
  <2> QED
    BY <1>0, <2>1, <2>2, <2>3, MoveKeeps
<1>14. ASSUME NEW p \in Proc, AcquireUnlink(p), file = Absent PROVE LockStrong'
  <2>1. /\ Alive(p) /\ UNCHANGED <<file, run, raced, manager>>
        /\ intended'[NoProc] = intended[NoProc]
        /\ \A q \in Proc \ {p} : /\ phase'[q] = phase[q] /\ left'[q] = left[q]
                                  /\ outcome'[q] = outcome[q] /\ intended'[q] = intended[q]
        /\ intended'[p] \in {intended[p], file}
    BY <1>t, <1>14 DEF AcquireUnlink, Goes, Alive, procVars, managerVars, Exits, LockTypeOK
  <2>2. /\ phase'[p] \in Holding => phase'[p] # "created" /\ phase[p] \in Holding \ {"created"}
        /\ phase[p] = "created" => outcome'[p] = "killed"
        /\ outcome'[p] # "none" => phase'[p] = "dead"
        /\ phase'[p] \in Counting => left'[p] >= 1
    BY <1>t, <1>14 DEF AcquireUnlink, Goes, Alive, procVars, managerVars, Exits, LockTypeOK, TriesLeft, OutcomeOfDead, Holding, Counting
  <2>3. /\ phase'[p] \in UnlinkPhases =>
              /\ intended'[p] = file
              /\ file.written /\ file.by \in Proc \ {p} => ~Alive(file.by)
        /\ outcome'[p] = "stopped" => ~(file.by = p /\ file.run = run[p])
    BY <1>t, <1>14 DEF AcquireUnlink, Goes, Alive, procVars, managerVars, Exits, LockTypeOK, OutcomeOfDead, CleanExitLeavesNoLock, UnlinkPhases
  <2> QED
    BY <1>0, <2>1, <2>2, <2>3, MoveKeeps
<1>15. ASSUME NEW p \in Proc, AcquireUnlink(p), file # Absent PROVE LockStrong'
  <2>1. p \in Actor /\ p # NoProc /\ Unlink(p) /\ Unlinking(p)
    BY <1>15 DEF AcquireUnlink, Actor, Unlinking, UnlinkPhases
  <2>2. /\ run' = run /\ intended' = intended /\ manager' = manager
        /\ \A q \in Proc \ {p} : /\ phase'[q] = phase[q] /\ left'[q] = left[q]
                                  /\ outcome'[q] = outcome[q]
    BY <1>t, <1>15 DEF AcquireUnlink, Goes, procVars, managerVars, Exits, LockTypeOK
  <2>3. /\ phase'[p] \notin Holding \cup UnlinkPhases
        /\ phase'[p] \in Counting => left'[p] >= 1
        /\ outcome'[p] # "none" => phase'[p] = "dead"
    BY <1>t, <1>15 DEF AcquireUnlink, Goes, procVars, managerVars, Exits, LockTypeOK, TriesLeft, OutcomeOfDead, Holding, UnlinkPhases, Counting
  <2> QED
    BY <1>0, <2>1, <2>2, <2>3, UnlinkKeeps
<1>16. ASSUME NEW p \in Proc, CheckUnlink(p) PROVE LockStrong'
  <2>1. p \in Actor /\ p # NoProc /\ Unlink(p) /\ Unlinking(p)
    BY <1>16 DEF CheckUnlink, Actor, Unlinking, UnlinkPhases
  <2>2. /\ run' = run /\ intended' = intended /\ manager' = manager
        /\ \A q \in Proc \ {p} : /\ phase'[q] = phase[q] /\ left'[q] = left[q]
                                  /\ outcome'[q] = outcome[q]
    BY <1>t, <1>16 DEF CheckUnlink, Goes, procVars, managerVars, ToAcquire, LockTypeOK
  <2>3. /\ phase'[p] \notin Holding \cup UnlinkPhases
        /\ phase'[p] \in Counting => left'[p] >= 1
        /\ outcome'[p] # "none" => phase'[p] = "dead"
    BY <1>t, <1>16 DEF CheckUnlink, Goes, procVars, managerVars, ToAcquire, LockTypeOK, TriesLeft, OutcomeOfDead, Holding, UnlinkPhases, Counting
  <2> QED
    BY <1>0, <2>1, <2>2, <2>3, UnlinkKeeps
<1>17. ASSUME NEW p \in Proc, ReleaseUnlink(p) PROVE LockStrong'
  <2>1. p \in Actor /\ p # NoProc /\ Unlink(p) /\ Unlinking(p)
    BY <1>17 DEF ReleaseUnlink, Actor, Unlinking, UnlinkPhases
  <2>2. /\ run' = run /\ intended' = intended /\ manager' = manager
        /\ \A q \in Proc \ {p} : /\ phase'[q] = phase[q] /\ left'[q] = left[q]
                                  /\ outcome'[q] = outcome[q]
    BY <1>t, <1>17 DEF ReleaseUnlink, Goes, procVars, managerVars, Returns, Exits, LockTypeOK
  <2>3. /\ phase'[p] \notin Holding \cup UnlinkPhases
        /\ phase'[p] \in Counting => left'[p] >= 1
        /\ outcome'[p] # "none" => phase'[p] = "dead"
    BY <1>t, <1>17 DEF ReleaseUnlink, Goes, procVars, managerVars, Returns, Exits, LockTypeOK, TriesLeft, OutcomeOfDead, Holding, UnlinkPhases, Counting
  <2> QED
    BY <1>0, <2>1, <2>2, <2>3, UnlinkKeeps
<1>18. ASSUME StopUnlinks PROVE LockStrong'
  <2>1. NoProc \in Actor /\ Unlink(NoProc) /\ Unlinking(NoProc)
    BY <1>18 DEF StopUnlinks, Actor, Unlinking
  <2>2. UNCHANGED <<phase, run, left, intended, outcome>> /\ manager' = "idle"
    BY <1>18 DEF StopUnlinks, procVars
  <2> QED
    BY <1>0, <2>1, <2>2, UnlinkKeeps
<1>19. ASSUME StopSignals PROVE LockStrong'
  <2> DEFINE p == file.by
  <2>0. p \in Proc /\ Signalled(p) /\ UNCHANGED <<file, run, intended, raced>> /\ manager' = "waiting"
    BY <1>t, <1>19 DEF StopSignals, NamesLiving, Readable, LockTypeOK, File, Signalled
  <2> HIDE DEF p
  <2>1. /\ Alive(p)
        /\ \A q \in Proc \ {p} : phase'[q] = phase[q] /\ left'[q] = left[q] /\ outcome'[q] = outcome[q]
    BY <1>t, <2>0 DEF Signalled, Winds, Exits, Goes, LockTypeOK
  <2>2. /\ phase'[p] \in Holding => phase'[p] # "created" /\ phase[p] \in Holding \ {"created"}
        /\ phase[p] = "created" => outcome'[p] = "killed"
        /\ outcome'[p] # "none" => phase'[p] = "dead"
        /\ phase'[p] \in Counting => left'[p] >= 1
        /\ phase'[p] \notin UnlinkPhases /\ outcome'[p] # "stopped"
    BY <1>t, <2>0 DEF Signalled, Winds, Exits, Goes, Alive, LockTypeOK, OutcomeOfDead, Holding, Counting, UnlinkPhases
  <2> QED
    BY <1>0, <2>0, <2>1, <2>2, MoveKeeps
<1>20. ASSUME StopReleases PROVE LockStrong'
  <2>1. UNCHANGED <<file, phase, run, left, outcome, raced>>
    BY <1>20 DEF StopReleases
  <2>2. \A q \in Proc : intended'[q] = intended[q]
    BY <1>t, <1>20 DEF StopReleases, Plans, LockTypeOK
  <2>3. /\ intended'[NoProc] \in {intended[NoProc], file}
        /\ manager' = "unlinking" => /\ intended'[NoProc] = file
                                     /\ file.by \in Proc => ~Alive(file.by)
    BY <1>t, <1>20 DEF StopReleases, Plans, LockTypeOK, NamesLiving, Readable
  <2>4. FilesOfRuns'
    BY <2>1, <2>2, <2>3 DEF LockStrong, FilesOfRuns, Actor
  <2>5. IntendedStale'
    BY <2>1, <2>2, <2>3 DEF LockStrong, IntendedStale, Unlinking, Actor, Alive
  <2>6. TriesLeft' /\ OutcomeOfDead' /\ CleanExitLeavesNoLock'
    BY <1>t, <2>1 DEF TriesLeft, OutcomeOfDead, CleanExitLeavesNoLock
  <2>7. HalfWritten' /\ HolderNamed'
    BY <2>1 DEF LockStrong, HalfWritten, HolderNamed
  <2> QED
    BY <1>0, <2>4, <2>5, <2>6, <2>7 DEF LockStrong
<1>21. ASSUME UNCHANGED lockVars PROVE LockStrong'
  <2>1. UNCHANGED <<file, phase, run, left, intended, outcome, manager, raced>>
    BY <1>21 DEF lockVars, procVars, managerVars
  <2>2. FilesOfRuns' /\ TriesLeft' /\ OutcomeOfDead' /\ CleanExitLeavesNoLock'
    BY <2>1 DEF LockStrong, FilesOfRuns, TriesLeft, OutcomeOfDead, CleanExitLeavesNoLock
  <2>3. IntendedStale' /\ HalfWritten' /\ HolderNamed'
    BY <2>1 DEF LockStrong, IntendedStale, Unlinking, HalfWritten, HolderNamed, Alive
  <2> QED
    BY <1>0, <2>2, <2>3 DEF LockStrong
<1> QED
  BY <1>1, <1>2, <1>3, <1>4, <1>5, <1>6, <1>7, <1>8, <1>9, <1>10, <1>11, <1>12, <1>13, <1>14,
     <1>15, <1>16, <1>17, <1>18, <1>19, <1>20, <1>21 DEF LockNext, Proceeds

\* The inductive invariant holds throughout.
THEOREM LockStrongHolds == LockSpec => []LockStrong
<1>1. LockInit => LockStrong
  BY InitStrong
<1>2. LockStrong /\ [LockNext]_lockVars => LockStrong'
  BY StepKeeps
<1> QED
  BY <1>1, <1>2, PTL DEF LockSpec

\* Whatever the processes, crashes and signals: unless somebody raced, a
\* service that is up is the one the pid file names (process-guard.ts:98-105).
THEOREM ServiceNamed == LockSpec => []LockInv
<1>1. LockStrong => LockInv
  BY StrongImplies
<1> QED
  BY <1>1, LockStrongHolds, PTL

\* Two processes hold the lock at once only after a race, with any number of
\* processes (process-guard.ts:34-38).
THEOREM LockExclusive == LockSpec => []ExclusiveUnlessRaced
<1>1. LockStrong => ExclusiveUnlessRaced
  BY StrongImplies
<1> QED
  BY <1>1, LockStrongHolds, PTL

\* A clean end leaves no lock of the run that ended, race or no race
\* (service-coordinator.ts:225-228, :469).
THEOREM NoLockLeft == LockSpec => []CleanExitLeavesNoLock
<1>1. LockStrong => CleanExitLeavesNoLock
  BY StrongImplies
<1> QED
  BY <1>1, LockStrongHolds, PTL

=============================================================================
