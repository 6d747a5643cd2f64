--------------------------- MODULE GatewayProofs ---------------------------
(***************************************************************************)
(* Theorems about the gateway, for any number of requests, any price,      *)
(* capacity and daily limit, and any number of crashes and recoveries.     *)
(*                                                                         *)
(* An action moves one handler, but for the arrival of an array and a      *)
(* crash.  What it does to that handler is checked by HandlerOK; what it   *)
(* does to the counters and the balance has to match the sets it moves the *)
(* handler in and out of (StepOf), and StepKeeps turns that into the       *)
(* equations with Cardinality.                                             *)
(***************************************************************************)
EXTENDS Gateway, FiniteSetTheorems, TLAPS

Slot(h, k) == Counted(h) /\ TrackKey(h) = k /\ phase[h] \in Active
InSlot(k) == {h \in Handler : Slot(h, k)}
Rpcs == {h \in Handler : kind[h] = "skill" /\ phase[h] \in Active}
Charged == {h \in Handler : escrow[h] \in {"held", "settled"}}

\* Where a handler is, and what that says of its escrow, answer and rating.
HandlerOK(h) ==
    /\ phase[h] = "none" <=> kind[h] = "none"
    /\ phase[h] \in {"none", "syncing"} => escrow[h] = "none"
    /\ phase[h] = "syncing" => kind[h] # "relay"
    /\ kind[h] = "relay" => escrow[h] = "none"
    /\ phase[h] \in {"holding", "running"} /\ kind[h] # "relay" => escrow[h] # "none"
    /\ phase[h] # "ended" => /\ outcome[h] = "none" /\ escrow[h] # "settled"
                             /\ reputation[h] = "same" /\ rows[h] = 0
    /\ phase[h] \in {"none", "syncing", "holding"} => work[h] = "none"
    /\ phase[h] = "running" => work[h] # "none"
    /\ escrow[h] = "held" => phase[h] \in {"holding", "running", "lost"}
    /\ outcome[h] = "ok" /\ kind[h] # "relay" => escrow[h] = "settled"
    /\ outcome[h] \in {"error", "overload"} => escrow[h] \in {"none", "released"}
    /\ escrow[h] = "settled" => outcome[h] = "ok" \/ (outcome[h] = "thrown" /\ faults > 0)
    /\ outcome[h] = "thrown" => faults > 0 \/ escrow[h] = "released"
    /\ phase[h] = "lost" => crashes > 0
    /\ reputation[h] # "same" => work[h] # "none" /\ rows[h] = 1
    /\ rows[h] <= 1

\* The inductive invariant.  There are never more single requests than slots
\* counted, which is why the comparison at the door is enough.
GatewayStrong ==
    /\ GatewayTypeOK
    /\ \A h \in Handler : HandlerOK(h)
    /\ \A h \in Handler : \A g \in post[h] : phase[g] # "none"
    /\ \A k \in Key : inFlight[k] = Cardinality(InSlot(k))
    /\ Cardinality(Rpcs) <= MaxConcurrent
    /\ balance = InitialBalance - Price * Cardinality(Charged)

\* What one handler's step does to the shared variables.
StepOf(h) ==
    /\ \A g \in Handler \ {h} :
          /\ kind'[g] = kind[g] /\ phase'[g] = phase[g] /\ escrow'[g] = escrow[g]
          /\ outcome'[g] = outcome[g] /\ work'[g] = work[g]
          /\ reputation'[g] = reputation[g] /\ rows'[g] = rows[g]
    /\ faults' >= faults /\ crashes' = crashes /\ post' = post
    /\ HandlerOK(h)' /\ (phase[h] # "none" => phase'[h] # "none")
    /\ \A k \in Key : inFlight'[k] = inFlight[k] + (IF Slot(h, k)' THEN 1 ELSE 0)
                                                 - (IF Slot(h, k) THEN 1 ELSE 0)
    /\ balance' = balance - Price * (IF h \in Charged' THEN 1 ELSE 0)
                          + Price * (IF h \in Charged THEN 1 ELSE 0)
    /\ h \in Rpcs' => h \in Rpcs \/ inFlight["skill"] < MaxConcurrent

-----------------------------------------------------------------------------
\* Sets that differ in one element at most differ by one at most.
LEMMA CountMoves ==
    ASSUME NEW A \in SUBSET Handler, NEW B \in SUBSET Handler, NEW h,
           \A g \in Handler \ {h} : g \in A <=> g \in B
    PROVE  Cardinality(B) = Cardinality(A) + (IF h \in B THEN 1 ELSE 0)
                                           - (IF h \in A THEN 1 ELSE 0)
<1>1. IsFiniteSet(A) /\ IsFiniteSet(B)
  BY GatewayAssumption, FS_Subset
<1>2. Cardinality(A) \in Nat /\ Cardinality(B) \in Nat
  BY <1>1, FS_CardinalityType
<1>3. CASE h \in A /\ h \notin B
  <2>1. B = A \ {h}
    BY <1>3
  <2> QED
    BY <1>1, <1>2, <1>3, <2>1, FS_RemoveElement
<1>4. CASE h \notin A /\ h \in B
  <2>1. B = A \cup {h}
    BY <1>4
  <2> QED
    BY <1>1, <1>2, <1>4, <2>1, FS_AddElement
<1>5. CASE h \in A <=> h \in B
  <2>1. A = B
    BY <1>5
  <2> QED
    BY <1>2, <2>1
<1> QED
  BY <1>3, <1>4, <1>5

\* A handler with a slot or a charge is counted.
LEMMA Counts ==
    ASSUME GatewayTypeOK
    PROVE  /\ Cardinality(Rpcs) \in Nat /\ Cardinality(Charged) \in Nat
           /\ \A k \in Key : /\ Cardinality(InSlot(k)) \in Nat
                             /\ InSlot(k) # {} => Cardinality(InSlot(k)) >= 1
           /\ Cardinality(Rpcs) <= Cardinality(InSlot("skill"))
<1>1. /\ Charged \subseteq Handler /\ Rpcs \subseteq InSlot("skill")
      /\ \A k \in Key : InSlot(k) \subseteq Handler
  BY DEF InSlot, Slot, Rpcs, Charged, Counted, TrackKey, Single, Item
<1>2. IsFiniteSet(Charged) /\ \A k \in Key : IsFiniteSet(InSlot(k))
  BY <1>1, GatewayAssumption, FS_Subset
<1>3. IsFiniteSet(Rpcs) /\ Cardinality(Rpcs) <= Cardinality(InSlot("skill"))
  BY <1>1, <1>2, FS_Subset DEF Key
<1>4. /\ Cardinality(Rpcs) \in Nat /\ Cardinality(Charged) \in Nat
      /\ \A k \in Key : Cardinality(InSlot(k)) \in Nat
  BY <1>2, <1>3, FS_CardinalityType
<1>5. \A k \in Key : InSlot(k) # {} => Cardinality(InSlot(k)) # 0
  BY <1>2, FS_EmptySet
<1> QED
  BY <1>3, <1>4, <1>5

\* The step of one handler keeps the books.
LEMMA StepKeeps ==
    ASSUME GatewayStrong, GatewayTypeOK', NEW h \in Handler, StepOf(h)
    PROVE  GatewayStrong'
<1> USE GatewayAssumption DEF GatewayStrong
<1>0. /\ Cardinality(Rpcs) \in Nat /\ Cardinality(Charged) \in Nat
      /\ \A k \in Key : Cardinality(InSlot(k)) \in Nat
      /\ Cardinality(Rpcs) <= Cardinality(InSlot("skill"))
  BY Counts
<1>1. \A g \in Handler : HandlerOK(g)'
  <2> SUFFICES ASSUME NEW g \in Handler, g # h PROVE HandlerOK(g)'
    BY DEF StepOf
  <2>1. HandlerOK(g) /\ faults \in Nat /\ faults' \in Nat
    BY DEF GatewayTypeOK
  <2> QED
    BY <2>1 DEF StepOf, HandlerOK
<1>2. /\ Rpcs \in SUBSET Handler /\ Rpcs' \in SUBSET Handler
      /\ Charged \in SUBSET Handler /\ Charged' \in SUBSET Handler
  BY DEF Rpcs, Charged
<1>3. \A g \in Handler \ {h} : /\ \A k \in Key : Slot(g, k) <=> Slot(g, k)'
                               /\ g \in Rpcs <=> g \in Rpcs'
                               /\ g \in Charged <=> g \in Charged'
  BY DEF StepOf, Slot, Rpcs, Charged, Counted, TrackKey
<1>4. ASSUME NEW k \in Key PROVE inFlight'[k] = Cardinality(InSlot(k)')
  <2>1. InSlot(k) \in SUBSET Handler /\ InSlot(k)' \in SUBSET Handler
    BY DEF InSlot
  <2>2. \A g \in Handler : /\ g \in InSlot(k) <=> Slot(g, k)
                           /\ g \in InSlot(k)' <=> Slot(g, k)'
    BY DEF InSlot, Slot, Counted, TrackKey
  <2>3. Cardinality(InSlot(k)') = Cardinality(InSlot(k))
           + (IF h \in InSlot(k)' THEN 1 ELSE 0) - (IF h \in InSlot(k) THEN 1 ELSE 0)
    BY <1>3, <2>1, <2>2, CountMoves
  <2> QED
    BY <2>2, <2>3 DEF StepOf
<1>5. Cardinality(Rpcs') <= MaxConcurrent
  <2>1. Cardinality(Rpcs') = Cardinality(Rpcs) + (IF h \in Rpcs' THEN 1 ELSE 0)
                                              - (IF h \in Rpcs THEN 1 ELSE 0)
    BY <1>2, <1>3, CountMoves
  <2>2. inFlight["skill"] = Cardinality(InSlot("skill"))
    BY DEF Key
  <2>3. Cardinality(InSlot("skill")) \in Nat
    BY <1>0 DEF Key
  <2> QED
    BY <1>0, <2>1, <2>2, <2>3 DEF StepOf
<1>7. \A f \in Handler : \A g \in post'[f] : phase'[g] # "none"
  <2> SUFFICES ASSUME NEW f \in Handler, NEW g \in post[f] PROVE phase'[g] # "none"
    BY DEF StepOf
  <2>1. g \in Handler /\ phase[g] # "none"
    BY DEF GatewayTypeOK
  <2> QED
    BY <2>1 DEF StepOf
<1>6. balance' = InitialBalance - Price * Cardinality(Charged')
  <2> DEFINE a == IF h \in Charged' THEN 1 ELSE 0
             b == IF h \in Charged THEN 1 ELSE 0
  <2>1. Cardinality(Charged') = Cardinality(Charged) + a - b
    BY <1>2, <1>3, CountMoves
  <2>2. a \in {0, 1} /\ b \in {0, 1}
    OBVIOUS
  <2>3. balance' = InitialBalance - Price * Cardinality(Charged) - Price * a + Price * b
    BY DEF StepOf
  <2> HIDE DEF a, b
  <2> QED
    BY <1>0, <2>1, <2>2, <2>3
<1> QED
  BY <1>1, <1>4, <1>5, <1>6, <1>7
-----------------------------------------------------------------------------
\* Each action moves one handler as StepOf says.
LEMMA Types ==
    ASSUME GatewayStrong, NEW h \in Handler
    PROVE  /\ GatewayTypeOK /\ HandlerOK(h)
           /\ \A k \in Key : Slot(h, k) => inFlight[k] - 1 \in Nat
           /\ balance - Price \in Int /\ balance + Price \in Nat
           /\ Price \in Nat /\ MaxConcurrent \in Nat
<1>1. GatewayTypeOK /\ HandlerOK(h) /\ \A k \in Key : inFlight[k] = Cardinality(InSlot(k))
  BY DEF GatewayStrong
<1>2. \A k \in Key : /\ Cardinality(InSlot(k)) \in Nat
                     /\ Slot(h, k) => Cardinality(InSlot(k)) >= 1
  <2>1. \A k \in Key : Slot(h, k) => InSlot(k) # {}
    BY DEF InSlot
  <2> QED
    BY <1>1, <2>1, Counts
<1> QED
  BY <1>1, <1>2, GatewayAssumption DEF GatewayTypeOK

\* A request enters and takes a slot, unless the relay sent it.
LEMMA ArriveStep ==
    ASSUME GatewayStrong, NEW h \in Handler, NEW kd \in Single \cup {"relay"},
           NEW c \in Class, Arrive(h, kd, c)
    PROVE  GatewayTypeOK' /\ StepOf(h)
<1>0. /\ GatewayTypeOK /\ HandlerOK(h)
      /\ \A k \in Key : Slot(h, k) => inFlight[k] - 1 \in Nat
      /\ balance - Price \in Int /\ balance + Price \in Nat /\ Price \in Nat /\ MaxConcurrent \in Nat
  BY Types
<1> USE DEF Arrive, Admits, AtCapacity, processVars
<1>1. GatewayTypeOK'
  BY <1>0, GatewayAssumption DEF GatewayTypeOK, HandlerOK, Slot, Counted, TrackKey,
                                  Active, Single, Item, Class, Key
<1>2. \A g \in Handler \ {h} :
          /\ kind'[g] = kind[g] /\ phase'[g] = phase[g] /\ escrow'[g] = escrow[g]
          /\ outcome'[g] = outcome[g] /\ work'[g] = work[g]
          /\ reputation'[g] = reputation[g] /\ rows'[g] = rows[g]
  BY <1>0 DEF GatewayTypeOK
<1>3. /\ faults' >= faults /\ crashes' = crashes /\ post' = post
      /\ HandlerOK(h)' /\ (phase[h] # "none" => phase'[h] # "none")
  BY <1>0 DEF GatewayTypeOK, HandlerOK, Single, Item
<1>4. \A k \in Key : inFlight'[k] = inFlight[k] + (IF Slot(h, k)' THEN 1 ELSE 0)
                                               - (IF Slot(h, k) THEN 1 ELSE 0)
  BY <1>0 DEF GatewayTypeOK, HandlerOK, Slot, Counted, TrackKey, Active, Single, Item, Key
<1>5. balance' = balance - Price * (IF h \in Charged' THEN 1 ELSE 0)
                        + Price * (IF h \in Charged THEN 1 ELSE 0)
  BY <1>0 DEF GatewayTypeOK, HandlerOK, Charged
<1>6. h \in Rpcs' => h \in Rpcs \/ inFlight["skill"] < MaxConcurrent
  BY <1>0 DEF GatewayTypeOK, HandlerOK, Rpcs, Active, Single, Item, Key
<1> QED
  BY <1>1, <1>2, <1>3, <1>4, <1>5, <1>6 DEF StepOf

\* A request is turned away at the door.
LEMMA OverloadStep ==
    ASSUME GatewayStrong, NEW h \in Handler, Overload(h)
    PROVE  GatewayTypeOK' /\ StepOf(h)
<1>0. /\ GatewayTypeOK /\ HandlerOK(h)
      /\ \A k \in Key : Slot(h, k) => inFlight[k] - 1 \in Nat
      /\ balance - Price \in Int /\ balance + Price \in Nat /\ Price \in Nat /\ MaxConcurrent \in Nat
  BY Types
<1> USE DEF Overload, processVars
<1>1. GatewayTypeOK'
  BY <1>0, GatewayAssumption DEF GatewayTypeOK, HandlerOK, Slot, Counted, TrackKey,
                                  Active, Single, Item, Class, Key
<1>2. \A g \in Handler \ {h} :
          /\ kind'[g] = kind[g] /\ phase'[g] = phase[g] /\ escrow'[g] = escrow[g]
          /\ outcome'[g] = outcome[g] /\ work'[g] = work[g]
          /\ reputation'[g] = reputation[g] /\ rows'[g] = rows[g]
  BY <1>0 DEF GatewayTypeOK
<1>3. /\ faults' >= faults /\ crashes' = crashes /\ post' = post
      /\ HandlerOK(h)' /\ (phase[h] # "none" => phase'[h] # "none")
  BY <1>0 DEF GatewayTypeOK, HandlerOK, Single, Item
<1>4. \A k \in Key : inFlight'[k] = inFlight[k] + (IF Slot(h, k)' THEN 1 ELSE 0)
                                               - (IF Slot(h, k) THEN 1 ELSE 0)
  BY <1>0 DEF GatewayTypeOK, HandlerOK, Slot, Counted, TrackKey, Active, Single, Item, Key
<1>5. balance' = balance - Price * (IF h \in Charged' THEN 1 ELSE 0)
                        + Price * (IF h \in Charged THEN 1 ELSE 0)
  BY <1>0 DEF GatewayTypeOK, HandlerOK, Charged
<1>6. h \in Rpcs' => h \in Rpcs \/ inFlight["skill"] < MaxConcurrent
  BY <1>0 DEF GatewayTypeOK, HandlerOK, Rpcs, Active, Single, Item, Key
<1> QED
  BY <1>1, <1>2, <1>3, <1>4, <1>5, <1>6 DEF StepOf

\* A request is refused before anything is held.
LEMMA RefuseStep ==
    ASSUME GatewayStrong, NEW h \in Handler, RefuseAtOnce(h)
    PROVE  GatewayTypeOK' /\ StepOf(h)
<1>0. /\ GatewayTypeOK /\ HandlerOK(h)
      /\ \A k \in Key : Slot(h, k) => inFlight[k] - 1 \in Nat
      /\ balance - Price \in Int /\ balance + Price \in Nat /\ Price \in Nat /\ MaxConcurrent \in Nat
  BY Types
<1> USE DEF RefuseAtOnce, processVars
<1>1. GatewayTypeOK'
  BY <1>0, GatewayAssumption DEF GatewayTypeOK, HandlerOK, Slot, Counted, TrackKey,
                                  Active, Single, Item, Class, Key
<1>2. \A g \in Handler \ {h} :
          /\ kind'[g] = kind[g] /\ phase'[g] = phase[g] /\ escrow'[g] = escrow[g]
          /\ outcome'[g] = outcome[g] /\ work'[g] = work[g]
          /\ reputation'[g] = reputation[g] /\ rows'[g] = rows[g]
  BY <1>0 DEF GatewayTypeOK
<1>3. /\ faults' >= faults /\ crashes' = crashes /\ post' = post
      /\ HandlerOK(h)' /\ (phase[h] # "none" => phase'[h] # "none")
  BY <1>0 DEF GatewayTypeOK, HandlerOK, Single, Item
<1>4. \A k \in Key : inFlight'[k] = inFlight[k] + (IF Slot(h, k)' THEN 1 ELSE 0)
                                               - (IF Slot(h, k) THEN 1 ELSE 0)
  BY <1>0 DEF GatewayTypeOK, HandlerOK, Slot, Counted, TrackKey, Active, Single, Item, Key
<1>5. balance' = balance - Price * (IF h \in Charged' THEN 1 ELSE 0)
                        + Price * (IF h \in Charged THEN 1 ELSE 0)
  BY <1>0 DEF GatewayTypeOK, HandlerOK, Charged
<1>6. h \in Rpcs' => h \in Rpcs \/ inFlight["skill"] < MaxConcurrent
  BY <1>0 DEF GatewayTypeOK, HandlerOK, Rpcs, Active, Single, Item, Key
<1> QED
  BY <1>1, <1>2, <1>3, <1>4, <1>5, <1>6 DEF StepOf

\* The balance is checked and the price is held.
LEMMA HoldStep ==
    ASSUME GatewayStrong, NEW h \in Handler, Hold(h)
    PROVE  GatewayTypeOK' /\ StepOf(h)
<1>0. /\ GatewayTypeOK /\ HandlerOK(h)
      /\ \A k \in Key : Slot(h, k) => inFlight[k] - 1 \in Nat
      /\ balance - Price \in Int /\ balance + Price \in Nat /\ Price \in Nat /\ MaxConcurrent \in Nat
  BY Types
<1> USE DEF Hold, End, Counted, TrackKey, processVars
<1>1. GatewayTypeOK'
  BY <1>0, GatewayAssumption DEF GatewayTypeOK, HandlerOK, Slot, Counted, TrackKey,
                                  Active, Single, Item, Class, Key
<1>2. \A g \in Handler \ {h} :
          /\ kind'[g] = kind[g] /\ phase'[g] = phase[g] /\ escrow'[g] = escrow[g]
          /\ outcome'[g] = outcome[g] /\ work'[g] = work[g]
          /\ reputation'[g] = reputation[g] /\ rows'[g] = rows[g]
  BY <1>0 DEF GatewayTypeOK
<1>3. /\ faults' >= faults /\ crashes' = crashes /\ post' = post
      /\ HandlerOK(h)' /\ (phase[h] # "none" => phase'[h] # "none")
  BY <1>0 DEF GatewayTypeOK, HandlerOK, Single, Item
<1>4. \A k \in Key : inFlight'[k] = inFlight[k] + (IF Slot(h, k)' THEN 1 ELSE 0)
                                               - (IF Slot(h, k) THEN 1 ELSE 0)
  BY <1>0 DEF GatewayTypeOK, HandlerOK, Slot, Counted, TrackKey, Active, Single, Item, Key
<1>5. balance' = balance - Price * (IF h \in Charged' THEN 1 ELSE 0)
                        + Price * (IF h \in Charged THEN 1 ELSE 0)
  BY <1>0 DEF GatewayTypeOK, HandlerOK, Charged
<1>6. h \in Rpcs' => h \in Rpcs \/ inFlight["skill"] < MaxConcurrent
  BY <1>0 DEF GatewayTypeOK, HandlerOK, Rpcs, Active, Single, Item, Key
<1> QED
  BY <1>1, <1>2, <1>3, <1>4, <1>5, <1>6 DEF StepOf

\* The provider's gate releases the hold.
LEMMA TurnAwayStep ==
    ASSUME GatewayStrong, NEW h \in Handler, TurnAway(h)
    PROVE  GatewayTypeOK' /\ StepOf(h)
<1>0. /\ GatewayTypeOK /\ HandlerOK(h)
      /\ \A k \in Key : Slot(h, k) => inFlight[k] - 1 \in Nat
      /\ balance - Price \in Int /\ balance + Price \in Nat /\ Price \in Nat /\ MaxConcurrent \in Nat
  BY Types
<1> USE DEF TurnAway, End, Counted, TrackKey, Finalised, Refund, processVars
<1>1. GatewayTypeOK'
  BY <1>0, GatewayAssumption DEF GatewayTypeOK, HandlerOK, Slot, Counted, TrackKey,
                                  Active, Single, Item, Class, Key
<1>2. \A g \in Handler \ {h} :
          /\ kind'[g] = kind[g] /\ phase'[g] = phase[g] /\ escrow'[g] = escrow[g]
          /\ outcome'[g] = outcome[g] /\ work'[g] = work[g]
          /\ reputation'[g] = reputation[g] /\ rows'[g] = rows[g]
  BY <1>0 DEF GatewayTypeOK
<1>3. /\ faults' >= faults /\ crashes' = crashes /\ post' = post
      /\ HandlerOK(h)' /\ (phase[h] # "none" => phase'[h] # "none")
  BY <1>0 DEF GatewayTypeOK, HandlerOK, Single, Item
<1>4. \A k \in Key : inFlight'[k] = inFlight[k] + (IF Slot(h, k)' THEN 1 ELSE 0)
                                               - (IF Slot(h, k) THEN 1 ELSE 0)
  BY <1>0 DEF GatewayTypeOK, HandlerOK, Slot, Counted, TrackKey, Active, Single, Item, Key
<1>5. balance' = balance - Price * (IF h \in Charged' THEN 1 ELSE 0)
                        + Price * (IF h \in Charged THEN 1 ELSE 0)
  BY <1>0 DEF GatewayTypeOK, HandlerOK, Charged
<1>6. h \in Rpcs' => h \in Rpcs \/ inFlight["skill"] < MaxConcurrent
  BY <1>0 DEF GatewayTypeOK, HandlerOK, Rpcs, Active, Single, Item, Key
<1> QED
  BY <1>1, <1>2, <1>3, <1>4, <1>5, <1>6 DEF StepOf

\* The execution begins.
LEMMA StartStep ==
    ASSUME GatewayStrong, NEW h \in Handler, Start(h)
    PROVE  GatewayTypeOK' /\ StepOf(h)
<1>0. /\ GatewayTypeOK /\ HandlerOK(h)
      /\ \A k \in Key : Slot(h, k) => inFlight[k] - 1 \in Nat
      /\ balance - Price \in Int /\ balance + Price \in Nat /\ Price \in Nat /\ MaxConcurrent \in Nat
  BY Types
<1> USE DEF Start, processVars
<1>1. GatewayTypeOK'
  BY <1>0, GatewayAssumption DEF GatewayTypeOK, HandlerOK, Slot, Counted, TrackKey,
                                  Active, Single, Item, Class, Key
<1>2. \A g \in Handler \ {h} :
          /\ kind'[g] = kind[g] /\ phase'[g] = phase[g] /\ escrow'[g] = escrow[g]
          /\ outcome'[g] = outcome[g] /\ work'[g] = work[g]
          /\ reputation'[g] = reputation[g] /\ rows'[g] = rows[g]
  BY <1>0 DEF GatewayTypeOK
<1>3. /\ faults' >= faults /\ crashes' = crashes /\ post' = post
      /\ HandlerOK(h)' /\ (phase[h] # "none" => phase'[h] # "none")
  BY <1>0 DEF GatewayTypeOK, HandlerOK, Single, Item
<1>4. \A k \in Key : inFlight'[k] = inFlight[k] + (IF Slot(h, k)' THEN 1 ELSE 0)
                                               - (IF Slot(h, k) THEN 1 ELSE 0)
  BY <1>0 DEF GatewayTypeOK, HandlerOK, Slot, Counted, TrackKey, Active, Single, Item, Key
<1>5. balance' = balance - Price * (IF h \in Charged' THEN 1 ELSE 0)
                        + Price * (IF h \in Charged THEN 1 ELSE 0)
  BY <1>0 DEF GatewayTypeOK, HandlerOK, Charged
<1>6. h \in Rpcs' => h \in Rpcs \/ inFlight["skill"] < MaxConcurrent
  BY <1>0 DEF GatewayTypeOK, HandlerOK, Rpcs, Active, Single, Item, Key
<1> QED
  BY <1>1, <1>2, <1>3, <1>4, <1>5, <1>6 DEF StepOf

\* A failure releases the hold, or finds it released.
LEMMA FailureStep ==
    ASSUME GatewayStrong, NEW h \in Handler, NEW penalty \in BOOLEAN, HandleFailure(h, penalty),
           phase[h] = "running", work' \in [Handler -> {"none", "going", "over"}],
           work'[h] # "none", \A g \in Handler \ {h} : work'[g] = work[g]
    PROVE  GatewayTypeOK' /\ StepOf(h)
<1>0. /\ GatewayTypeOK /\ HandlerOK(h)
      /\ \A k \in Key : Slot(h, k) => inFlight[k] - 1 \in Nat
      /\ balance - Price \in Int /\ balance + Price \in Nat /\ Price \in Nat /\ MaxConcurrent \in Nat
  BY Types
<1> USE DEF HandleFailure, WriteFails, End, Counted, TrackKey, Finalised, Refund, processVars
<1>1. GatewayTypeOK'
  BY <1>0, GatewayAssumption DEF GatewayTypeOK, HandlerOK, Slot, Counted, TrackKey,
                                  Active, Single, Item, Class, Key
<1>2. \A g \in Handler \ {h} :
          /\ kind'[g] = kind[g] /\ phase'[g] = phase[g] /\ escrow'[g] = escrow[g]
          /\ outcome'[g] = outcome[g] /\ work'[g] = work[g]
          /\ reputation'[g] = reputation[g] /\ rows'[g] = rows[g]
  BY <1>0 DEF GatewayTypeOK
<1>3. /\ faults' >= faults /\ crashes' = crashes /\ post' = post
      /\ HandlerOK(h)' /\ (phase[h] # "none" => phase'[h] # "none")
  BY <1>0 DEF GatewayTypeOK, HandlerOK, Single, Item
<1>4. \A k \in Key : inFlight'[k] = inFlight[k] + (IF Slot(h, k)' THEN 1 ELSE 0)
                                               - (IF Slot(h, k) THEN 1 ELSE 0)
  BY <1>0 DEF GatewayTypeOK, HandlerOK, Slot, Counted, TrackKey, Active, Single, Item, Key
<1>5. balance' = balance - Price * (IF h \in Charged' THEN 1 ELSE 0)
                        + Price * (IF h \in Charged THEN 1 ELSE 0)
  BY <1>0 DEF GatewayTypeOK, HandlerOK, Charged
<1>6. h \in Rpcs' => h \in Rpcs \/ inFlight["skill"] < MaxConcurrent
  BY <1>0 DEF GatewayTypeOK, HandlerOK, Rpcs, Active, Single, Item, Key
<1> QED
  BY <1>1, <1>2, <1>3, <1>4, <1>5, <1>6 DEF StepOf

\* A success settles the hold.
LEMMA SuccessStep ==
    ASSUME GatewayStrong, NEW h \in Handler, HandleSuccess(h),
           phase[h] = "running", work' \in [Handler -> {"none", "going", "over"}],
           work'[h] # "none", \A g \in Handler \ {h} : work'[g] = work[g]
    PROVE  GatewayTypeOK' /\ StepOf(h)
<1>0. /\ GatewayTypeOK /\ HandlerOK(h)
      /\ \A k \in Key : Slot(h, k) => inFlight[k] - 1 \in Nat
      /\ balance - Price \in Int /\ balance + Price \in Nat /\ Price \in Nat /\ MaxConcurrent \in Nat
  BY Types
<1> USE DEF HandleSuccess, End, Counted, TrackKey, processVars
<1>1. GatewayTypeOK'
  BY <1>0, GatewayAssumption DEF GatewayTypeOK, HandlerOK, Slot, Counted, TrackKey,
                                  Active, Single, Item, Class, Key
<1>2. \A g \in Handler \ {h} :
          /\ kind'[g] = kind[g] /\ phase'[g] = phase[g] /\ escrow'[g] = escrow[g]
          /\ outcome'[g] = outcome[g] /\ work'[g] = work[g]
          /\ reputation'[g] = reputation[g] /\ rows'[g] = rows[g]
  BY <1>0 DEF GatewayTypeOK
<1>3. /\ faults' >= faults /\ crashes' = crashes /\ post' = post
      /\ HandlerOK(h)' /\ (phase[h] # "none" => phase'[h] # "none")
  BY <1>0 DEF GatewayTypeOK, HandlerOK, Single, Item
<1>4. \A k \in Key : inFlight'[k] = inFlight[k] + (IF Slot(h, k)' THEN 1 ELSE 0)
                                               - (IF Slot(h, k) THEN 1 ELSE 0)
  BY <1>0 DEF GatewayTypeOK, HandlerOK, Slot, Counted, TrackKey, Active, Single, Item, Key
<1>5. balance' = balance - Price * (IF h \in Charged' THEN 1 ELSE 0)
                        + Price * (IF h \in Charged THEN 1 ELSE 0)
  BY <1>0 DEF GatewayTypeOK, HandlerOK, Charged
<1>6. h \in Rpcs' => h \in Rpcs \/ inFlight["skill"] < MaxConcurrent
  BY <1>0 DEF GatewayTypeOK, HandlerOK, Rpcs, Active, Single, Item, Key
<1> QED
  BY <1>1, <1>2, <1>3, <1>4, <1>5, <1>6 DEF StepOf

\* A settlement whose rating cannot be written.
LEMMA BreaksStep ==
    ASSUME GatewayStrong, NEW h \in Handler, SuccessBreaks(h),
           phase[h] = "running", work' \in [Handler -> {"none", "going", "over"}],
           work'[h] # "none", \A g \in Handler \ {h} : work'[g] = work[g]
    PROVE  GatewayTypeOK' /\ StepOf(h)
<1>0. /\ GatewayTypeOK /\ HandlerOK(h)
      /\ \A k \in Key : Slot(h, k) => inFlight[k] - 1 \in Nat
      /\ balance - Price \in Int /\ balance + Price \in Nat /\ Price \in Nat /\ MaxConcurrent \in Nat
  BY Types
<1> USE DEF SuccessBreaks, WriteFails, End, Counted, TrackKey, processVars
<1>1. GatewayTypeOK'
  BY <1>0, GatewayAssumption DEF GatewayTypeOK, HandlerOK, Slot, Counted, TrackKey,
                                  Active, Single, Item, Class, Key
<1>2. \A g \in Handler \ {h} :
          /\ kind'[g] = kind[g] /\ phase'[g] = phase[g] /\ escrow'[g] = escrow[g]
          /\ outcome'[g] = outcome[g] /\ work'[g] = work[g]
          /\ reputation'[g] = reputation[g] /\ rows'[g] = rows[g]
  BY <1>0 DEF GatewayTypeOK
<1>3. /\ faults' >= faults /\ crashes' = crashes /\ post' = post
      /\ HandlerOK(h)' /\ (phase[h] # "none" => phase'[h] # "none")
  BY <1>0 DEF GatewayTypeOK, HandlerOK, Single, Item
<1>4. \A k \in Key : inFlight'[k] = inFlight[k] + (IF Slot(h, k)' THEN 1 ELSE 0)
                                               - (IF Slot(h, k) THEN 1 ELSE 0)
  BY <1>0 DEF GatewayTypeOK, HandlerOK, Slot, Counted, TrackKey, Active, Single, Item, Key
<1>5. balance' = balance - Price * (IF h \in Charged' THEN 1 ELSE 0)
                        + Price * (IF h \in Charged THEN 1 ELSE 0)
  BY <1>0 DEF GatewayTypeOK, HandlerOK, Charged
<1>6. h \in Rpcs' => h \in Rpcs \/ inFlight["skill"] < MaxConcurrent
  BY <1>0 DEF GatewayTypeOK, HandlerOK, Rpcs, Active, Single, Item, Key
<1> QED
  BY <1>1, <1>2, <1>3, <1>4, <1>5, <1>6 DEF StepOf

\* Work that nobody waits for ends.
LEMMA WorkStep ==
    ASSUME GatewayStrong, NEW h \in Handler, WorkEnds(h)
    PROVE  GatewayTypeOK' /\ StepOf(h)
<1>0. /\ GatewayTypeOK /\ HandlerOK(h)
      /\ \A k \in Key : Slot(h, k) => inFlight[k] - 1 \in Nat
      /\ balance - Price \in Int /\ balance + Price \in Nat /\ Price \in Nat /\ MaxConcurrent \in Nat
  BY Types
<1> USE DEF WorkEnds, processVars
<1>1. GatewayTypeOK'
  BY <1>0, GatewayAssumption DEF GatewayTypeOK, HandlerOK, Slot, Counted, TrackKey,
                                  Active, Single, Item, Class, Key
<1>2. \A g \in Handler \ {h} :
          /\ kind'[g] = kind[g] /\ phase'[g] = phase[g] /\ escrow'[g] = escrow[g]
          /\ outcome'[g] = outcome[g] /\ work'[g] = work[g]
          /\ reputation'[g] = reputation[g] /\ rows'[g] = rows[g]
  BY <1>0 DEF GatewayTypeOK
<1>3. /\ faults' >= faults /\ crashes' = crashes /\ post' = post
      /\ HandlerOK(h)' /\ (phase[h] # "none" => phase'[h] # "none")
  BY <1>0 DEF GatewayTypeOK, HandlerOK, Single, Item
<1>4. \A k \in Key : inFlight'[k] = inFlight[k] + (IF Slot(h, k)' THEN 1 ELSE 0)
                                               - (IF Slot(h, k) THEN 1 ELSE 0)
  BY <1>0 DEF GatewayTypeOK, HandlerOK, Slot, Counted, TrackKey, Active, Single, Item, Key
<1>5. balance' = balance - Price * (IF h \in Charged' THEN 1 ELSE 0)
                        + Price * (IF h \in Charged THEN 1 ELSE 0)
  BY <1>0 DEF GatewayTypeOK, HandlerOK, Charged
<1>6. h \in Rpcs' => h \in Rpcs \/ inFlight["skill"] < MaxConcurrent
  BY <1>0 DEF GatewayTypeOK, HandlerOK, Rpcs, Active, Single, Item, Key
<1> QED
  BY <1>1, <1>2, <1>3, <1>4, <1>5, <1>6 DEF StepOf

\* A recovery releases a hold.
LEMMA RecoverStep ==
    ASSUME GatewayStrong, NEW h \in Handler, Recover(h)
    PROVE  GatewayTypeOK' /\ StepOf(h)
<1>0. /\ GatewayTypeOK /\ HandlerOK(h)
      /\ \A k \in Key : Slot(h, k) => inFlight[k] - 1 \in Nat
      /\ balance - Price \in Int /\ balance + Price \in Nat /\ Price \in Nat /\ MaxConcurrent \in Nat
  BY Types
<1> USE DEF Recover, Refund, processVars
<1>1. GatewayTypeOK'
  BY <1>0, GatewayAssumption DEF GatewayTypeOK, HandlerOK, Slot, Counted, TrackKey,
                                  Active, Single, Item, Class, Key
<1>2. \A g \in Handler \ {h} :
          /\ kind'[g] = kind[g] /\ phase'[g] = phase[g] /\ escrow'[g] = escrow[g]
          /\ outcome'[g] = outcome[g] /\ work'[g] = work[g]
          /\ reputation'[g] = reputation[g] /\ rows'[g] = rows[g]
  BY <1>0 DEF GatewayTypeOK
<1>3. /\ faults' >= faults /\ crashes' = crashes /\ post' = post
      /\ HandlerOK(h)' /\ (phase[h] # "none" => phase'[h] # "none")
  BY <1>0 DEF GatewayTypeOK, HandlerOK, Single, Item
<1>4. \A k \in Key : inFlight'[k] = inFlight[k] + (IF Slot(h, k)' THEN 1 ELSE 0)
                                               - (IF Slot(h, k) THEN 1 ELSE 0)
  BY <1>0 DEF GatewayTypeOK, HandlerOK, Slot, Counted, TrackKey, Active, Single, Item, Key
<1>5. balance' = balance - Price * (IF h \in Charged' THEN 1 ELSE 0)
                        + Price * (IF h \in Charged THEN 1 ELSE 0)
  BY <1>0 DEF GatewayTypeOK, HandlerOK, Charged
<1>6. h \in Rpcs' => h \in Rpcs \/ inFlight["skill"] < MaxConcurrent
  BY <1>0 DEF GatewayTypeOK, HandlerOK, Rpcs, Active, Single, Item, Key
<1> QED
  BY <1>1, <1>2, <1>3, <1>4, <1>5, <1>6 DEF StepOf

-----------------------------------------------------------------------------
\* At the start no request was made.
LEMMA InitStrong == GatewayInit => GatewayStrong
<1> SUFFICES ASSUME GatewayInit PROVE GatewayStrong
  OBVIOUS
<1> USE GatewayAssumption DEF GatewayInit
<1>1. GatewayTypeOK
  BY DEF GatewayTypeOK, Class, Key
<1>2. \A h \in Handler : HandlerOK(h)
  BY DEF HandlerOK
<1>3. Rpcs = {} /\ Charged = {} /\ \A k \in Key : InSlot(k) = {}
  BY DEF InSlot, Slot, Rpcs, Charged, Active
<1>4. /\ Cardinality(Rpcs) = 0 /\ Cardinality(Charged) = 0
      /\ \A k \in Key : Cardinality(InSlot(k)) = 0
  BY <1>3, FS_EmptySet
<1> QED
  BY <1>1, <1>2, <1>4 DEF GatewayStrong

\* A crash loses every handler at work and the counter with them; the holds
\* stay in the database.
LEMMA CrashKeeps ==
    ASSUME GatewayStrong, Crash
    PROVE  GatewayStrong'
<1> USE GatewayAssumption DEF GatewayStrong, Crash
<1>1. GatewayTypeOK'
  BY DEF GatewayTypeOK
<1>2. ASSUME NEW h \in Handler PROVE HandlerOK(h)'
  <2>1. HandlerOK(h) /\ phase'[h] = (IF phase[h] \in Active THEN "lost" ELSE phase[h])
        /\ work'[h] = (IF work[h] = "going" THEN "over" ELSE work[h])
        /\ crashes' > 0
    BY DEF GatewayTypeOK
  <2> QED
    BY <2>1 DEF HandlerOK, Active, GatewayTypeOK
<1>3. Rpcs' = {} /\ \A k \in Key : InSlot(k)' = {}
  BY DEF InSlot, Slot, Rpcs, Active
<1>4. Charged' = Charged
  BY DEF Charged
<1>5. Cardinality(Rpcs') = 0 /\ \A k \in Key : Cardinality(InSlot(k)') = 0
  BY <1>3, FS_EmptySet
<1>6. \A h \in Handler : \A g \in post'[h] : phase'[g] # "none"
  BY DEF GatewayTypeOK
<1> QED
  BY <1>1, <1>2, <1>4, <1>5, <1>6

\* An array takes a slot for each of its items, which were nowhere before.
LEMMA PostKeeps ==
    ASSUME GatewayStrong, NEW items \in SUBSET Handler, NEW named \in SUBSET items,
           NEW c \in [items -> Class], ArriveArray(items, named, c)
    PROVE  GatewayStrong'
<1> USE GatewayAssumption DEF GatewayStrong, ArriveArray
<1> DEFINE new(k) == IF k = "skill" THEN named ELSE items \ named
<1>1. \A k \in Key : /\ new(k) \subseteq Handler /\ IsFiniteSet(new(k))
                     /\ Cardinality(new(k)) \in Nat
  <2>1. \A k \in Key : new(k) \subseteq Handler
    OBVIOUS
  <2> QED
    BY <2>1, FS_Subset, FS_CardinalityType
<1>2. GatewayTypeOK'
  <2>1. inFlight' = [k \in Key |-> inFlight[k] + Cardinality(new(k))]
    OBVIOUS
  <2>2. \A k \in Key : inFlight[k] + Cardinality(new(k)) \in Nat
    <3>1. \A k \in Key : inFlight[k] \in Nat
      BY DEF GatewayTypeOK
    <3> HIDE DEF new
    <3> QED
      BY <1>1, <3>1
  <2>3. class' \in [Handler -> Class] /\ kind' \in [Handler -> Single \cup Item \cup
                                                       {"relay", "receipt", "none"}]
    BY DEF GatewayTypeOK, Item
  <2>4. inFlight' \in [Key -> Nat]
    <3> HIDE DEF new, ArriveArray, GatewayStrong
    <3> QED
      BY <2>1, <2>2
  <2>6. post' \in [Handler -> SUBSET Handler]
    BY DEF GatewayTypeOK
  <2>5. phase' \in [Handler -> Active \cup {"none", "ended", "lost"}]
    BY DEF GatewayTypeOK, Active
  <2> QED
    BY <2>3, <2>4, <2>5, <2>6 DEF GatewayTypeOK
<1>3. ASSUME NEW h \in Handler PROVE HandlerOK(h)'
  <2>1. HandlerOK(h)
    OBVIOUS
  <2>2. CASE h \in items
    BY <2>1, <2>2 DEF HandlerOK, GatewayTypeOK
  <2>3. CASE h \notin items
    <3>1. /\ kind'[h] = kind[h] /\ phase'[h] = phase[h]
          /\ UNCHANGED <<escrow, outcome, work, reputation, rows, faults, crashes>>
      BY <2>3 DEF GatewayTypeOK
    <3> QED
      BY <2>1, <3>1 DEF HandlerOK
  <2> QED
    BY <2>2, <2>3
<1>4. ASSUME NEW k \in Key PROVE inFlight'[k] = Cardinality(InSlot(k)')
  <2>1. InSlot(k)' = InSlot(k) \cup new(k)
    <3> SUFFICES ASSUME NEW h \in Handler PROVE Slot(h, k)' <=> (Slot(h, k) \/ h \in new(k))
      BY <1>1 DEF InSlot
    <3>1. CASE h \in items
      BY <3>1 DEF Slot, Counted, TrackKey, Item, Active, Key, GatewayTypeOK
    <3>2. CASE h \notin items
      BY <3>2 DEF Slot, Counted, TrackKey
    <3> QED
      BY <3>1, <3>2
  <2>2. InSlot(k) \cap new(k) = {}
    BY DEF InSlot, Slot, Active
  <2>3. IsFiniteSet(InSlot(k)) /\ Cardinality(InSlot(k)) \in Nat
    <3>1. InSlot(k) \subseteq Handler
      BY DEF InSlot
    <3> QED
      BY <3>1, FS_Subset, FS_CardinalityType
  <2>4. Cardinality(InSlot(k) \cup new(k)) = Cardinality(InSlot(k)) + Cardinality(new(k))
    <3>1. Cardinality(InSlot(k) \cup new(k))
             = Cardinality(InSlot(k)) + Cardinality(new(k)) - Cardinality(InSlot(k) \cap new(k))
      BY <1>1, <2>3, FS_Union
    <3>2. Cardinality(InSlot(k) \cap new(k)) = 0
      BY <2>2, FS_EmptySet
    <3> HIDE DEF new
    <3> QED
      BY <1>1, <2>3, <3>1, <3>2
  <2>5. inFlight'[k] = inFlight[k] + Cardinality(new(k))
    OBVIOUS
  <2> QED
    BY <2>1, <2>4, <2>5
<1>5. Rpcs' = Rpcs
  <2> SUFFICES ASSUME NEW h \in Handler
               PROVE  (kind'[h] = "skill" /\ phase'[h] \in Active)
                         <=> (kind[h] = "skill" /\ phase[h] \in Active)
    BY DEF Rpcs
  <2>1. CASE h \in items
    BY <2>1 DEF HandlerOK, Active
  <2>2. CASE h \notin items
    BY <2>2
  <2> QED
    BY <2>1, <2>2
<1>6. Charged' = Charged
  BY DEF Charged
<1>7. \A h \in Handler : \A g \in post'[h] : phase'[g] # "none"
  BY DEF GatewayTypeOK
<1> QED
  BY <1>2, <1>3, <1>4, <1>5, <1>6, <1>7

\* Every step keeps the invariant.
LEMMA NextKeeps ==
    ASSUME GatewayStrong, [GatewayNext]_gatewayVars
    PROVE  GatewayStrong'
<1>1. ASSUME NEW h \in Handler, Handle(h) PROVE GatewayStrong'
  <2>t. work \in [Handler -> {"none", "going", "over"}]
    BY DEF GatewayStrong, GatewayTypeOK
  <2>1. ASSUME NEW k \in Single \cup {"relay"}, NEW c \in Class, Arrive(h, k, c)
        PROVE  GatewayStrong'
    BY <2>1, ArriveStep, StepKeeps
  <2>2. CASE Overload(h)
    BY <2>2, OverloadStep, StepKeeps
  <2>3. CASE RefuseAtOnce(h)
    BY <2>3, RefuseStep, StepKeeps
  <2>4. CASE Hold(h)
    BY <2>4, HoldStep, StepKeeps
  <2>5. CASE TurnAway(h)
    BY <2>5, TurnAwayStep, StepKeeps
  <2>6. CASE Start(h)
    BY <2>6, StartStep, StepKeeps
  <2>7. CASE Succeed(h)
    <3>1. /\ phase[h] = "running" /\ work' \in [Handler -> {"none", "going", "over"}]
          /\ work'[h] # "none" /\ \A g \in Handler \ {h} : work'[g] = work[g]
      BY <2>t, <2>7 DEF Succeed
    <3>2. CASE HandleSuccess(h)
      BY <3>1, <3>2, SuccessStep, StepKeeps
    <3>3. CASE SuccessBreaks(h)
      BY <3>1, <3>3, BreaksStep, StepKeeps
    <3>4. CASE HandleFailure(h, TRUE)
      BY <3>1, <3>4, FailureStep, StepKeeps
    <3> QED
      BY <2>7, <3>2, <3>3, <3>4 DEF Succeed
  <2>8. CASE Fail(h)
    <3>1. /\ phase[h] = "running" /\ work' \in [Handler -> {"none", "going", "over"}]
          /\ work'[h] # "none" /\ \A g \in Handler \ {h} : work'[g] = work[g]
      BY <2>t, <2>8 DEF Fail
    <3>2. PICK penalty \in BOOLEAN : HandleFailure(h, penalty)
      BY <2>8 DEF Fail
    <3> QED
      BY <3>1, <3>2, FailureStep, StepKeeps
  <2>9. CASE Timeout(h)
    <3>1. /\ phase[h] = "running" /\ work' = work /\ work[h] # "none"
      BY <2>9 DEF Timeout, GatewayStrong, HandlerOK
    <3>2. PICK penalty \in BOOLEAN : HandleFailure(h, penalty)
      BY <2>9 DEF Timeout
    <3> QED
      BY <2>t, <3>1, <3>2, FailureStep, StepKeeps
  <2>10. CASE WorkEnds(h)
    BY <2>10, WorkStep, StepKeeps
  <2> QED
    BY <1>1, <2>1, <2>2, <2>3, <2>4, <2>5, <2>6, <2>7, <2>8, <2>9, <2>10 DEF Handle
<1>2. ASSUME NEW h \in Handler, Recover(h) PROVE GatewayStrong'
  BY <1>2, RecoverStep, StepKeeps
<1>5. ASSUME NEW items \in SUBSET Handler, NEW named \in SUBSET items,
             NEW c \in [items -> Class], ArriveArray(items, named, c)
      PROVE  GatewayStrong'
  BY <1>5, PostKeeps
<1>3. CASE Crash
  BY <1>3, CrashKeeps
<1>4. CASE UNCHANGED gatewayVars
  <2>1. UNCHANGED <<kind, post, class, phase, escrow, outcome, work, reputation, rows, inFlight,
                    balance, faults, crashes>>
    BY <1>4 DEF gatewayVars, handlerVars, processVars
  <2> QED
    BY <2>1 DEF GatewayStrong, GatewayTypeOK, HandlerOK, InSlot, Slot, Rpcs, Charged, Counted,
                TrackKey
<1> QED
  BY <1>1, <1>2, <1>3, <1>4, <1>5 DEF GatewayNext

\* The invariant contains what the runs check.
LEMMA StrongImplies == GatewayStrong => GatewayInv /\ HoldEndsWithHandler /\ PaidMeansAnswered
<1> SUFFICES ASSUME GatewayStrong PROVE GatewayInv /\ HoldEndsWithHandler /\ PaidMeansAnswered
  OBVIOUS
<1>1. HoldEndsWithHandler /\ RatedForWorkOnly
  BY DEF GatewayStrong, HandlerOK, HoldEndsWithHandler, RatedForWorkOnly
<1>2. PaidMeansAnswered
  <2> SUFFICES ASSUME NEW h \in Handler, outcome[h] = "ok" PROVE Answered(h) \/ HeldUp(h)
    BY DEF GatewayStrong, HandlerOK, PaidMeansAnswered
  <2>1. phase[h] = "ended"
    BY DEF GatewayStrong, HandlerOK
  <2>2. ASSUME NEW g \in post[h], g # h, ~(phase[g] = "ended" /\ outcome[g] # "thrown")
        PROVE  HeldUp(h)
    <3>1. g \in Handler /\ phase[g] # "none" /\ HandlerOK(g)
      BY DEF GatewayStrong, GatewayTypeOK
    <3>2. phase[g] \in Active \cup {"ended", "lost"}
      BY <3>1 DEF GatewayStrong, GatewayTypeOK
    <3> QED
      BY <2>2, <3>1, <3>2 DEF HeldUp, HandlerOK
  <2> QED
    BY <2>1, <2>2 DEF Answered
<1>3. InFlightExact /\ BalanceMatchesEscrows
  BY DEF GatewayStrong, InFlightExact, BalanceMatchesEscrows, InSlot, Slot, Rpcs, Charged
<1> QED
  BY <1>1, <1>2, <1>3 DEF GatewayStrong, GatewayInv

-----------------------------------------------------------------------------
\* The inductive invariant holds throughout.
THEOREM GatewayStrongHolds == GatewaySpec => []GatewayStrong
<1>1. GatewayInit => GatewayStrong
  BY InitStrong
<1>2. GatewayStrong /\ [GatewayNext]_gatewayVars => GatewayStrong'
  BY NextKeeps
<1> QED
  BY <1>1, <1>2, PTL DEF GatewaySpec

\* The books of the gateway: its counters, its ratings and its balance, for any
\* number of concurrent requests, failures and crashes (server.ts:331-346).
THEOREM BooksKept == GatewaySpec => []GatewayInv
<1> QED
  BY StrongImplies, GatewayStrongHolds, PTL

\* No way out of a handler leaves a hold behind (execute.ts:347-394).
THEOREM NoHoldBehind == GatewaySpec => []HoldEndsWithHandler
<1> QED
  BY StrongImplies, GatewayStrongHolds, PTL

\* A direct request is paid if and only if its execution succeeded, but for one
\* whose writes broke after the settlement; and it then has its answer, but for
\* an item of an array that another item of the array holds up
\* (execute.ts:425-439, :476-481, server.ts:247).
THEOREM PaidIffAnswered == GatewaySpec => []PaidMeansAnswered
<1> QED
  BY StrongImplies, GatewayStrongHolds, PTL

-----------------------------------------------------------------------------
\* What a step may do to the escrow of a handler.
EscrowMove(h) ==
    \/ escrow'[h] = escrow[h]
    \/ escrow[h] = "none" /\ escrow'[h] = "held"
    \/ escrow[h] = "held" /\ escrow'[h] \in {"settled", "released"}

\* A step that writes one escrow, or none, moves it as a refund, a hold or a
\* settlement does.
LEMMA EscrowsMove ==
    ASSUME GatewayTypeOK, \A h \in Handler : HandlerOK(h), GatewayNext
    PROVE  \A h \in Handler : EscrowMove(h)
<1> USE DEF EscrowMove, GatewayTypeOK, processVars
<1>1. ASSUME NEW g \in Handler, Handle(g) PROVE \A h \in Handler : EscrowMove(h)
  <2>1. CASE \E k \in Single \cup {"relay"}, c \in Class : Arrive(g, k, c)
    BY <2>1 DEF Arrive
  <2>2. CASE Overload(g) \/ RefuseAtOnce(g) \/ Start(g) \/ WorkEnds(g)
    BY <2>2 DEF Overload, RefuseAtOnce, Start, WorkEnds
  <2>3. CASE Hold(g)
    <3>1. escrow[g] = "none"
      BY <2>3 DEF Hold, HandlerOK
    <3> QED
      BY <2>3, <3>1 DEF Hold
  <2>4. CASE TurnAway(g)
    BY <2>4 DEF TurnAway, Refund
  <2>5. CASE Succeed(g)
    BY <2>5 DEF Succeed, HandleSuccess, SuccessBreaks, HandleFailure, Refund
  <2>6. CASE Fail(g) \/ Timeout(g)
    BY <2>6 DEF Fail, Timeout, HandleFailure, Refund
  <2> QED
    BY <1>1, <2>1, <2>2, <2>3, <2>4, <2>5, <2>6 DEF Handle
<1>2. ASSUME NEW g \in Handler, Recover(g) PROVE \A h \in Handler : EscrowMove(h)
  BY <1>2 DEF Recover, Refund
<1>3. CASE Crash
  BY <1>3 DEF Crash
<1>4. CASE \E items \in SUBSET Handler : \E named \in SUBSET items, c \in [items -> Class] :
              ArriveArray(items, named, c)
  BY <1>4 DEF ArriveArray
<1> QED
  BY <1>1, <1>2, <1>3, <1>4 DEF GatewayNext

\* What the refinement mapping makes of such moves.
LEMMA MovesArePromised ==
    ASSUME GatewayTypeOK, GatewayTypeOK', \A h \in Handler : EscrowMove(h)
    PROVE  Promise!PromiseNext
<1> DEFINE open == [h \in Handler |->
               CASE escrow[h] = "none" -> "none"
                 [] escrow[h] = "held" -> "open"
                 [] escrow[h] = "settled" -> "paid"
                 [] escrow[h] = "released" -> "refunded"]
           amount == [h \in Handler |-> IF escrow[h] = "none" THEN 0 ELSE Price]
           out == [h \in Handler |-> IF escrow[h] \in {"settled", "released"} THEN Price ELSE 0]
<1> SUFFICES ASSUME NEW h \in Handler
             PROVE  \/ /\ open'[h] = open[h] /\ amount'[h] = amount[h] /\ out'[h] = out[h]
                    \/ /\ open[h] = "none" /\ open'[h] = "open"
                       /\ amount'[h] \in {Price} /\ out'[h] = out[h]
                    \/ /\ open[h] = "open"
                       /\ \/ open'[h] \in {"paid", "refunded"} /\ out'[h] = amount[h]
                          \/ open'[h] = "confirmed" /\ out'[h] = 0
                       /\ amount'[h] = amount[h]
  BY DEF Promise!PromiseNext, Promise!Stays, Promise!Opens, Promise!Closes
<1>1. /\ open[h] = CASE escrow[h] = "none" -> "none"
                     [] escrow[h] = "held" -> "open"
                     [] escrow[h] = "settled" -> "paid"
                     [] escrow[h] = "released" -> "refunded"
      /\ open'[h] = CASE escrow'[h] = "none" -> "none"
                      [] escrow'[h] = "held" -> "open"
                      [] escrow'[h] = "settled" -> "paid"
                      [] escrow'[h] = "released" -> "refunded"
      /\ amount[h] = IF escrow[h] = "none" THEN 0 ELSE Price
      /\ amount'[h] = IF escrow'[h] = "none" THEN 0 ELSE Price
      /\ out[h] = IF escrow[h] \in {"settled", "released"} THEN Price ELSE 0
      /\ out'[h] = IF escrow'[h] \in {"settled", "released"} THEN Price ELSE 0
  OBVIOUS
<1> HIDE DEF open, amount, out
<1>2. EscrowMove(h) /\ escrow[h] \in {"none", "held", "settled", "released"}
  BY DEF GatewayTypeOK
<1> QED
  BY <1>1, <1>2 DEF EscrowMove

\* The gateway keeps the promise of the escrow: each hold is paid out once, in
\* full, to one side, whatever throws and whoever recovers (execute.ts:394,
\* agent-runtime.ts:299).
THEOREM GatewayEscrowPromise == GatewaySpec => GatewayKeepsPromise
<1>1. GatewayInit => Promise!PromiseInit
  BY DEF GatewayInit, Promise!PromiseInit
<1>2. GatewayStrong /\ GatewayStrong' /\ [GatewayNext]_gatewayVars
         => [Promise!PromiseNext]_Promise!promiseVars
  <2>1. ASSUME GatewayStrong, GatewayStrong', GatewayNext PROVE Promise!PromiseNext
    BY <2>1, EscrowsMove, MovesArePromised DEF GatewayStrong
  <2>2. ASSUME UNCHANGED gatewayVars PROVE UNCHANGED Promise!promiseVars
    BY <2>2 DEF gatewayVars, handlerVars, Promise!promiseVars
  <2> QED
    BY <2>1, <2>2
<1> QED
  BY <1>1, <1>2, GatewayStrongHolds, PTL
  DEF GatewaySpec, GatewayKeepsPromise, Promise!PromiseSpec

=============================================================================
