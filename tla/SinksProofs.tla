----------------------------- MODULE SinksProofs ------------------------------
(* The sinks keep what they promise, for every number of callers, envelopes, *)
(* partitions, series and subscribers, and the export sinks implement        *)
(* DeliveryLedger.  Each sink has an inductive invariant of its own; a step  *)
(* of Sinks is a step of one of them, or leaves it alone.                    *)
EXTENDS Sinks, SequenceLemmas

-------------------------------------------------------------------------------
(* ClickHouse: an envelope that was delivered is in one place. *)

(* D: delivered, R: in the buffer, B: in a call, A: acknowledged, G: given up. *)
Apart(D, R, B, A, G) ==
    /\ R \subseteq D /\ A \subseteq D /\ G \subseteq D /\ \A p \in Procs : B[p] \subseteq D
    /\ \A e \in D : e \in R \/ e \in A \/ e \in G \/ \E p \in Procs : e \in B[p]
    /\ \A e \in R : e \notin A /\ e \notin G /\ \A p \in Procs : e \notin B[p]
    /\ \A e \in A : e \notin G /\ \A p \in Procs : e \notin B[p]
    /\ \A e \in G : \A p \in Procs : e \notin B[p]
    /\ \A p, q \in Procs : p # q => \A e \in B[p] : e \notin B[q]

Calls == [p \in Procs |-> ToSet(cWork[p].batch)]

ClickHouseType ==
    /\ rows \in Seq(Envs) /\ IsInjective(rows)
    /\ cWork \in [Procs -> [batch : Seq(Envs), attempt : Nat]]
    /\ \A p \in Procs : IsInjective(cWork[p].batch)
    /\ table \in [Envs -> Nat] /\ ambiguous \in [Envs -> Nat]
    /\ cDelivered \in SUBSET Envs
    /\ dropped \in Nat /\ IsFiniteSet(givenUp)

ClickHouseInv ==
    /\ ClickHouseType
    /\ Apart(cDelivered, ToSet(rows), Calls, acked, givenUp)
    /\ ClickHouseOnce
    /\ ClickHouseCounts

LEMMA ToSetFacts ==
    ASSUME NEW S
    PROVE  /\ ToSet(<<>>) = {} /\ <<>> \in Seq(S) /\ IsInjective(<<>>)
           /\ \A s \in Seq(S) :
                /\ ToSet(s) \subseteq S /\ (ToSet(s) = {} <=> s = <<>>)
                /\ \A x \in S : /\ Append(s, x) \in Seq(S) /\ Append(s, x) # <<>>
                                /\ ToSet(Append(s, x)) = ToSet(s) \cup {x}
                                /\ IsInjective(s) /\ x \notin ToSet(s) => IsInjective(Append(s, x))
<1>1. ToSet(<<>>) = {} /\ <<>> \in Seq(S) /\ IsInjective(<<>>)
  BY DEF ToSet, IsInjective
<1>2. ASSUME NEW s \in Seq(S) PROVE ToSet(s) \subseteq S /\ (ToSet(s) = {} <=> s = <<>>)
  <2>1. ToSet(s) = {s[i] : i \in 1..Len(s)}
    BY DEF ToSet
  <2>2. s # <<>> => 1 \in 1..Len(s)
    OBVIOUS
  <2>3. s = <<>> => ToSet(s) = {}
    BY <1>1
  <2> QED
    BY <2>1, <2>2, <2>3
<1>3. ASSUME NEW s \in Seq(S), NEW x \in S
      PROVE  /\ Append(s, x) \in Seq(S) /\ Append(s, x) # <<>>
             /\ ToSet(Append(s, x)) = ToSet(s) \cup {x}
             /\ IsInjective(s) /\ x \notin ToSet(s) => IsInjective(Append(s, x))
  <2>1. Append(s, x) \in Seq(S) /\ Range(Append(s, x)) = Range(s) \union {x}
    BY RangeOf
  <2>2. Append(s, x) # <<>>
    BY ToSetIsRange, <2>1, <1>1
  <2>3. IsInjective(s) /\ x \notin Range(s) => IsInjective(Append(s, x))
    BY InjectiveAppend
  <2> QED
    BY <2>1, <2>2, <2>3, ToSetIsRange
<1> QED
  BY <1>1, <1>2, <1>3

LEMMA ClickHouseStart == ClickHouseInit => ClickHouseInv
<1> SUFFICES ASSUME ClickHouseInit PROVE ClickHouseInv
  OBVIOUS
<1> USE DEF ClickHouseInit, NoBatch
<1>1. ClickHouseType
  BY ToSetFacts, FS_EmptySet DEF ClickHouseType
<1>2. ToSet(rows) = {} /\ \A p \in Procs : Calls[p] = {}
  BY ToSetFacts DEF Calls
<1>3. Apart(cDelivered, ToSet(rows), Calls, acked, givenUp)
  BY <1>2 DEF Apart
<1>4. ClickHouseOnce /\ ClickHouseCounts
  BY FS_EmptySet DEF ClickHouseOnce, ClickHouseCounts
<1> QED
  BY <1>1, <1>3, <1>4 DEF ClickHouseInv

(* The five ways an envelope, or a batch, goes from one place to the next. *)
LEMMA ApartMoves ==
    ASSUME NEW D, NEW R, NEW B, NEW A, NEW G, Apart(D, R, B, A, G),
           NEW p \in Procs, NEW C, \A q \in Procs : q # p => C[q] = B[q]
    PROVE  /\ \A e : e \notin D /\ C[p] = B[p] => Apart(D \cup {e}, R \cup {e}, C, A, G)
           /\ \A e : e \notin D /\ B[p] = {} /\ C[p] = R \cup {e} => Apart(D \cup {e}, {}, C, A, G)
           /\ B[p] = {} /\ C[p] = R => Apart(D, {}, C, A, G)
           /\ C[p] = {} => Apart(D, R, C, A \cup B[p], G) /\ Apart(D, R, C, A, G \cup B[p])
<1>1. ASSUME NEW e, e \notin D, C[p] = B[p] PROVE Apart(D \cup {e}, R \cup {e}, C, A, G)
  <2>1. \A q \in Procs : C[q] = B[q]
    BY <1>1
  <2> QED
    BY <1>1, <2>1 DEF Apart
<1>2. ASSUME NEW e, e \notin D, B[p] = {}, C[p] = R \cup {e} PROVE Apart(D \cup {e}, {}, C, A, G)
  BY <1>2 DEF Apart
<1>3. ASSUME B[p] = {}, C[p] = R PROVE Apart(D, {}, C, A, G)
  BY <1>3 DEF Apart
<1>4. ASSUME C[p] = {} PROVE Apart(D, R, C, A \cup B[p], G) /\ Apart(D, R, C, A, G \cup B[p])
  BY <1>4 DEF Apart
<1> QED
  BY <1>1, <1>2, <1>3, <1>4

LEMMA CallsAre ==
    /\ cWork \in [Procs -> [batch : Seq(Envs), attempt : Nat]] =>
         \A p \in Procs : Calls[p] = ToSet(cWork[p].batch)
    /\ cWork' \in [Procs -> [batch : Seq(Envs), attempt : Nat]] =>
         \A p \in Procs : Calls'[p] = ToSet(cWork'[p].batch)
BY DEF Calls

LEMMA DeliverRowKeeps ==
    ASSUME ClickHouseInv, NEW p \in Procs, NEW e \in Envs, NEW aged \in BOOLEAN, DeliverRow(p, e, aged)
    PROVE  ClickHouseInv'
<1> DEFINE all == Append(rows, e)
           ready == Len(all) >= BatchSize \/ aged
           b == IF ready THEN all ELSE <<>>
<1>1. ClickHouseType /\ Apart(cDelivered, ToSet(rows), Calls, acked, givenUp)
  BY DEF ClickHouseInv
<1>2. /\ cWork[p].batch = <<>> /\ e \notin cDelivered /\ cDelivered' = cDelivered \cup {e}
      /\ rows' = (IF ready THEN <<>> ELSE all)
      /\ cWork' = [cWork EXCEPT ![p].batch = b]
      /\ UNCHANGED <<table, acked, dropped, failed, givenUp, ambiguous, runtime>>
  BY DEF DeliverRow, NoBatch
<1> HIDE DEF ready
<1>3. e \notin ToSet(rows)
  BY <1>1, <1>2 DEF Apart
<1>4. all \in Seq(Envs) /\ ToSet(all) = ToSet(rows) \cup {e} /\ IsInjective(all)
  BY <1>1, <1>3, ToSetFacts DEF ClickHouseType
<1> HIDE DEF all
<1>b. b \in Seq(Envs) /\ IsInjective(b) /\ ToSet(b) = IF ready THEN ToSet(rows) \cup {e} ELSE {}
  BY <1>4, ToSetFacts
<1> HIDE DEF b
<1>5. /\ cWork' \in [Procs -> [batch : Seq(Envs), attempt : Nat]]
      /\ cWork'[p].batch = b
      /\ \A q \in Procs : q # p => cWork'[q] = cWork[q]
  BY <1>1, <1>2, <1>b DEF ClickHouseType
<1>6. ClickHouseType'
  BY <1>1, <1>2, <1>4, <1>b, <1>5, ToSetFacts DEF ClickHouseType
<1>7. Calls'[p] = ToSet(b) /\ Calls[p] = {}
      /\ \A q \in Procs : q # p => Calls'[q] = Calls[q]
  BY <1>1, <1>2, <1>5, CallsAre, ToSetFacts DEF ClickHouseType
<1>8. ToSet(rows') = IF ready THEN {} ELSE ToSet(rows) \cup {e}
  BY <1>2, <1>4, ToSetFacts
<1>9. Apart(cDelivered', ToSet(rows'), Calls', acked', givenUp')
  <2> DEFINE R == ToSet(rows)
             B == Calls
             C == Calls'
  <2>1. Apart(cDelivered, R, B, acked, givenUp) /\ e \notin cDelivered
        /\ B[p] = {} /\ (\A q \in Procs : q # p => C[q] = B[q])
        /\ C[p] = IF ready THEN R \cup {e} ELSE {}
    BY <1>1, <1>2, <1>b, <1>7
  <2> HIDE DEF R, B, C
  <2>2. Apart(cDelivered \cup {e}, IF ready THEN {} ELSE R \cup {e}, C, acked, givenUp)
    <3>1. CASE ready
      BY ONLY <2>1, <3>1, p \in Procs, ApartMoves
    <3>2. CASE ~ready
      BY ONLY <2>1, <3>2, p \in Procs, ApartMoves
    <3> QED
      BY <3>1, <3>2
  <2> QED
    BY <1>2, <1>8, <2>2 DEF R, C
<1>10. ClickHouseOnce' /\ ClickHouseCounts'
  BY <1>2 DEF ClickHouseInv, ClickHouseOnce, ClickHouseCounts
<1> QED
  BY <1>6, <1>9, <1>10 DEF ClickHouseInv

LEMMA DrainNowKeeps ==
    ASSUME ClickHouseInv, NEW p \in Procs, DrainNow(p)
    PROVE  ClickHouseInv'
<1>1. ClickHouseType /\ Apart(cDelivered, ToSet(rows), Calls, acked, givenUp)
  BY DEF ClickHouseInv
<1>2. /\ cWork[p].batch = <<>> /\ rows' = <<>>
      /\ cWork' = [cWork EXCEPT ![p].batch = rows]
      /\ UNCHANGED <<table, acked, dropped, failed, givenUp, ambiguous, cDelivered, runtime>>
  BY DEF DrainNow, NoBatch
<1>3. /\ cWork' \in [Procs -> [batch : Seq(Envs), attempt : Nat]]
      /\ cWork'[p].batch = rows
      /\ \A q \in Procs : q # p => cWork'[q] = cWork[q]
  BY <1>1, <1>2 DEF ClickHouseType
<1>4. ClickHouseType'
  BY <1>1, <1>2, <1>3, ToSetFacts DEF ClickHouseType
<1>5. /\ Calls'[p] = ToSet(rows) /\ Calls[p] = {} /\ ToSet(rows') = {}
      /\ \A q \in Procs : q # p => Calls'[q] = Calls[q]
  BY <1>1, <1>2, <1>3, CallsAre, ToSetFacts DEF ClickHouseType
<1>6. Apart(cDelivered', ToSet(rows'), Calls', acked', givenUp')
  <2> DEFINE R == ToSet(rows)
             B == Calls
             C == Calls'
  <2>1. Apart(cDelivered, R, B, acked, givenUp) /\ B[p] = {} /\ C[p] = R
        /\ \A q \in Procs : q # p => C[q] = B[q]
    BY <1>1, <1>5
  <2> HIDE DEF R, B, C
  <2>2. Apart(cDelivered, {}, C, acked, givenUp)
    BY ONLY <2>1, p \in Procs, ApartMoves
  <2> QED
    BY <1>2, <1>5, <2>2 DEF C
<1>7. ClickHouseOnce' /\ ClickHouseCounts'
  BY <1>2 DEF ClickHouseInv, ClickHouseOnce, ClickHouseCounts
<1> QED
  BY <1>4, <1>6, <1>7 DEF ClickHouseInv

(* A batch that leaves its call goes whole to one place. *)
LEMMA CallEnds ==
    ASSUME ClickHouseInv, NEW p \in Procs, cWork' = [cWork EXCEPT ![p] = NoBatch]
    PROVE  /\ cWork' \in [Procs -> [batch : Seq(Envs), attempt : Nat]]
           /\ \A q \in Procs : IsInjective(cWork'[q].batch)
           /\ Calls'[p] = {} /\ Calls[p] = ToSet(cWork[p].batch)
           /\ \A q \in Procs : q # p => Calls'[q] = Calls[q]
           /\ Calls[p] \subseteq Envs
<1>1. ClickHouseType
  BY DEF ClickHouseInv
<1>2. /\ cWork' \in [Procs -> [batch : Seq(Envs), attempt : Nat]]
      /\ cWork'[p].batch = <<>> /\ cWork[p].batch \in Seq(Envs)
      /\ \A q \in Procs : q # p => cWork'[q] = cWork[q]
  BY <1>1, ToSetFacts DEF ClickHouseType, NoBatch
<1> QED
  BY <1>1, <1>2, CallsAre, ToSetFacts DEF ClickHouseType

LEMMA InsertOkKeeps ==
    ASSUME ClickHouseInv, NEW p \in Procs, InsertOk(p)
    PROVE  ClickHouseInv'
<1> DEFINE S == ToSet(cWork[p].batch)
<1>1. ClickHouseType /\ Apart(cDelivered, ToSet(rows), Calls, acked, givenUp) /\ ClickHouseOnce
  BY DEF ClickHouseInv
<1>2. /\ table' = Plus(table, S) /\ acked' = acked \cup S
      /\ cWork' = [cWork EXCEPT ![p] = NoBatch]
      /\ UNCHANGED <<rows, dropped, failed, givenUp, ambiguous, cDelivered, runtime>>
  BY DEF InsertOk
<1>3. S = Calls[p]
  BY <1>2, CallEnds
<1> HIDE DEF S
<1>4. table' \in [Envs -> Nat]
  BY <1>1, <1>2 DEF Plus, ClickHouseType
<1>5. ClickHouseType'
  BY <1>1, <1>2, <1>4, CallEnds DEF ClickHouseType
<1>6. Apart(cDelivered', ToSet(rows'), Calls', acked', givenUp')
  BY <1>1, <1>2, <1>3, CallEnds, ApartMoves
<1>7. \A e \in Envs : e \in S => e \notin acked
  BY <1>1, <1>3 DEF Apart
<1>8. ClickHouseOnce'
  BY <1>1, <1>2, <1>7 DEF ClickHouseOnce, Plus, ClickHouseType
<1>9. ClickHouseCounts'
  BY <1>2 DEF ClickHouseInv, ClickHouseCounts
<1> QED
  BY <1>5, <1>6, <1>8, <1>9 DEF ClickHouseInv

LEMMA InsertFailsKeeps ==
    ASSUME ClickHouseInv, NEW p \in Procs, NEW applied \in BOOLEAN, InsertFails(p, applied)
    PROVE  ClickHouseInv'
<1> DEFINE S == ToSet(cWork[p].batch)
           last == cWork[p].attempt + 1 = RetryAttempts
<1>1. /\ ClickHouseType /\ Apart(cDelivered, ToSet(rows), Calls, acked, givenUp)
      /\ ClickHouseOnce /\ ClickHouseCounts
  BY DEF ClickHouseInv
<1>2. /\ table' = (IF applied THEN Plus(table, S) ELSE table)
      /\ ambiguous' = (IF applied THEN Plus(ambiguous, S) ELSE ambiguous)
      /\ UNCHANGED <<acked, cDelivered, runtime>>
      /\ \/ GiveUp(p, S) /\ cWork' = [cWork EXCEPT ![p] = NoBatch]
         \/ /\ cWork' = [cWork EXCEPT ![p].attempt = @ + 1]
            /\ UNCHANGED <<rows, dropped, failed, givenUp>>
         \/ runtime /\ BackoffPanics(p, S)
  BY DEF InsertFails
<1>3. S \subseteq Envs /\ IsFiniteSet(S) /\ Cardinality(S) = Len(cWork[p].batch)
      /\ Len(cWork[p].batch) \in Nat
  BY <1>1, InjectiveCount, ToSetFacts DEF ClickHouseType
<1>s. Calls[p] = S
  BY <1>1, CallsAre DEF ClickHouseType
<1> HIDE DEF S, last
<1>4. table' \in [Envs -> Nat] /\ ambiguous' \in [Envs -> Nat]
  <2>1. \A f \in [Envs -> Nat] : Plus(f, S) \in [Envs -> Nat]
    BY DEF Plus
  <2> QED
    BY <1>1, <1>2, <2>1 DEF ClickHouseType
<1>5. ClickHouseOnce'
  BY <1>1, <1>2 DEF ClickHouseOnce, Plus, ClickHouseType
<1>6. S \cap givenUp = {}
  BY <1>1, <1>s DEF Apart
<1>7. IsFiniteSet(givenUp \cup S)
      /\ Cardinality(givenUp \cup S) = Cardinality(givenUp) + Len(cWork[p].batch)
  <2>1. givenUp \cap S = {} /\ IsFiniteSet(givenUp) /\ Cardinality(givenUp) \in Nat
    BY <1>1, <1>6, FS_CardinalityType DEF ClickHouseType
  <2>2. IsFiniteSet(givenUp \cup S)
        /\ Cardinality(givenUp \cup S) = Cardinality(givenUp) + Cardinality(S) - Cardinality(givenUp \cap S)
    BY <1>3, <2>1, FS_Union
  <2>3. Cardinality(givenUp \cap S) = 0
    BY <2>1, FS_EmptySet
  <2> QED
    BY <1>3, <2>1, <2>2, <2>3
<1>8. CASE GiveUp(p, S) /\ cWork' = [cWork EXCEPT ![p] = NoBatch]
  <2>1. rows' = rows /\ givenUp' = givenUp \cup S /\ dropped' = dropped + Len(cWork[p].batch)
    BY <1>8 DEF GiveUp
  <2>2. ClickHouseType'
    <3>1. dropped' \in Nat /\ IsFiniteSet(givenUp')
      BY <1>1, <1>3, <1>7, <2>1 DEF ClickHouseType
    <3> QED
      BY <1>1, <1>2, <1>4, <1>8, <2>1, <3>1, CallEnds DEF ClickHouseType
  <2>3. Apart(cDelivered', ToSet(rows'), Calls', acked', givenUp')
    BY <1>1, <1>2, <1>s, <1>8, <2>1, CallEnds, ApartMoves
  <2>4. ClickHouseCounts'
    BY <1>1, <1>2, <1>7, <2>1 DEF ClickHouseCounts
  <2> QED
    BY <1>5, <2>2, <2>3, <2>4 DEF ClickHouseInv
<1>9. CASE /\ cWork' = [cWork EXCEPT ![p].attempt = @ + 1]
           /\ UNCHANGED <<rows, dropped, failed, givenUp>>
  <2>1. /\ cWork' \in [Procs -> [batch : Seq(Envs), attempt : Nat]]
        /\ \A q \in Procs : cWork'[q].batch = cWork[q].batch
    <3>1. cWork \in [Procs -> [batch : Seq(Envs), attempt : Nat]] /\ cWork[p].attempt + 1 \in Nat
      BY <1>1 DEF ClickHouseType
    <3> DEFINE a == cWork[p].attempt + 1
    <3>2. cWork' = [cWork EXCEPT ![p].attempt = a] /\ a \in Nat
      BY <1>9, <3>1
    <3> HIDE DEF a
    <3> QED
      BY ONLY <3>1, <3>2
  <2>2. Calls' = Calls
    BY <2>1 DEF Calls
  <2>3. ClickHouseType'
    BY <1>1, <1>2, <1>4, <1>9, <2>1 DEF ClickHouseType
  <2>4. ClickHouseCounts' /\ Apart(cDelivered', ToSet(rows'), Calls', acked', givenUp')
    BY <1>1, <1>2, <1>9, <2>2 DEF ClickHouseCounts
  <2> QED
    BY <1>5, <2>3, <2>4 DEF ClickHouseInv
<1>10. CASE runtime /\ BackoffPanics(p, S)
  <2>1. /\ rows' = rows /\ givenUp' = givenUp \cup S /\ dropped' = dropped
        /\ cWork' = [cWork EXCEPT ![p] = NoBatch]
    BY <1>10 DEF BackoffPanics
  <2>2. ClickHouseType'
    BY <1>1, <1>2, <1>4, <1>7, <2>1, CallEnds DEF ClickHouseType
  <2>3. Apart(cDelivered', ToSet(rows'), Calls', acked', givenUp')
    BY <1>1, <1>2, <1>s, <2>1, CallEnds, ApartMoves
  <2>4. ClickHouseCounts'
    BY <1>2, <1>10 DEF ClickHouseCounts
  <2> QED
    BY <1>5, <2>2, <2>3, <2>4 DEF ClickHouseInv
<1> QED
  BY <1>2, <1>8, <1>9, <1>10

LEMMA ClickHouseStep == ClickHouseInv /\ [ClickHouseNext]_cVars => ClickHouseInv'
<1> SUFFICES ASSUME ClickHouseInv, [ClickHouseNext]_cVars PROVE ClickHouseInv'
  OBVIOUS
<1>1. CASE ClickHouseNext
  BY <1>1, DeliverRowKeeps, DrainNowKeeps, InsertOkKeeps, InsertFailsKeeps DEF ClickHouseNext
<1>2. CASE UNCHANGED cVars
  BY <1>2 DEF cVars, ClickHouseInv, ClickHouseType, ClickHouseOnce, ClickHouseCounts, Calls
<1> QED
  BY <1>1, <1>2

-------------------------------------------------------------------------------
(* Prometheus: the races of recorders and scraper over the concurrent map. *)

SeriesState == [key : SeriesKeys, value : Nat, idle : BOOLEAN]
RecAt == {Out} \cup [pc : {"len", "insert"}, key : SeriesKeys] \cup [pc : {"update", "touch"}, state : Nat]
ScrAt == {Out} \cup [pc : {"evict"}, stale : SUBSET SeriesKeys] \cup [pc : {"read"}, todo : SUBSET Nat]

(* An index is that of a state that exists: states are never taken away. *)
PromType ==
    /\ series \in [SeriesKeys -> Nat] /\ states \in Seq(SeriesState) /\ evicted \in Nat
    /\ rec \in [Recorders -> RecAt] /\ scr \in ScrAt
    /\ shown \in [SeriesKeys -> [state : Nat, value : Nat]]

PromIndices ==
    /\ \A k \in SeriesKeys : series[k] # 0 => series[k] \in DOMAIN states /\ states[series[k]].key = k
    /\ \A r \in Recorders : rec[r].pc \in {"update", "touch"} => rec[r].state \in DOMAIN states
    /\ scr.pc = "read" => scr.todo \subseteq DOMAIN states

(* A scrape shows no more than the state holds by now, and as long as nothing *)
(* was evicted, a key has had one state only.                                 *)
PromShown ==
    /\ \A k \in SeriesKeys :
         LET sh == shown[k] IN
         /\ sh.state = 0 => sh.value = 0
         /\ sh.state # 0 => /\ sh.state \in DOMAIN states /\ states[sh.state].key = k
                            /\ sh.value <= states[sh.state].value
                            /\ evicted = 0 => series[k] = sh.state
    /\ evicted = 0 /\ scr.pc = "read" => \A i \in scr.todo : series[states[i].key] = i

PromInv == PromType /\ PromIndices /\ PromShown /\ IsFiniteSet(Live) /\ PromCap

(* What a scrape shows goes down only with another state, after an eviction. *)
PromDown == \A k \in SeriesKeys :
    shown'[k].value < shown[k].value => shown'[k].state # shown[k].state /\ evicted > 0

LEMMA StateIs ==
    ASSUME NEW s, s \in Seq(SeriesState), NEW i, i \in DOMAIN s
    PROVE  /\ i \in Nat /\ i # 0 /\ s[i] \in SeriesState
           /\ s[i].key \in SeriesKeys /\ s[i].value \in Nat /\ s[i].value >= s[i].value
<1>1. i \in Nat /\ i # 0 /\ s[i] \in SeriesState
  OBVIOUS
<1> QED
  BY ONLY <1>1 DEF SeriesState

LEMMA IdleSet ==
    ASSUME NEW s \in SeriesState, NEW b \in BOOLEAN
    PROVE  LET t == [s EXCEPT !.idle = b] IN
           t \in SeriesState /\ t.key = s.key /\ t.value >= s.value
<1> DEFINE t == [s EXCEPT !.idle = b]
<1>1. t \in SeriesState /\ t.key = s.key /\ t.value = s.value
  BY DEF SeriesState
<1>2. s.value \in Nat
  BY DEF SeriesState
<1> HIDE DEF t
<1>3. t.value >= s.value
  BY ONLY <1>1, <1>2
<1> QED
  BY <1>1, <1>3 DEF t

LEMMA PromStart == PromInit => PromInv
<1> SUFFICES ASSUME PromInit PROVE PromInv
  OBVIOUS
<1> USE DEF PromInit
<1>1. PromType
  BY DEF PromType, RecAt, ScrAt, Out, SeriesState
<1>2. PromIndices
  BY DEF PromIndices, Out
<1>3. PromShown
  BY DEF PromShown, Out
<1>4. Live = {} /\ Inserting = {}
  BY DEF Live, Inserting, Out
<1>5. IsFiniteSet(Live) /\ PromCap
  <2>1. Cardinality(Live) = 0 /\ Cardinality(Inserting) = 0 /\ IsFiniteSet(Live)
    BY <1>4, FS_EmptySet
  <2>2. Cardinality(Recorders) \in Nat /\ Cardinality(Recorders) # 0
    BY PromAssumption, FS_CardinalityType, FS_EmptySet
  <2> QED
    BY <2>1, <2>2, PromAssumption DEF PromCap
<1> QED
  BY <1>1, <1>2, <1>3, <1>5 DEF PromInv

(* The cap holds as long as the map does not grow and nobody passes the check. *)
LEMMA CapShrinks ==
    ASSUME IsFiniteSet(Live), PromCap, Live' \subseteq Live, Inserting' \subseteq Inserting
    PROVE  IsFiniteSet(Live') /\ PromCap'
<1>1. IsFiniteSet(Inserting)
  BY PromAssumption, FS_Subset DEF Inserting
<1>2. IsFiniteSet(Live') /\ Cardinality(Live') <= Cardinality(Live)
      /\ Cardinality(Inserting') <= Cardinality(Inserting) /\ IsFiniteSet(Inserting')
  BY <1>1, FS_Subset
<1>3. /\ Cardinality(Live) \in Nat /\ Cardinality(Inserting) \in Nat /\ Cardinality(Recorders) \in Nat
      /\ Cardinality(Live') \in Nat /\ Cardinality(Inserting') \in Nat /\ MaxSeries \in Nat
  BY <1>1, <1>2, PromAssumption, FS_CardinalityType
<1> DEFINE l == Cardinality(Live)
           i == Cardinality(Inserting)
           l1 == Cardinality(Live')
           i1 == Cardinality(Inserting')
           n == Cardinality(Recorders)
<1>4. l + i <= MaxSeries + n - 1
  BY DEF PromCap
<1>5. l1 + i1 <= MaxSeries + n - 1
  <2> HIDE DEF l, i, l1, i1, n
  <2> QED
    BY <1>2, <1>3, <1>4 DEF l, i, l1, i1, n
<1> QED
  BY <1>2, <1>5 DEF PromCap

(* States are added and counted up; what points at them stays good. *)
LEMMA StatesGrow ==
    ASSUME PromInv, states' \in Seq(SeriesState), DOMAIN states \subseteq DOMAIN states',
           \A i \in DOMAIN states : states'[i].key = states[i].key /\ states'[i].value >= states[i].value,
           UNCHANGED <<scr, shown, evicted>>,
           series' \in [SeriesKeys -> Nat],
           \A k \in SeriesKeys :
             \/ series'[k] = series[k]
             \/ series[k] = 0 /\ series'[k] \in DOMAIN states' /\ states'[series'[k]].key = k,
           rec' \in [Recorders -> RecAt],
           \A r \in Recorders : rec'[r].pc \in {"update", "touch"} => rec'[r].state \in DOMAIN states'
    PROVE  PromType' /\ PromIndices' /\ PromShown' /\ PromDown
<1>1. PromType /\ PromIndices /\ PromShown
  BY DEF PromInv
<1>2. PromType'
  BY <1>1 DEF PromType
<1>3. PromIndices'
  <2>1. \A k \in SeriesKeys : series'[k] # 0 =>
            series'[k] \in DOMAIN states' /\ states'[series'[k]].key = k
    BY <1>1 DEF PromIndices
  <2>2. (scr.pc = "read" => scr.todo \subseteq DOMAIN states)'
    BY <1>1 DEF PromIndices
  <2> QED
    BY <2>1, <2>2 DEF PromIndices
<1>4. PromShown'
  <2>1. ASSUME NEW k \in SeriesKeys, shown[k].state # 0
        PROVE  /\ shown[k].state \in DOMAIN states' /\ states'[shown[k].state].key = k
               /\ shown[k].value <= states'[shown[k].state].value
               /\ evicted = 0 => series'[k] = shown[k].state
    <3> DEFINE i == shown[k].state
    <3>1. i \in DOMAIN states /\ states[i].key = k /\ shown[k].value <= states[i].value
          /\ (evicted = 0 => series[k] = i) /\ i # 0
      BY <1>1, <2>1 DEF PromShown
    <3>2. shown[k].value \in Nat /\ states[i].value \in Nat /\ states'[i].value \in Nat
      <4>1. shown[k].value \in Nat /\ states \in Seq(SeriesState) /\ i \in DOMAIN states'
        BY <1>1, <3>1 DEF PromType
      <4> QED
        BY <3>1, <4>1, StateIs
    <3> HIDE DEF i
    <3>3. i \in DOMAIN states' /\ states'[i].key = k /\ states'[i].value >= states[i].value
      BY <3>1
    <3>4. evicted = 0 => series'[k] = i
      BY <3>1
    <3>5. shown[k].value <= states'[i].value
      BY ONLY <3>1, <3>2, <3>3
    <3> QED
      BY <3>3, <3>4, <3>5 DEF i
  <2>2. ASSUME evicted = 0, scr.pc = "read", NEW i \in scr.todo PROVE series'[states'[i].key] = i
    <3>1. i \in DOMAIN states /\ series[states[i].key] = i /\ states'[i].key = states[i].key
      BY <1>1, <2>2 DEF PromIndices, PromShown
    <3>2. states[i].key \in SeriesKeys /\ i # 0
      BY <1>1, <3>1, StateIs DEF PromType
    <3> QED
      BY <3>1, <3>2
  <2>3. \A k \in SeriesKeys : shown[k].state = 0 => shown[k].value = 0
    BY <1>1 DEF PromShown
  <2> QED
    BY <2>1, <2>2, <2>3 DEF PromShown
<1>5. PromDown
  BY <1>1 DEF PromDown, PromType
<1> QED
  BY <1>2, <1>3, <1>4, <1>5

LEMMA GetKeeps ==
    ASSUME PromInv, NEW r \in Recorders, NEW k \in SeriesKeys, Get(r, k)
    PROVE  PromInv' /\ PromDown
<1>1. PromType /\ PromIndices /\ IsFiniteSet(Live) /\ PromCap
  BY DEF PromInv
<1> DEFINE new == IF series[k] # 0 THEN [pc |-> "update", state |-> series[k]]
                  ELSE [pc |-> "len", key |-> k]
<1>2. rec' = [rec EXCEPT ![r] = new] /\ UNCHANGED <<series, states, evicted, scr, shown>>
  BY DEF Get
<1>3. new \in RecAt /\ (new.pc \in {"update", "touch"} => new.state \in DOMAIN states) /\ new.pc # "insert"
  BY <1>1 DEF RecAt, PromType, PromIndices
<1> HIDE DEF new
<1>4. /\ rec' \in [Recorders -> RecAt] /\ rec'[r] = new
      /\ \A q \in Recorders : q # r => rec'[q] = rec[q]
  BY <1>1, <1>2, <1>3 DEF PromType
<1>5. Live' = Live /\ Inserting' \subseteq Inserting
  BY <1>2, <1>3, <1>4 DEF Live, Inserting
<1>6. PromType' /\ PromIndices' /\ PromShown' /\ PromDown
  <2>1. \A q \in Recorders : rec'[q].pc \in {"update", "touch"} => rec'[q].state \in DOMAIN states'
    BY <1>1, <1>2, <1>3, <1>4 DEF PromIndices
  <2>2. \A i \in DOMAIN states : states'[i].key = states[i].key /\ states'[i].value >= states[i].value
    BY <1>1, <1>2, StateIs DEF PromType
  <2> QED
    BY <1>1, <1>2, <1>4, <2>1, <2>2, StatesGrow DEF PromType
<1> QED
  BY <1>1, <1>5, <1>6, CapShrinks DEF PromInv

LEMMA CheckCapKeeps ==
    ASSUME PromInv, NEW r \in Recorders, CheckCap(r)
    PROVE  PromInv' /\ PromDown
<1>1. PromType /\ PromIndices /\ IsFiniteSet(Live) /\ PromCap
  BY DEF PromInv
<1> DEFINE full == Cardinality(Live) >= MaxSeries
           new == IF full THEN Out ELSE [rec[r] EXCEPT !.pc = "insert"]
<1>2. /\ rec[r].pc = "len" /\ rec' = [rec EXCEPT ![r] = new]
      /\ UNCHANGED <<series, states, evicted, scr, shown>>
  BY <1>1 DEF CheckCap, PromType
<1> HIDE DEF full
<1>3. new \in RecAt /\ (new.pc \notin {"update", "touch"}) /\ (new.pc = "insert" => ~full)
  <2>1. rec[r] \in RecAt
    BY <1>1 DEF PromType
  <2>2. rec[r] \in [pc : {"len", "insert"}, key : SeriesKeys]
    BY <1>2, <2>1 DEF RecAt, Out
  <2> QED
    BY <2>2 DEF RecAt, Out
<1> HIDE DEF new
<1>4. /\ rec' \in [Recorders -> RecAt] /\ rec'[r] = new
      /\ \A q \in Recorders : q # r => rec'[q] = rec[q]
  BY <1>1, <1>2, <1>3 DEF PromType
<1>5. Live' = Live
  BY <1>2 DEF Live
<1>6. PromType' /\ PromIndices' /\ PromShown' /\ PromDown
  <2>1. \A q \in Recorders : rec'[q].pc \in {"update", "touch"} => rec'[q].state \in DOMAIN states'
    BY <1>1, <1>2, <1>3, <1>4 DEF PromIndices
  <2>2. \A i \in DOMAIN states : states'[i].key = states[i].key /\ states'[i].value >= states[i].value
    BY <1>1, <1>2, StateIs DEF PromType
  <2> QED
    BY <1>1, <1>2, <1>4, <2>1, <2>2, StatesGrow DEF PromType
<1>7. IsFiniteSet(Live') /\ PromCap'
  <2>1. CASE ~full
    <3>1. Inserting' \subseteq Recorders
      BY DEF Inserting
    <3>2. Cardinality(Inserting') <= Cardinality(Recorders) /\ IsFiniteSet(Inserting')
      BY <3>1, PromAssumption, FS_Subset
    <3>3. Cardinality(Live) \in Nat /\ Cardinality(Inserting') \in Nat /\ Cardinality(Recorders) \in Nat
          /\ MaxSeries \in Nat /\ Cardinality(Live) < MaxSeries
      BY <1>1, <2>1, <3>2, PromAssumption, FS_CardinalityType DEF full
    <3> QED
      BY <1>1, <1>5, <3>2, <3>3 DEF PromCap
  <2>2. CASE full
    <3>1. Inserting' \subseteq Inserting
      BY <1>3, <1>4, <2>2 DEF Inserting
    <3> QED
      BY <1>1, <1>5, <3>1, CapShrinks
  <2> QED
    BY <2>1, <2>2
<1> QED
  BY <1>6, <1>7 DEF PromInv

LEMMA InsertKeeps ==
    ASSUME PromInv, NEW r \in Recorders, Insert(r)
    PROVE  PromInv' /\ PromDown
<1>1. PromType /\ PromIndices /\ IsFiniteSet(Live) /\ PromCap
  BY DEF PromInv
<1> DEFINE k == rec[r].key
           s == [key |-> k, value |-> 0, idle |-> FALSE]
           n == Len(states')
           new == [pc |-> "update", state |-> n]
           to == IF series[k] = 0 THEN n ELSE series[k]
<1>2. rec[r].pc = "insert" /\ rec[r] \in RecAt
  BY <1>1 DEF Insert, PromType
<1>3. k \in SeriesKeys
  BY <1>2 DEF RecAt, Out
<1>4. s \in SeriesState
  BY <1>3 DEF SeriesState
<1>5. /\ states' = Append(states, s) /\ series' = [series EXCEPT ![k] = to]
      /\ rec' = [rec EXCEPT ![r] = new] /\ UNCHANGED <<evicted, scr, shown>>
  BY <1>1, <1>3 DEF Insert, PromType
<1>6. /\ states' \in Seq(SeriesState) /\ n = Len(states) + 1 /\ states'[n] = s
      /\ \A i \in 1..Len(states) : states'[i] = states[i]
  BY <1>1, <1>4, <1>5, AppendIs DEF PromType
<1>7. n \in Nat /\ n # 0 /\ DOMAIN states = 1..Len(states) /\ DOMAIN states' = 1..n /\ n \in DOMAIN states'
      /\ DOMAIN states \subseteq DOMAIN states' /\ s.key = k
  <2>1. Len(states) \in Nat /\ DOMAIN states = 1..Len(states) /\ DOMAIN states' = 1..n
    BY <1>1, <1>6 DEF PromType
  <2>2. n = Len(states) + 1
    BY <1>6
  <2> HIDE DEF n
  <2> QED
    BY <2>1, <2>2
<1> HIDE DEF n, s, k
<1>8. /\ series' \in [SeriesKeys -> Nat] /\ series'[k] = to
      /\ \A q \in SeriesKeys : q # k => series'[q] = series[q]
  BY <1>1, <1>3, <1>5, <1>7 DEF PromType
<1>9. /\ rec' \in [Recorders -> RecAt] /\ rec'[r] = new
      /\ \A q \in Recorders : q # r => rec'[q] = rec[q]
  BY <1>1, <1>5, <1>7 DEF PromType, RecAt
<1>10. PromType' /\ PromIndices' /\ PromShown' /\ PromDown
  <2>1. \A q \in Recorders : rec'[q].pc \in {"update", "touch"} => rec'[q].state \in DOMAIN states'
    BY <1>1, <1>7, <1>9 DEF PromIndices
  <2>2. \A i \in DOMAIN states : states'[i].key = states[i].key /\ states'[i].value >= states[i].value
    BY <1>1, <1>6, <1>7, StateIs DEF PromType
  <2>3. \A q \in SeriesKeys :
          \/ series'[q] = series[q]
          \/ series[q] = 0 /\ series'[q] \in DOMAIN states' /\ states'[series'[q]].key = q
    BY <1>3, <1>6, <1>7, <1>8
  <2> QED
    BY <1>5, <1>6, <1>7, <1>8, <1>9, <2>1, <2>2, <2>3, StatesGrow
<1>11. Live' = Live \cup {k}
  BY <1>1, <1>3, <1>7, <1>8 DEF Live, PromType
<1>12. Inserting' = Inserting \ {r} /\ r \in Inserting
  BY <1>2, <1>9 DEF Inserting
<1>13. IsFiniteSet(Live') /\ PromCap'
  <2>1. IsFiniteSet(Inserting)
    BY PromAssumption, FS_Subset DEF Inserting
  <2>2. IsFiniteSet(Live') /\ Cardinality(Live') <= Cardinality(Live) + 1 /\ Cardinality(Live) \in Nat
    <3>1. IsFiniteSet(Live \cup {k}) /\ Cardinality(Live \cup {k}) =
                                          IF k \in Live THEN Cardinality(Live) ELSE Cardinality(Live) + 1
      BY <1>1, FS_AddElement
    <3>2. Cardinality(Live) \in Nat
      BY <1>1, FS_CardinalityType
    <3> QED
      BY <1>11, <3>1, <3>2
  <2>3. Cardinality(Inserting') = Cardinality(Inserting) - 1 /\ Cardinality(Inserting) \in Nat
    BY <1>12, <2>1, FS_RemoveElement, FS_CardinalityType
  <2>4. Cardinality(Live') \in Nat /\ Cardinality(Recorders) \in Nat /\ MaxSeries \in Nat
    BY <2>2, FS_CardinalityType, PromAssumption
  <2>5. Cardinality(Live) + Cardinality(Inserting) <= MaxSeries + Cardinality(Recorders) - 1
    BY <1>1 DEF PromCap
  <2>6. Cardinality(Live') + Cardinality(Inserting') <= MaxSeries + Cardinality(Recorders) - 1
    BY ONLY <2>2, <2>3, <2>4, <2>5
  <2> QED
    BY <2>2, <2>6 DEF PromCap
<1> QED
  BY <1>10, <1>13 DEF PromInv

(* Update, Touch and GrowIdle write one state and leave the map alone. *)
LEMMA StateWritten ==
    ASSUME PromInv, NEW i \in DOMAIN states, NEW s \in SeriesState,
           s.key = states[i].key, s.value >= states[i].value,
           states' = [states EXCEPT ![i] = s],
           UNCHANGED <<series, evicted, scr, shown>>,
           rec' \in [Recorders -> RecAt], Inserting' \subseteq Inserting,
           \A r \in Recorders : rec'[r].pc \in {"update", "touch"} => rec'[r].state \in DOMAIN states
    PROVE  PromInv' /\ PromDown
<1>1. PromType /\ IsFiniteSet(Live) /\ PromCap
  BY DEF PromInv
<1>2. /\ states' \in Seq(SeriesState) /\ DOMAIN states' = DOMAIN states
      /\ states'[i] = s /\ \A j \in DOMAIN states : j # i => states'[j] = states[j]
  BY <1>1 DEF PromType
<1>3. \A j \in DOMAIN states : states'[j].key = states[j].key /\ states'[j].value >= states[j].value
  <2>1. \A j \in DOMAIN states : states[j].value >= states[j].value
    BY <1>1, StateIs DEF PromType
  <2> QED
    BY <1>2, <2>1
<1>4. PromType' /\ PromIndices' /\ PromShown' /\ PromDown
  BY <1>1, <1>2, <1>3, StatesGrow DEF PromType
<1>5. Live' = Live
  BY DEF Live
<1> QED
  BY <1>1, <1>4, <1>5, CapShrinks DEF PromInv

LEMMA UpdateKeeps ==
    ASSUME PromInv, NEW r \in Recorders, Update(r) \/ Touch(r)
    PROVE  PromInv' /\ PromDown
<1>1. PromType /\ PromIndices
  BY DEF PromInv
<1> DEFINE i == rec[r].state
<1>2. rec[r] \in RecAt /\ rec[r].pc \in {"update", "touch"}
  BY <1>1 DEF Update, Touch, PromType
<1>3. rec[r] \in [pc : {"update", "touch"}, state : Nat]
  BY <1>2 DEF RecAt, Out
<1>4. i \in DOMAIN states /\ states[i] \in SeriesState
  BY <1>1, <1>2, StateIs DEF PromIndices, PromType
<1>5. \E s \in SeriesState : /\ s.key = states[i].key /\ s.value >= states[i].value
                             /\ states' = [states EXCEPT ![i] = s]
  <2>1. CASE Update(r)
    <3> DEFINE s == [states[i] EXCEPT !.value = @ + 1]
    <3>1. s \in SeriesState /\ s.key = states[i].key /\ s.value >= states[i].value
      BY ONLY <1>4 DEF SeriesState
    <3>2. states' = [states EXCEPT ![i] = s]
      BY <1>1, <1>4, <2>1 DEF Update, PromType
    <3> QED
      BY <3>1, <3>2
  <2>2. CASE Touch(r)
    <3> DEFINE s == [states[i] EXCEPT !.idle = FALSE]
    <3>1. s \in SeriesState /\ s.key = states[i].key /\ s.value >= states[i].value
      BY <1>4, IdleSet
    <3>2. states' = [states EXCEPT ![i] = s]
      BY <1>1, <1>4, <2>2 DEF Touch, PromType
    <3> QED
      BY <3>1, <3>2
  <2> QED
    BY <2>1, <2>2
<1>6. PICK new \in RecAt : /\ rec' = [rec EXCEPT ![r] = new] /\ new.pc # "insert"
                           /\ new.pc \in {"update", "touch"} => new.state = i
  <2>1. CASE Update(r)
    <3> DEFINE new == [rec[r] EXCEPT !.pc = "touch"]
    <3>1. new \in RecAt /\ new.pc # "insert" /\ new.state = i
      BY <1>3 DEF RecAt
    <3>2. rec' = [rec EXCEPT ![r] = new]
      BY <1>1, <2>1 DEF Update, PromType
    <3> QED
      BY <3>1, <3>2
  <2>2. CASE Touch(r)
    <3>1. rec' = [rec EXCEPT ![r] = Out] /\ Out \in RecAt /\ Out.pc = "out"
      BY <2>2 DEF Touch, RecAt, Out
    <3> QED
      BY <3>1
  <2> QED
    BY <2>1, <2>2
<1>7. /\ rec' \in [Recorders -> RecAt] /\ rec'[r] = new
      /\ \A q \in Recorders : q # r => rec'[q] = rec[q]
  BY <1>1, <1>6 DEF PromType
<1>8. Inserting' \subseteq Inserting
  BY <1>6, <1>7 DEF Inserting
<1>9. \A q \in Recorders : rec'[q].pc \in {"update", "touch"} => rec'[q].state \in DOMAIN states
  BY <1>1, <1>4, <1>6, <1>7 DEF PromIndices
<1>10. UNCHANGED <<series, evicted, scr, shown>>
  BY DEF Update, Touch
<1> HIDE DEF i
<1> QED
  BY <1>4, <1>5, <1>7, <1>8, <1>9, <1>10, StateWritten

LEMMA GrowIdleKeeps ==
    ASSUME PromInv, NEW i \in DOMAIN states, GrowIdle(i)
    PROVE  PromInv' /\ PromDown
<1>1. PromType /\ PromIndices
  BY DEF PromInv
<1> DEFINE s == [states[i] EXCEPT !.idle = TRUE]
<1>2. states[i] \in SeriesState
  BY <1>1, StateIs DEF PromType
<1>3. s \in SeriesState /\ s.key = states[i].key /\ s.value >= states[i].value
  BY <1>2, IdleSet
<1>4. states' = [states EXCEPT ![i] = s] /\ UNCHANGED <<series, evicted, scr, shown, rec>>
  BY <1>1 DEF GrowIdle, PromType
<1>5. Inserting' = Inserting
  BY <1>4 DEF Inserting
<1> HIDE DEF s
<1> QED
  BY <1>1, <1>3, <1>4, <1>5, StateWritten DEF PromType, PromIndices

(* The scraper. *)
LEMMA ScrapeBegins ==
    ASSUME PromInv, ScanIdle \/ Collect
    PROVE  PromInv' /\ PromDown
<1>1. PromType /\ PromIndices /\ PromShown /\ IsFiniteSet(Live) /\ PromCap
  BY DEF PromInv
<1>2. UNCHANGED <<series, states, evicted, rec, shown>>
  BY DEF ScanIdle, Collect
<1>3. /\ scr' \in ScrAt
      /\ scr'.pc = "read" => scr'.todo = {series[k] : k \in Live}
  <2>1. CASE ScanIdle
    BY <2>1 DEF ScanIdle, ScrAt, Live
  <2>2. CASE Collect
    <3>1. {series[k] : k \in Live} \in SUBSET Nat
      BY <1>1 DEF Live, PromType
    <3> QED
      BY <2>2, <3>1 DEF Collect, ScrAt, Out
  <2> QED
    BY <2>1, <2>2
<1>4. PromType'
  BY <1>1, <1>2, <1>3 DEF PromType
<1>5. \A k \in Live : series[k] \in DOMAIN states /\ states[series[k]].key = k
  BY <1>1 DEF PromIndices, Live
<1>6. scr'.pc = "read" => scr'.todo \subseteq DOMAIN states /\ \A i \in scr'.todo : series[states[i].key] = i
  BY <1>3, <1>5
<1>7. PromIndices'
  BY <1>1, <1>2, <1>6 DEF PromIndices
<1>8. PromShown'
  BY <1>1, <1>2, <1>6 DEF PromShown
<1>9. Live' = Live /\ Inserting' = Inserting
  BY <1>2 DEF Live, Inserting
<1>10. PromDown
  BY <1>1, <1>2 DEF PromDown, PromType
<1> QED
  BY <1>1, <1>4, <1>7, <1>8, <1>9, <1>10, CapShrinks DEF PromInv

LEMMA RemoveStaleKeeps ==
    ASSUME PromInv, NEW k \in SeriesKeys, RemoveStale(k)
    PROVE  PromInv' /\ PromDown
<1>1. PromType /\ PromIndices /\ PromShown /\ IsFiniteSet(Live) /\ PromCap
  BY DEF PromInv
<1>2. /\ scr.pc = "evict" /\ scr' = [scr EXCEPT !.stale = @ \ {k}]
      /\ evicted' = evicted + (IF series[k] # 0 THEN 1 ELSE 0)
      /\ series' = [series EXCEPT ![k] = 0] /\ UNCHANGED <<states, rec, shown>>
  BY DEF RemoveStale
<1>3. scr' \in ScrAt /\ scr'.pc = "evict"
  <2>1. scr \in [pc : {"evict"}, stale : SUBSET SeriesKeys]
    BY <1>1, <1>2 DEF PromType, ScrAt, Out
  <2> QED
    BY <1>2, <2>1 DEF ScrAt
<1>4. /\ series' \in [SeriesKeys -> Nat] /\ series'[k] = 0
      /\ \A q \in SeriesKeys : q # k => series'[q] = series[q]
  BY <1>1, <1>2 DEF PromType
<1>5. evicted' \in Nat /\ (evicted' = 0 => evicted = 0 /\ series' = series)
  <2>1. evicted \in Nat
    BY <1>1 DEF PromType
  <2>2. series[k] = 0 => series' = series
    BY <1>1, <1>2 DEF PromType
  <2> QED
    BY <1>2, <2>1, <2>2
<1>6. PromType'
  BY <1>1, <1>2, <1>3, <1>4, <1>5 DEF PromType
<1>7. PromIndices'
  BY <1>1, <1>2, <1>3, <1>4 DEF PromIndices
<1>8. PromShown'
  BY <1>1, <1>2, <1>3, <1>5 DEF PromShown
<1>9. Live' \subseteq Live /\ Inserting' = Inserting
  BY <1>2, <1>4 DEF Live, Inserting
<1>10. PromDown
  BY <1>1, <1>2 DEF PromDown, PromType
<1> QED
  BY <1>1, <1>6, <1>7, <1>8, <1>9, <1>10, CapShrinks DEF PromInv

LEMMA RenderSeriesKeeps ==
    ASSUME PromInv, NEW i \in DOMAIN states, RenderSeries(i)
    PROVE  PromInv' /\ PromDown
<1>1. PromType /\ PromIndices /\ PromShown /\ IsFiniteSet(Live) /\ PromCap
  BY DEF PromInv
<1> DEFINE k == states[i].key
           sh == [state |-> i, value |-> states[i].value]
<1>2. /\ scr.pc = "read" /\ i \in scr.todo /\ shown' = [shown EXCEPT ![k] = sh]
      /\ scr' = (IF scr.todo = {i} THEN Out ELSE [scr EXCEPT !.todo = @ \ {i}])
      /\ UNCHANGED <<series, states, evicted, rec>>
  BY DEF RenderSeries
<1>3. i \in Nat /\ i # 0 /\ k \in SeriesKeys /\ states[i].value \in Nat
      /\ states[i].value <= states[i].value
  BY <1>1, StateIs DEF PromType
<1>4. scr' \in ScrAt /\ (scr'.pc = "read" => scr'.todo \subseteq scr.todo)
  <2>1. scr \in [pc : {"read"}, todo : SUBSET Nat]
    BY <1>1, <1>2 DEF PromType, ScrAt, Out
  <2> QED
    BY <1>2, <2>1 DEF ScrAt, Out
<1>5. /\ shown' \in [SeriesKeys -> [state : Nat, value : Nat]] /\ shown'[k] = sh
      /\ \A q \in SeriesKeys : q # k => shown'[q] = shown[q]
  BY <1>1, <1>2, <1>3 DEF PromType
<1>6. PromType'
  BY <1>1, <1>2, <1>4, <1>5 DEF PromType
<1>7. PromIndices'
  BY <1>1, <1>2, <1>4 DEF PromIndices
<1>8. evicted = 0 => series[k] = i
  BY <1>1, <1>2 DEF PromShown
<1>9. PromShown'
  <2>1. ASSUME NEW q \in SeriesKeys
        PROVE  /\ shown'[q].state = 0 => shown'[q].value = 0
               /\ shown'[q].state # 0 =>
                    /\ shown'[q].state \in DOMAIN states /\ states[shown'[q].state].key = q
                    /\ shown'[q].value <= states[shown'[q].state].value
                    /\ evicted = 0 => series[q] = shown'[q].state
    <3>1. CASE q = k
      BY <1>3, <1>5, <1>8, <3>1
    <3>2. CASE q # k
      BY <1>1, <1>5, <3>2 DEF PromShown
    <3> QED
      BY <3>1, <3>2
  <2>2. evicted = 0 /\ scr'.pc = "read" => \A j \in scr'.todo : series[states[j].key] = j
    BY <1>1, <1>2, <1>4 DEF PromShown
  <2> QED
    BY <1>2, <2>1, <2>2 DEF PromShown
<1>10. Live' = Live /\ Inserting' = Inserting
  BY <1>2 DEF Live, Inserting
<1>11. PromDown
  <2> SUFFICES ASSUME NEW q \in SeriesKeys, shown'[q].value < shown[q].value
               PROVE  shown'[q].state # shown[q].state /\ evicted > 0
    BY DEF PromDown
  <2>1. shown[q].value \in Nat /\ shown[q].state \in Nat /\ evicted \in Nat
    BY <1>1 DEF PromType
  <2>2. q = k
    <3>1. ~(shown[q].value < shown[q].value)
      BY <2>1
    <3> QED
      BY <1>5, <3>1
  <2>3. shown'[q].value = states[i].value /\ shown'[q].state = i
    BY <1>5, <2>2
  <2>4. shown[q].state # 0
    <3>1. shown[q].value # 0
      BY <1>3, <2>1, <2>3
    <3> QED
      BY <1>1, <3>1 DEF PromShown
  <2>5. shown[q].value <= states[shown[q].state].value /\ (evicted = 0 => series[q] = shown[q].state)
    BY <1>1, <2>4 DEF PromShown
  <2>6. shown[q].state # i
    <3> SUFFICES ASSUME shown[q].state = i PROVE FALSE
      OBVIOUS
    <3>1. shown[q].value <= states[i].value /\ states[i].value < shown[q].value
      BY <2>3, <2>5
    <3> QED
      BY ONLY <1>3, <2>1, <3>1
  <2>7. evicted # 0
    BY <1>8, <2>2, <2>5, <2>6
  <2> QED
    BY <2>1, <2>3, <2>6, <2>7
<1> QED
  BY <1>1, <1>6, <1>7, <1>9, <1>10, <1>11, CapShrinks DEF PromInv

LEMMA PromStep == PromInv /\ [PromNext]_promVars => PromInv' /\ PromDown
<1> SUFFICES ASSUME PromInv, [PromNext]_promVars PROVE PromInv' /\ PromDown
  OBVIOUS
<1>1. CASE PromNext
  BY <1>1, GetKeeps, CheckCapKeeps, InsertKeeps, UpdateKeeps, GrowIdleKeeps, ScrapeBegins,
     RemoveStaleKeeps, RenderSeriesKeeps DEF PromNext
<1>2. CASE UNCHANGED promVars
  <2>1. PromInv'
    BY <1>2 DEF promVars, PromInv, PromType, PromIndices, PromShown, PromCap, Live, Inserting
  <2>2. PromDown
    BY <1>2 DEF promVars, PromInv, PromType, PromDown
  <2> QED
    BY <2>1, <2>2
<1> QED
  BY <1>1, <1>2

-------------------------------------------------------------------------------
(* The live tail: its caps. *)

Subscriber == [filter : TailFilters, in : BOOLEAN, open : BOOLEAN, queue : Seq(Nat), got : Seq(Nat),
               delivered : Nat, missed : Nat, since : Int]
ClientAt == {Away} \cup [pc : {"caps", "insert"}, filter : TailFilters] \cup [pc : {"sweep"}, ids : SUBSET Nat]
TailAt == {Away} \cup [pc : {"walk"}, msg : Nat, todo : SUBSET Nat, gone : SUBSET Nat]

TailType ==
    /\ subs \in Seq(Subscriber) /\ sent \in Seq(Nat)
    /\ client \in [Clients -> ClientAt] /\ tail \in TailAt

PresentWith(f) == {i \in Present : subs[i].filter = f}
EnteringWith(f) == {c \in Entering : client[c].filter = f}

(* P: entries in the map, E: clients that passed the check, of a cap of n. *)
Within(P, E, n) == Cardinality(P) + Cardinality(E) <= n + Cardinality(Clients) - 1

TailInv ==
    /\ TailType
    /\ Within(Present, Entering, MaxTotal)
    /\ \A f \in TailFilters : Within(PresentWith(f), EnteringWith(f), MaxPerKey)

LEMMA WithinSteps ==
    ASSUME NEW P, IsFiniteSet(P), NEW E \in SUBSET Clients, NEW n \in Nat,
           NEW P1, NEW E1 \in SUBSET Clients
    PROVE  /\ Within({}, {}, n)
           /\ Within(P, E, n) /\ P1 \subseteq P /\ E1 \subseteq E => Within(P1, E1, n)
           /\ Cardinality(P) < n /\ P1 \subseteq P => Within(P1, E1, n)
           /\ \A c \in E : \A x : Within(P, E, n) /\ P1 \subseteq P \cup {x} /\ E1 \subseteq E \ {c} => Within(P1, E1, n)
<1> DEFINE k == Cardinality(Clients)
<1>1. k \in Nat /\ k # 0
  BY TailAssumption, FS_CardinalityType, FS_EmptySet
<1>2. /\ IsFiniteSet(E) /\ IsFiniteSet(E1) /\ Cardinality(E1) <= k
      /\ Cardinality(E) \in Nat /\ Cardinality(E1) \in Nat /\ Cardinality(P) \in Nat
  BY TailAssumption, FS_Subset, FS_CardinalityType
<1>3. Within({}, {}, n)
  BY <1>1, FS_EmptySet DEF Within
<1>4. ASSUME P1 \subseteq P PROVE Cardinality(P1) <= Cardinality(P) /\ Cardinality(P1) \in Nat
  BY <1>4, FS_Subset, FS_CardinalityType
<1>5. ASSUME Within(P, E, n), P1 \subseteq P, E1 \subseteq E PROVE Within(P1, E1, n)
  <2>1. Cardinality(E1) <= Cardinality(E)
    BY <1>2, <1>5, FS_Subset
  <2>2. Cardinality(P) + Cardinality(E) <= n + k - 1
    BY <1>5 DEF Within
  <2>3. Cardinality(P1) + Cardinality(E1) <= n + k - 1
    <3> HIDE DEF k
    <3> QED
      BY <1>1, <1>2, <1>4, <1>5, <2>1, <2>2
  <2> QED
    BY <2>3 DEF Within
<1>6. ASSUME Cardinality(P) < n, P1 \subseteq P PROVE Within(P1, E1, n)
  <2>1. Cardinality(P1) + Cardinality(E1) <= n + k - 1
    <3> HIDE DEF k
    <3> QED
      BY <1>1, <1>2, <1>4, <1>6
  <2> QED
    BY <2>1 DEF Within
<1>7. ASSUME NEW c \in E, NEW x, Within(P, E, n), P1 \subseteq P \cup {x}, E1 \subseteq E \ {c}
      PROVE  Within(P1, E1, n)
  <2>1. IsFiniteSet(E \ {c}) /\ Cardinality(E \ {c}) = Cardinality(E) - 1
    BY <1>2, FS_RemoveElement
  <2>2. Cardinality(E1) <= Cardinality(E) - 1
    BY <1>7, <2>1, FS_Subset
  <2>3. IsFiniteSet(P \cup {x}) /\ Cardinality(P \cup {x}) <= Cardinality(P) + 1
    <3>1. IsFiniteSet(P \cup {x})
          /\ Cardinality(P \cup {x}) = IF x \in P THEN Cardinality(P) ELSE Cardinality(P) + 1
      BY FS_AddElement
    <3> QED
      BY <1>2, <3>1
  <2>4. Cardinality(P1) <= Cardinality(P \cup {x}) /\ Cardinality(P1) \in Nat /\ Cardinality(P \cup {x}) \in Nat
    BY <1>7, <2>3, FS_Subset, FS_CardinalityType
  <2>5. Cardinality(P) + Cardinality(E) <= n + k - 1
    BY <1>7 DEF Within
  <2>6. Cardinality(P1) + Cardinality(E1) <= n + k - 1
    <3> HIDE DEF k
    <3> QED
      BY ONLY <1>1, <1>2, <2>2, <2>3, <2>4, <2>5, n \in Nat
  <2> QED
    BY <2>6 DEF Within
<1> QED
  BY <1>3, <1>5, <1>6, <1>7

LEMMA CapsFinite ==
    /\ subs \in Seq(Subscriber) => /\ IsFiniteSet(Present)
                                   /\ \A f : IsFiniteSet(PresentWith(f))
    /\ Entering \in SUBSET Clients /\ \A f : EnteringWith(f) \in SUBSET Clients
    /\ Entering' \in SUBSET Clients /\ \A f : EnteringWith(f)' \in SUBSET Clients
<1>1. ASSUME subs \in Seq(Subscriber) PROVE IsFiniteSet(Present)
  <2>1. Len(subs) \in Nat /\ Present \subseteq 1..Len(subs)
    BY <1>1 DEF Present
  <2>2. IsFiniteSet(1..Len(subs))
    BY <2>1, FS_Interval
  <2> QED
    BY <2>1, <2>2, FS_Subset
<1>2. \A f : PresentWith(f) \subseteq Present
  BY DEF PresentWith
<1>3. Entering \in SUBSET Clients /\ \A f : EnteringWith(f) \in SUBSET Clients
  BY DEF Entering, EnteringWith
<1>4. Entering' \in SUBSET Clients /\ \A f : EnteringWith(f)' \in SUBSET Clients
  BY DEF Entering, EnteringWith
<1> QED
  BY <1>1, <1>2, <1>3, <1>4, FS_Subset

LEMMA TailStart == TailInit => TailInv
<1> SUFFICES ASSUME TailInit PROVE TailInv
  OBVIOUS
<1> USE DEF TailInit
<1>1. TailType
  BY DEF TailType, ClientAt, TailAt
<1>2. Present = {} /\ Entering = {}
  BY DEF Present, Entering, Away
<1>3. \A f : PresentWith(f) = {} /\ EnteringWith(f) = {}
  BY <1>2 DEF PresentWith, EnteringWith
<1>4. \A n \in Nat : Within({}, {}, n)
  BY WithinSteps, FS_EmptySet
<1> QED
  BY <1>1, <1>2, <1>3, <1>4, TailAssumption DEF TailInv

(* Most steps take entries out of the map, or leave it as it is. *)
LEMMA CapsShrink ==
    ASSUME TailInv, TailType', Present' \subseteq Present, Entering' \subseteq Entering,
           \A i \in Present' : subs'[i].filter = subs[i].filter,
           \A c \in Entering' : client'[c] = client[c]
    PROVE  TailInv'
<1>1. TailType
  BY DEF TailInv
<1>2. Within(Present, Entering, MaxTotal)'
  BY <1>1, WithinSteps, CapsFinite, TailAssumption DEF TailInv, TailType
<1>3. ASSUME NEW f \in TailFilters PROVE Within(PresentWith(f), EnteringWith(f), MaxPerKey)'
  <2>1. PresentWith(f)' \subseteq PresentWith(f) /\ EnteringWith(f)' \subseteq EnteringWith(f)
    BY DEF PresentWith, EnteringWith
  <2> QED
    BY <1>1, <2>1, WithinSteps, CapsFinite, TailAssumption DEF TailInv, TailType
<1> QED
  BY <1>2, <1>3 DEF TailInv

LEMMA SubscriberIs ==
    ASSUME NEW s, s \in Seq(Subscriber), NEW i, i \in DOMAIN s
    PROVE  i \in Nat /\ s[i] \in Subscriber /\ s[i].filter \in TailFilters
<1>1. i \in Nat /\ s[i] \in Subscriber
  OBVIOUS
<1> QED
  BY ONLY <1>1 DEF Subscriber

(* One entry is written: its filter stays, and it does not come back. *)
LEMMA SubWritten ==
    ASSUME TailInv, NEW i \in DOMAIN subs, NEW s \in Subscriber,
           s.filter = subs[i].filter, s.in => subs[i].in, subs' = [subs EXCEPT ![i] = s],
           sent' = sent, tail' \in TailAt, client' \in [Clients -> ClientAt],
           Entering' \subseteq Entering, \A c \in Entering' : client'[c] = client[c]
    PROVE  TailInv'
<1>1. TailType
  BY DEF TailInv
<1>2. /\ subs' \in Seq(Subscriber) /\ DOMAIN subs' = DOMAIN subs
      /\ subs'[i] = s /\ \A j \in DOMAIN subs : j # i => subs'[j] = subs[j]
  BY <1>1 DEF TailType
<1>3. TailType'
  BY <1>1, <1>2 DEF TailType
<1>4. Present' \subseteq Present /\ \A j \in Present' : subs'[j].filter = subs[j].filter
  BY <1>2 DEF Present
<1> QED
  BY <1>3, <1>4, CapsShrink

(* unsubscribe(), kick(), the sweeps and the removal of closed channels. *)
LEMMA WithoutKeeps ==
    ASSUME TailInv, NEW i \in DOMAIN subs, subs' = Without(i), sent' = sent,
           tail' \in TailAt, client' \in [Clients -> ClientAt],
           Entering' \subseteq Entering, \A c \in Entering' : client'[c] = client[c]
    PROVE  TailInv'
<1> DEFINE s == [subs[i] EXCEPT !.in = FALSE]
<1>1. TailType
  BY DEF TailInv
<1>2. subs[i] \in Subscriber
  BY <1>1, SubscriberIs DEF TailType
<1>3. s \in Subscriber /\ s.filter = subs[i].filter /\ ~s.in
  BY ONLY <1>2 DEF Subscriber
<1>4. subs' = [subs EXCEPT ![i] = s]
  BY <1>1 DEF Without, TailType
<1> HIDE DEF s
<1> QED
  BY <1>3, <1>4, SubWritten

(* A client moves on to a place other than the insertion. *)
LEMMA ClientMoves ==
    ASSUME TailInv, NEW c \in Clients, NEW new \in ClientAt, new.pc # "insert",
           client' = [client EXCEPT ![c] = new]
    PROVE  /\ client' \in [Clients -> ClientAt] /\ Entering' \subseteq Entering
           /\ \A d \in Entering' : client'[d] = client[d]
<1>1. client \in [Clients -> ClientAt]
  BY DEF TailInv, TailType
<1>2. client' \in [Clients -> ClientAt] /\ client'[c] = new /\ \A d \in Clients : d # c => client'[d] = client[d]
  BY <1>1
<1> QED
  BY <1>2 DEF Entering

LEMMA SweepClosedKeeps ==
    ASSUME TailInv, NEW c \in Clients, NEW f \in TailFilters, SweepClosed(c, f)
    PROVE  TailInv'
<1> DEFINE new == [pc |-> "caps", filter |-> f]
           Swp(i) == IF subs[i].in /\ ~subs[i].open THEN [subs[i] EXCEPT !.in = FALSE] ELSE subs[i]
<1>1. TailType
  BY DEF TailInv
<1>2. /\ subs' = [i \in DOMAIN subs |-> Swp(i)] /\ client' = [client EXCEPT ![c] = new]
      /\ UNCHANGED <<tail, sent>>
  BY DEF SweepClosed
<1>3. new \in ClientAt /\ new.pc # "insert"
  BY DEF ClientAt
<1>4. ASSUME NEW i \in DOMAIN subs
      PROVE  Swp(i) \in Subscriber /\ Swp(i).filter = subs[i].filter /\ (Swp(i).in => subs[i].in)
  <2>1. subs[i] \in Subscriber
    BY <1>1, SubscriberIs DEF TailType
  <2> QED
    BY ONLY <2>1 DEF Subscriber
<1> HIDE DEF Swp, new
<1>5. DOMAIN subs = 1..Len(subs) /\ Len(subs) \in Nat
  BY <1>1 DEF TailType
<1>6. /\ subs' \in Seq(Subscriber) /\ DOMAIN subs' = DOMAIN subs
      /\ \A i \in DOMAIN subs : subs'[i].filter = subs[i].filter /\ (subs'[i].in => subs[i].in)
  BY <1>2, <1>4, <1>5
<1>7. /\ client' \in [Clients -> ClientAt] /\ Entering' \subseteq Entering
      /\ \A d \in Entering' : client'[d] = client[d]
  BY <1>2, <1>3, ClientMoves
<1>8. TailType'
  BY <1>1, <1>2, <1>6, <1>7 DEF TailType
<1>9. Present' \subseteq Present /\ \A j \in Present' : subs'[j].filter = subs[j].filter
  BY <1>6 DEF Present
<1> QED
  BY <1>7, <1>8, <1>9, CapsShrink

LEMMA EnforceCapsKeeps ==
    ASSUME TailInv, NEW c \in Clients, EnforceCaps(c)
    PROVE  TailInv'
<1> DEFINE g == client[c].filter
           room == /\ Cardinality(Present) < MaxTotal
                   /\ Cardinality({i \in Present : subs[i].filter = g}) < MaxPerKey
           new == IF room THEN [client[c] EXCEPT !.pc = "insert"] ELSE Away
<1>1. TailType
  BY DEF TailInv
<1>2. client[c].pc = "caps" /\ client' = [client EXCEPT ![c] = new] /\ UNCHANGED <<subs, tail, sent>>
  BY DEF EnforceCaps
<1>3. client[c] \in [pc : {"caps", "insert"}, filter : TailFilters]
  BY <1>1, <1>2 DEF TailType, ClientAt, Away
<1> HIDE DEF room
<1>4. new \in ClientAt /\ (new.pc = "insert" => room /\ new.filter = g)
  BY <1>3 DEF ClientAt, Away
<1> HIDE DEF new
<1>5. client' \in [Clients -> ClientAt] /\ client'[c] = new /\ \A d \in Clients : d # c => client'[d] = client[d]
  BY <1>1, <1>2, <1>4 DEF TailType
<1>6. TailType'
  BY <1>1, <1>2, <1>5 DEF TailType
<1>7. Present' = Present /\ \A f : PresentWith(f)' = PresentWith(f)
  BY <1>2 DEF Present, PresentWith
<1>8. CASE new.pc # "insert"
  <2>1. Entering' \subseteq Entering /\ \A d \in Entering' : client'[d] = client[d]
    BY <1>5, <1>8 DEF Entering
  <2> QED
    BY <1>2, <1>6, <1>7, <2>1, CapsShrink
<1>9. CASE new.pc = "insert"
  <2>1. Cardinality(Present) < MaxTotal /\ Cardinality(PresentWith(g)) < MaxPerKey
    BY <1>4, <1>9 DEF room, PresentWith
  <2>2. Within(Present, Entering, MaxTotal)'
    BY <1>1, <1>7, <2>1, WithinSteps, CapsFinite, TailAssumption DEF TailType
  <2>3. ASSUME NEW f \in TailFilters PROVE Within(PresentWith(f), EnteringWith(f), MaxPerKey)'
    <3>1. CASE f = g
      <4>1. IsFiniteSet(PresentWith(f)) /\ Cardinality(PresentWith(f)) < MaxPerKey
            /\ EnteringWith(f)' \in SUBSET Clients /\ EnteringWith(f) \in SUBSET Clients
        BY <1>1, <2>1, <3>1, CapsFinite DEF TailType
      <4>2. Within(PresentWith(f), EnteringWith(f)', MaxPerKey)
        BY <4>1, WithinSteps, TailAssumption
      <4> QED
        BY <1>7, <4>2
    <3>2. CASE f # g
      <4>1. EnteringWith(f)' \subseteq EnteringWith(f)
        BY <1>4, <1>5, <1>9, <3>2 DEF EnteringWith, Entering
      <4> QED
        BY <1>1, <1>7, <4>1, WithinSteps, CapsFinite, TailAssumption DEF TailType, TailInv
    <3> QED
      BY <3>1, <3>2
  <2> QED
    BY <1>6, <2>2, <2>3 DEF TailInv
<1> QED
  BY <1>8, <1>9

LEMMA SubscribeKeeps ==
    ASSUME TailInv, NEW c \in Clients, NEW late \in BOOLEAN, Subscribe(c, late)
    PROVE  TailInv'
<1> DEFINE g == client[c].filter
           s == [New(g) EXCEPT !.since = @ - IF late THEN 1 ELSE 0]
           n == Len(subs')
<1>1. TailType
  BY DEF TailInv
<1>2. /\ client[c].pc = "insert" /\ (late => tail.pc = "walk") /\ subs' = Append(subs, s)
      /\ tail' = (IF late THEN [tail EXCEPT !.todo = @ \cup {n}] ELSE tail)
      /\ client' = [client EXCEPT ![c] = Away] /\ sent' = sent
  BY DEF Subscribe
<1>3. g \in TailFilters
  BY <1>1, <1>2 DEF TailType, ClientAt, Away
<1>4. s \in Subscriber /\ s.filter = g
  <2>1. Len(sent) \in Nat
    BY <1>1 DEF TailType
  <2> DEFINE b == New(g)
             d == b.since - IF late THEN 1 ELSE 0
  <2>2. b \in Subscriber /\ b.filter = g /\ b.since = Len(sent)
    BY <1>3, <2>1 DEF New, Subscriber
  <2> HIDE DEF b
  <2>3. d \in Int
    BY <2>1, <2>2
  <2>4. s = [b EXCEPT !.since = d]
    BY DEF b
  <2> HIDE DEF s, d
  <2> QED
    BY <2>2, <2>3, <2>4 DEF Subscriber
<1> HIDE DEF s
<1>5. /\ subs' \in Seq(Subscriber) /\ n = Len(subs) + 1 /\ subs'[n] = s
      /\ \A i \in 1..Len(subs) : subs'[i] = subs[i]
  BY <1>1, <1>2, <1>4, AppendIs DEF TailType
<1>6. /\ n \in Nat /\ DOMAIN subs = 1..Len(subs) /\ DOMAIN subs' = 1..n
      /\ \A i \in DOMAIN subs' : i # n => i \in DOMAIN subs
  <2>1. Len(subs) \in Nat /\ DOMAIN subs = 1..Len(subs) /\ DOMAIN subs' = 1..n
    BY <1>1, <1>5 DEF TailType
  <2>2. n = Len(subs) + 1
    BY <1>5
  <2> HIDE DEF n
  <2> QED
    BY <2>1, <2>2
<1> HIDE DEF n
<1>7. tail' \in TailAt
  <2>1. CASE late
    <3>1. tail \in [pc : {"walk"}, msg : Nat, todo : SUBSET Nat, gone : SUBSET Nat]
      BY <1>1, <1>2, <2>1 DEF TailType, TailAt, Away
    <3>2. [tail EXCEPT !.todo = @ \cup {n}] \in [pc : {"walk"}, msg : Nat, todo : SUBSET Nat, gone : SUBSET Nat]
      BY <1>6, <3>1
    <3> QED
      BY <1>2, <2>1, <3>2 DEF TailAt
  <2>2. CASE ~late
    BY <1>1, <1>2, <2>2 DEF TailType
  <2> QED
    BY <2>1, <2>2
<1>8. /\ client' \in [Clients -> ClientAt] /\ client'[c].pc # "insert"
      /\ \A d \in Clients : d # c => client'[d] = client[d]
  BY <1>1, <1>2 DEF TailType, ClientAt, Away
<1>9. TailType'
  BY <1>1, <1>2, <1>5, <1>7, <1>8 DEF TailType
<1>10. Present' \subseteq Present \cup {n} /\ Entering' \subseteq Entering \ {c} /\ c \in Entering
  BY <1>2, <1>5, <1>6, <1>8 DEF Present, Entering
<1>11. Within(Present, Entering, MaxTotal)'
  <2>1. IsFiniteSet(Present) /\ Entering \in SUBSET Clients /\ Entering' \in SUBSET Clients
    BY <1>1, CapsFinite DEF TailType
  <2>2. Within(Present, Entering, MaxTotal)
    BY DEF TailInv
  <2> QED
    BY <1>10, <2>1, <2>2, WithinSteps, TailAssumption
<1>12. ASSUME NEW f \in TailFilters PROVE Within(PresentWith(f), EnteringWith(f), MaxPerKey)'
  <2>1. IsFiniteSet(PresentWith(f)) /\ EnteringWith(f) \in SUBSET Clients /\ EnteringWith(f)' \in SUBSET Clients
    BY <1>1, CapsFinite DEF TailType
  <2>2. Within(PresentWith(f), EnteringWith(f), MaxPerKey)
    BY DEF TailInv
  <2>3. CASE f = g
    <3>1. /\ PresentWith(f)' \subseteq PresentWith(f) \cup {n} /\ c \in EnteringWith(f)
          /\ EnteringWith(f)' \subseteq EnteringWith(f) \ {c}
      BY <1>2, <1>5, <1>6, <1>8, <2>3 DEF PresentWith, EnteringWith, Present, Entering
    <3> QED
      BY <2>1, <2>2, <3>1, WithinSteps, TailAssumption
  <2>4. CASE f # g
    <3>1. PresentWith(f)' \subseteq PresentWith(f) /\ EnteringWith(f)' \subseteq EnteringWith(f)
      BY <1>2, <1>4, <1>5, <1>6, <1>8, <2>4 DEF PresentWith, EnteringWith, Present, Entering
    <3> QED
      BY <2>1, <2>2, <3>1, WithinSteps, TailAssumption
  <2> QED
    BY <2>3, <2>4
<1> QED
  BY <1>9, <1>11, <1>12 DEF TailInv

LEMMA SweepKeeps ==
    ASSUME TailInv, NEW c \in Clients,
           \/ \E ids \in SUBSET Present : SweepIdle(c, ids)
           \/ \E i \in DOMAIN subs : SweepNext(c, i)
           \/ Swept(c)
    PROVE  TailInv'
<1>1. TailType
  BY DEF TailInv
<1>2. CASE \E ids \in SUBSET Present : SweepIdle(c, ids)
  <2>1. PICK ids \in SUBSET Present : SweepIdle(c, ids)
    BY <1>2
  <2>2. ids \in SUBSET Nat
    BY <1>1, SubscriberIs DEF Present, TailType
  <2> DEFINE new == [pc |-> "sweep", ids |-> ids]
  <2>3. new \in ClientAt /\ new.pc # "insert" /\ client' = [client EXCEPT ![c] = new]
        /\ UNCHANGED <<subs, tail, sent>>
    BY <2>1, <2>2 DEF ClientAt, SweepIdle
  <2> HIDE DEF new
  <2>4. /\ client' \in [Clients -> ClientAt] /\ Entering' \subseteq Entering
        /\ \A d \in Entering' : client'[d] = client[d]
    BY <2>3, ClientMoves
  <2>5. TailType' /\ Present' = Present
    BY <1>1, <2>3, <2>4 DEF TailType, Present
  <2> QED
    BY <2>3, <2>4, <2>5, CapsShrink
<1>3. CASE \E i \in DOMAIN subs : SweepNext(c, i)
  <2>1. PICK i \in DOMAIN subs : SweepNext(c, i)
    BY <1>3
  <2>2. client[c] \in [pc : {"sweep"}, ids : SUBSET Nat]
    BY <1>1, <2>1 DEF TailType, ClientAt, Away, SweepNext
  <2> DEFINE new == [client[c] EXCEPT !.ids = @ \ {i}]
  <2>3. client' = [client EXCEPT ![c] = new]
    BY <1>1, <2>1 DEF SweepNext, TailType
  <2>4. new \in [pc : {"sweep"}, ids : SUBSET Nat]
    BY <2>2
  <2>5. new \in ClientAt /\ new.pc # "insert"
    BY <2>4 DEF ClientAt
  <2> HIDE DEF new
  <2>6. subs' = Without(i) /\ UNCHANGED <<tail, sent>> /\ tail \in TailAt
    BY <1>1, <2>1 DEF SweepNext, TailType
  <2>7. /\ client' \in [Clients -> ClientAt] /\ Entering' \subseteq Entering
        /\ \A d \in Entering' : client'[d] = client[d]
    BY <2>3, <2>5, ClientMoves
  <2> QED
    BY <2>6, <2>7, WithoutKeeps
<1>4. CASE Swept(c)
  <2>1. Away \in ClientAt /\ Away.pc # "insert" /\ client' = [client EXCEPT ![c] = Away]
        /\ UNCHANGED <<subs, tail, sent>>
    BY <1>4 DEF Swept, ClientAt, Away
  <2>2. /\ client' \in [Clients -> ClientAt] /\ Entering' \subseteq Entering
        /\ \A d \in Entering' : client'[d] = client[d]
    BY <2>1, ClientMoves
  <2>3. TailType' /\ Present' = Present
    BY <1>1, <2>1, <2>2 DEF TailType, Present
  <2> QED
    BY <2>1, <2>2, <2>3, CapsShrink
<1> QED
  BY <1>2, <1>3, <1>4

LEMMA TailStep == TailInv /\ [TailNext]_tailVars => TailInv'
<1> SUFFICES ASSUME TailInv, [TailNext]_tailVars PROVE TailInv'
  OBVIOUS
<1>0. TailType
  BY DEF TailInv
<1> DEFINE Walk == [pc : {"walk"}, msg : Nat, todo : SUBSET Nat, gone : SUBSET Nat]
<1>w. tail.pc = "walk" => tail \in Walk
  BY <1>0 DEF TailType, TailAt, Away
<1>u. UNCHANGED client => /\ Entering' = Entering /\ client' \in [Clients -> ClientAt]
                          /\ \A d \in Entering' : client'[d] = client[d]
  BY <1>0 DEF Entering, TailType
<1>m. Walk \subseteq TailAt
  BY DEF TailAt
<1>1. ASSUME NEW c \in Clients, NEW f \in TailFilters, SweepClosed(c, f) PROVE TailInv'
  BY <1>1, SweepClosedKeeps
<1>2. ASSUME NEW c \in Clients,
             \/ EnforceCaps(c) \/ Swept(c) \/ \E ids \in SUBSET Present : SweepIdle(c, ids)
             \/ \E i \in DOMAIN subs : SweepNext(c, i)
      PROVE  TailInv'
  BY <1>2, EnforceCapsKeeps, SweepKeeps
<1>3. ASSUME NEW c \in Clients, NEW late \in BOOLEAN, Subscribe(c, late) PROVE TailInv'
  BY <1>3, SubscribeKeeps
<1>4. CASE StartDelivery
  <2>1. sent' = Append(sent, Len(sent) + 1) /\ UNCHANGED <<subs, client>>
        /\ tail' = [pc |-> "walk", msg |-> Len(sent'), todo |-> Present, gone |-> {}]
    BY <1>4 DEF StartDelivery
  <2>2. sent' \in Seq(Nat) /\ Len(sent') \in Nat
    BY <1>0, <2>1 DEF TailType
  <2>3. Present \in SUBSET Nat
    BY <1>0, SubscriberIs DEF Present, TailType
  <2>4. TailType' /\ Present' = Present
    BY <1>0, <2>1, <2>2, <2>3 DEF TailType, TailAt, Present
  <2> QED
    BY <1>u, <2>1, <2>4, CapsShrink
<1>5. CASE EndDelivery
  <2>1. UNCHANGED <<subs, client, sent>> /\ tail' = Away
    BY <1>5 DEF EndDelivery
  <2>2. TailType' /\ Present' = Present
    BY <1>0, <2>1 DEF TailType, TailAt, Present
  <2> QED
    BY <1>u, <2>1, <2>2, CapsShrink
<1>6. ASSUME NEW i \in DOMAIN subs, Unsubscribe(i) PROVE TailInv'
  BY <1>0, <1>u, <1>6, WithoutKeeps DEF Unsubscribe, TailType
<1>7. ASSUME NEW i \in DOMAIN subs, DropClosed(i) PROVE TailInv'
  <2>1. tail.pc = "walk" /\ subs' = Without(i) /\ tail' = [tail EXCEPT !.gone = @ \ {i}]
        /\ UNCHANGED <<client, sent>>
    BY <1>7 DEF DropClosed
  <2>2. tail' \in TailAt
    BY <1>w, <1>m, <2>1
  <2> QED
    BY <1>u, <2>1, <2>2, WithoutKeeps
<1>8. ASSUME NEW i \in DOMAIN subs, Visit(i) PROVE TailInv'
  <2> DEFINE m == tail.msg
  <2>1. tail \in Walk /\ m \in Nat /\ UNCHANGED <<client, sent>>
    BY <1>w, <1>8 DEF Visit
  <2>2. tail' \in Walk
    <3>1. i \in Nat
      BY <1>0, SubscriberIs DEF TailType
    <3> DEFINE t == tail.todo \ {i}
               g == tail.gone \cup {i}
    <3>2. tail' = [tail EXCEPT !.todo = t] \/ tail' = [tail EXCEPT !.todo = t, !.gone = g]
      BY <1>8 DEF Visit
    <3>3. t \in SUBSET Nat /\ g \in SUBSET Nat
      BY ONLY <2>1, <3>1
    <3> HIDE DEF t, g
    <3>4. CASE tail' = [tail EXCEPT !.todo = t]
      BY ONLY <2>1, <3>3, <3>4
    <3>5. CASE tail' = [tail EXCEPT !.todo = t, !.gone = g]
      BY ONLY <2>1, <3>3, <3>5
    <3> QED
      BY <3>2, <3>4, <3>5
  <2>3. CASE subs' = subs
    <3>1. TailType' /\ Present' = Present
      BY <1>0, <1>m, <2>1, <2>2, <2>3 DEF TailType, Present
    <3> QED
      BY <1>u, <2>1, <2>3, <3>1, CapsShrink
  <2>4. CASE subs' = [subs EXCEPT ![i] = TrySend(subs[i], m)]
    <3> DEFINE s == TrySend(subs[i], m)
    <3>1. subs[i] \in Subscriber
      BY <1>0, SubscriberIs DEF TailType
    <3>2. s \in Subscriber /\ s.filter = subs[i].filter /\ s.in = subs[i].in
      <4>1. Append(subs[i].queue, m) \in Seq(Nat) /\ subs[i].delivered + 1 \in Nat /\ subs[i].missed + 1 \in Nat
        BY <2>1, <3>1 DEF Subscriber
      <4> QED
        BY <3>1, <4>1 DEF Subscriber, TrySend
    <3> HIDE DEF s
    <3>3. subs' = [subs EXCEPT ![i] = s]
      BY <2>4 DEF s
    <3> QED
      BY <1>u, <1>m, <2>1, <2>2, <3>2, <3>3, SubWritten
  <2> QED
    BY <1>8, <2>3, <2>4 DEF Visit
<1>9. ASSUME NEW i \in DOMAIN subs, Recv(i) PROVE TailInv'
  <2> DEFINE s == [subs[i] EXCEPT !.got = Append(@, Head(subs[i].queue)), !.queue = Tail(@)]
  <2>1. subs[i] \in Subscriber /\ subs[i].queue # <<>>
    BY <1>0, <1>9, SubscriberIs DEF TailType, Recv
  <2>2. subs[i].queue \in Seq(Nat) /\ subs[i].got \in Seq(Nat)
    BY <2>1 DEF Subscriber
  <2>3. Append(subs[i].got, Head(subs[i].queue)) \in Seq(Nat) /\ Tail(subs[i].queue) \in Seq(Nat)
    BY <2>1, <2>2
  <2>4. s \in Subscriber /\ s.filter = subs[i].filter /\ s.in = subs[i].in
    BY <2>1, <2>3 DEF Subscriber
  <2>5. subs' = [subs EXCEPT ![i] = s] /\ UNCHANGED <<client, tail, sent>>
    BY <1>0, <1>9 DEF Recv, TailType
  <2> HIDE DEF s
  <2> QED
    BY <1>0, <1>u, <2>4, <2>5, SubWritten DEF TailType
<1>10. ASSUME NEW i \in DOMAIN subs, DropReceiver(i) PROVE TailInv'
  <2> DEFINE s == [subs[i] EXCEPT !.open = FALSE]
  <2>1. subs[i] \in Subscriber
    BY <1>0, SubscriberIs DEF TailType
  <2>2. s \in Subscriber /\ s.filter = subs[i].filter /\ s.in = subs[i].in
    BY ONLY <2>1 DEF Subscriber
  <2>3. subs' = [subs EXCEPT ![i] = s] /\ UNCHANGED <<client, tail, sent>>
    BY <1>0, <1>10 DEF DropReceiver, TailType
  <2> HIDE DEF s
  <2> QED
    BY <1>0, <1>u, <2>2, <2>3, SubWritten DEF TailType
<1>11. CASE UNCHANGED tailVars
  <2>1. UNCHANGED <<subs, client, tail, sent>>
    BY <1>11 DEF tailVars
  <2>2. TailType' /\ Present' = Present
    BY <1>0, <2>1 DEF TailType, Present
  <2> QED
    BY <1>u, <2>1, <2>2, CapsShrink
<1> QED
  BY <1>1, <1>2, <1>3, <1>4, <1>5, <1>6, <1>7, <1>8, <1>9, <1>10, <1>11 DEF TailNext

LEMMA CapsFollow == PromInv /\ TailInv => CapsHold
<1> SUFFICES ASSUME PromInv, TailInv PROVE CapsHold
  OBVIOUS
<1>1. TailCaps
  BY DEF TailInv, TailCaps, Within, PresentWith, EnteringWith
<1> QED
  BY <1>1 DEF PromInv, CapsHold

-------------------------------------------------------------------------------
(* The live tail: what subscribers read. *)

(* s: a subscriber, n: the messages so far, w: where the delivering worker is. *)
Met(s, n) == {m \in (s.since + 1)..n : m \in s.filter}
Pending(i, w) == w.pc = "walk" /\ i \in w.todo
Owed(i, s, w) == IF Pending(i, w) /\ w.msg \in s.filter THEN 1 ELSE 0

Rising(s) == \A j, k \in DOMAIN s : j < k => s[j] < s[k]

InLine(i, s, w, n) ==
    /\ s.since \in 0..n /\ s.delivered = Len(Seen(s))
    /\ \A j \in DOMAIN Seen(s) : Seen(s)[j] \in Met(s, n)
    /\ Rising(Seen(s))
    /\ Pending(i, w) => s.since < n /\ \A j \in DOMAIN Seen(s) : Seen(s)[j] < n
    /\ s.in /\ s.open => s.delivered + s.missed + Owed(i, s, w) = Cardinality(Met(s, n))

TailLine ==
    /\ \A k \in DOMAIN sent : sent[k] = k
    /\ tail.pc = "walk" => tail.msg = Len(sent) /\ Len(sent) >= 1 /\ tail.todo \subseteq DOMAIN subs
    /\ \A i \in DOMAIN subs : InLine(i, subs[i], tail, Len(sent))

LEMMA TailLineStart == TailInit => TailLine
BY DEF TailInit, TailLine, Away

(* A new message is one more to meet, or none. *)
LEMMA MetGrows ==
    ASSUME NEW s, NEW n \in Nat, s.since \in 0..n
    PROVE  /\ IsFiniteSet(Met(s, n)) /\ Cardinality(Met(s, n)) \in Nat
           /\ Met(s, n) \subseteq 1..n
           /\ Met(s, n) \subseteq Met(s, n + 1)
           /\ Cardinality(Met(s, n + 1)) = Cardinality(Met(s, n)) + IF n + 1 \in s.filter THEN 1 ELSE 0
<1> DEFINE a == s.since
           M == Met(s, n)
           N == Met(s, n + 1)
<1>1. a \in Nat /\ a <= n /\ n + 1 \in Nat
  OBVIOUS
<1>2. \A m : m \in M <=> m \in (a + 1)..n /\ m \in s.filter
  BY DEF Met
<1>3. \A m : m \in N <=> m \in (a + 1)..(n + 1) /\ m \in s.filter
  BY DEF Met
<1> HIDE DEF a, M, N
<1>4. /\ \A m : m \in (a + 1)..n => m \in 1..n /\ m \in (a + 1)..(n + 1)
      /\ \A m : m \in (a + 1)..(n + 1) => m = n + 1 \/ m \in (a + 1)..n
      /\ n + 1 \notin (a + 1)..n /\ n + 1 \in (a + 1)..(n + 1)
  BY ONLY <1>1
<1>5. M \subseteq 1..n /\ M \subseteq N
  BY ONLY <1>2, <1>3, <1>4
<1>6. IsFiniteSet(M)
  <2>1. IsFiniteSet(1..n)
    BY FS_Interval
  <2> QED
    BY <1>5, <2>1, FS_Subset
<1>7. Cardinality(M) \in Nat
  BY <1>6, FS_CardinalityType
<1>8. CASE n + 1 \in s.filter
  <2>1. N = M \cup {n + 1} /\ n + 1 \notin M
    BY ONLY <1>2, <1>3, <1>4, <1>8
  <2>2. Cardinality(N) = Cardinality(M) + 1
    BY <1>6, <2>1, FS_AddElement
  <2> QED
    BY <1>5, <1>6, <1>7, <1>8, <2>2 DEF M, N
<1>9. CASE n + 1 \notin s.filter
  <2>1. N = M
    BY ONLY <1>2, <1>3, <1>4, <1>9
  <2>2. Cardinality(N) = Cardinality(M) + 0
    BY <1>7, <2>1
  <2> QED
    BY <1>5, <1>6, <1>7, <1>9, <2>2 DEF M, N
<1> QED
  BY <1>8, <1>9

(* A step that leaves an entry's messages and counters alone. *)
LEMMA QuietLine ==
    ASSUME NEW i, NEW s, NEW t, NEW w, NEW v, NEW n, InLine(i, s, w, n),
           t.filter = s.filter, t.since = s.since, t.delivered = s.delivered, t.missed = s.missed,
           Seen(t) = Seen(s), t.in /\ t.open => s.in /\ s.open,
           \/ Pending(i, v) /\ Pending(i, w) /\ v.msg = w.msg
           \/ ~Pending(i, v) /\ ~Pending(i, w)
           \/ ~Pending(i, v) /\ (s.in /\ s.open => w.msg \notin s.filter)
    PROVE  InLine(i, t, v, n)
<1>1. Met(t, n) = Met(s, n)
  BY DEF Met
<1>2. t.in /\ t.open => Owed(i, t, v) = Owed(i, s, w)
  BY DEF Owed
<1>3. Pending(i, v) => Pending(i, w)
  OBVIOUS
<1> QED
  BY <1>1, <1>2, <1>3 DEF InLine

(* A delivery begins: its message is awaited where the entry is in the map. *)
LEMMA LineArrives ==
    ASSUME NEW i, NEW s \in Subscriber, NEW w, NEW v, NEW n \in Nat, InLine(i, s, w, n), ~Pending(i, w),
           v.msg = n + 1, s.in => Pending(i, v)
    PROVE  InLine(i, s, v, n + 1)
<1>1. s.since \in 0..n
  BY DEF InLine
<1>2. /\ Met(s, n) \subseteq 1..n /\ Met(s, n) \subseteq Met(s, n + 1) /\ Cardinality(Met(s, n)) \in Nat
      /\ Cardinality(Met(s, n + 1)) = Cardinality(Met(s, n)) + IF n + 1 \in s.filter THEN 1 ELSE 0
  BY <1>1, MetGrows
<1>3. s.since \in 0..(n + 1) /\ s.since < n + 1 /\ \A m \in 1..n : m < n + 1
  BY <1>1
<1>4. \A j \in DOMAIN Seen(s) : Seen(s)[j] \in Met(s, n + 1) /\ Seen(s)[j] < n + 1
  BY <1>2, <1>3 DEF InLine
<1>5. ASSUME s.in, s.open PROVE s.delivered + s.missed + Owed(i, s, v) = Cardinality(Met(s, n + 1))
  <2>1. Owed(i, s, w) = 0 /\ Owed(i, s, v) = IF n + 1 \in s.filter THEN 1 ELSE 0
    BY <1>5 DEF Owed
  <2>2. s.delivered + s.missed + 0 = Cardinality(Met(s, n))
    BY <1>5, <2>1 DEF InLine
  <2>3. s.delivered \in Nat /\ s.missed \in Nat
    BY DEF Subscriber
  <2> QED
    BY <1>2, <2>1, <2>2, <2>3
<1> QED
  BY <1>3, <1>4, <1>5 DEF InLine

(* A subscriber comes: it met nothing, and a walk that still goes on may     *)
(* bring it the message under way.                                           *)
LEMMA LineBegins ==
    ASSUME NEW i, NEW s, NEW v, NEW n \in Nat, Seen(s) = <<>>, s.delivered = 0, s.missed = 0,
           \/ s.since = n /\ ~Pending(i, v)
           \/ s.since = n - 1 /\ n # 0 /\ Pending(i, v) /\ v.msg = n
    PROVE  InLine(i, s, v, n)
<1>1. CASE s.since = n /\ ~Pending(i, v)
  <2>1. Met(s, n) = {} /\ n \in 0..n
    BY <1>1 DEF Met
  <2> QED
    BY <1>1, <2>1, FS_EmptySet DEF InLine, Owed, Rising
<1>2. CASE s.since = n - 1 /\ n # 0 /\ Pending(i, v) /\ v.msg = n
  <2>1. PICK k \in Nat : n = k + 1 /\ s.since = k
    BY <1>2
  <2>2. s.since \in 0..k /\ s.since \in 0..n /\ s.since < n
    BY ONLY <2>1
  <2>3. Met(s, k) = {}
    BY <2>1 DEF Met
  <2>4. Cardinality(Met(s, n)) = 0 + IF n \in s.filter THEN 1 ELSE 0
    <3>1. Cardinality(Met(s, k + 1)) = Cardinality(Met(s, k)) + IF k + 1 \in s.filter THEN 1 ELSE 0
      BY <2>2, MetGrows
    <3> QED
      BY <2>1, <2>3, <3>1, FS_EmptySet
  <2>5. Owed(i, s, v) = IF n \in s.filter THEN 1 ELSE 0
    BY <1>2 DEF Owed
  <2> QED
    BY <1>2, <2>2, <2>4, <2>5 DEF InLine, Rising
<1> QED
  BY <1>1, <1>2

LEMMA Rejoin ==
    ASSUME NEW S, NEW p \in Seq(S), NEW q \in Seq(S)
    PROVE  /\ \A m \in S : p \o Append(q, m) = Append(p \o q, m)
           /\ q # <<>> => Append(p, Head(q)) \o Tail(q) = p \o q
<1>1. ASSUME NEW m \in S PROVE p \o Append(q, m) = Append(p \o q, m)
  <2>1. <<m>> \in Seq(S) /\ p \o q \in Seq(S)
    BY ConcatProperties
  <2>2. Append(q, m) = q \o <<m>> /\ Append(p \o q, m) = (p \o q) \o <<m>>
    BY <2>1, AppendIsConcat
  <2>3. (p \o q) \o <<m>> = p \o (q \o <<m>>)
    BY <2>1, ConcatAssociative
  <2> QED
    BY <2>2, <2>3
<1>2. ASSUME q # <<>> PROVE Append(p, Head(q)) \o Tail(q) = p \o q
  <2> DEFINE h == Head(q)
             r == Tail(q)
  <2>1. h \in S /\ r \in Seq(S) /\ <<h>> \in Seq(S)
    BY <1>2
  <2>2. /\ <<h>> \o r \in Seq(S) /\ Len(<<h>> \o r) = Len(q)
        /\ \A i \in 1..Len(q) : q[i] = (<<h>> \o r)[i]
    BY <1>2
  <2>3. q = <<h>> \o r
    BY <2>2, SeqEqual
  <2> HIDE DEF h, r
  <2>4. Append(p, h) = p \o <<h>>
    BY <2>1, AppendIsConcat
  <2>5. (p \o <<h>>) \o r = p \o (<<h>> \o r)
    BY <2>1, ConcatAssociative
  <2> QED
    BY <2>3, <2>4, <2>5 DEF h, r
<1> QED
  BY <1>1, <1>2

LEMMA SeenIs ==
    ASSUME NEW s \in Subscriber
    PROVE  /\ s.got \in Seq(Nat) /\ s.queue \in Seq(Nat) /\ Seen(s) \in Seq(Nat)
           /\ \A m \in Nat : s.got \o Append(s.queue, m) = Append(Seen(s), m)
           /\ s.queue # <<>> => Append(s.got, Head(s.queue)) \o Tail(s.queue) = Seen(s)
<1>1. s.got \in Seq(Nat) /\ s.queue \in Seq(Nat)
  BY DEF Subscriber
<1>2. Seen(s) \in Seq(Nat)
  BY <1>1, ConcatProperties DEF Seen
<1> QED
  BY <1>1, <1>2, Rejoin DEF Seen

(* The walk comes to an entry: the message is the last one it reads. *)
LEMMA LineVisited ==
    ASSUME NEW i, NEW s \in Subscriber, NEW w, NEW v, NEW n \in Nat, InLine(i, s, w, n),
           Pending(i, w), w.msg = n, n \in s.filter, ~Pending(i, v)
    PROVE  InLine(i, TrySend(s, n), v, n)
<1> DEFINE q == Seen(s)
           t == TrySend(s, n)
<1>1. /\ s.since \in 0..n /\ s.since < n /\ s.delivered = Len(q) /\ Rising(q)
      /\ \A j \in DOMAIN q : q[j] \in Met(s, n) /\ q[j] < n
      /\ s.in /\ s.open => s.delivered + s.missed + 1 = Cardinality(Met(s, n))
  BY DEF InLine, Owed
<1>2. q \in Seq(Nat) /\ s.delivered \in Nat /\ s.missed \in Nat
  BY SeenIs DEF Subscriber
<1>3. Owed(i, t, v) = 0
  BY DEF Owed
<1>4. CASE Len(s.queue) < Capacity
  <2>1. t = [s EXCEPT !.queue = Append(s.queue, n), !.delivered = s.delivered + 1]
    BY <1>4 DEF TrySend
  <2>2. /\ t.filter = s.filter /\ t.since = s.since /\ t.in = s.in /\ t.open = s.open
        /\ t.got = s.got /\ t.missed = s.missed
        /\ t.queue = Append(s.queue, n) /\ t.delivered = s.delivered + 1
    BY <2>1 DEF Subscriber
  <2>3. Seen(t) = Append(q, n) /\ Met(t, n) = Met(s, n)
    <3>1. Seen(t) = t.got \o t.queue
      BY DEF Seen
    <3> QED
      BY <2>2, <3>1, SeenIs DEF Met
  <2> HIDE DEF q, t
  <2>4. /\ Append(q, n) \in Seq(Nat) /\ Len(Append(q, n)) = Len(q) + 1
        /\ Append(q, n)[Len(q) + 1] = n /\ DOMAIN Append(q, n) = 1..(Len(q) + 1)
        /\ \A j \in 1..Len(q) : Append(q, n)[j] = q[j]
        /\ \A j \in 1..(Len(q) + 1) : j = Len(q) + 1 \/ j \in 1..Len(q)
        /\ DOMAIN q = 1..Len(q)
    BY <1>2, AppendIs
  <2>5. n \in Met(s, n)
    <3>1. n \in (s.since + 1)..n
      BY <1>1
    <3> QED
      BY <3>1 DEF Met
  <2>6. \A j \in DOMAIN Append(q, n) : Append(q, n)[j] \in Met(s, n)
    BY <1>1, <2>4, <2>5
  <2>7. ASSUME NEW j \in DOMAIN Append(q, n), NEW k \in DOMAIN Append(q, n), j < k
        PROVE  Append(q, n)[j] < Append(q, n)[k]
    <3>1. Len(q) \in Nat
      BY <1>2
    <3>2. j \in 1..Len(q)
      BY <2>4, <2>7, <3>1
    <3>3. CASE k = Len(q) + 1
      BY <1>1, <2>4, <3>2, <3>3
    <3>4. CASE k \in 1..Len(q)
      BY <1>1, <2>4, <2>7, <3>2, <3>4 DEF Rising
    <3> QED
      BY <2>4, <3>3, <3>4
  <2>8. Rising(Append(q, n))
    BY <2>7 DEF Rising
  <2>9. ASSUME t.in, t.open PROVE t.delivered + t.missed + 0 = Cardinality(Met(s, n))
    <3>1. s.delivered + s.missed + 1 = Cardinality(Met(s, n))
      BY <1>1, <2>2, <2>9
    <3>2. t.delivered + t.missed = s.delivered + s.missed + 1
      BY ONLY <1>2, <2>2
    <3>3. s.delivered + s.missed + 1 \in Nat
      BY <1>2
    <3> QED
      BY ONLY <3>1, <3>2, <3>3
  <2> QED
    BY <1>1, <1>3, <2>2, <2>3, <2>4, <2>6, <2>8, <2>9 DEF InLine, t
<1>5. CASE ~(Len(s.queue) < Capacity)
  <2>1. t = [s EXCEPT !.missed = s.missed + 1]
    BY <1>5 DEF TrySend
  <2>2. /\ t.filter = s.filter /\ t.since = s.since /\ t.in = s.in /\ t.open = s.open
        /\ t.got = s.got /\ t.missed = s.missed + 1
        /\ t.queue = s.queue /\ t.delivered = s.delivered
    BY <2>1 DEF Subscriber
  <2>3. Seen(t) = q /\ Met(t, n) = Met(s, n)
    BY <2>2 DEF Seen, Met
  <2> HIDE DEF q, t
  <2>9. ASSUME t.in, t.open PROVE t.delivered + t.missed + 0 = Cardinality(Met(s, n))
    <3>1. s.delivered + s.missed + 1 = Cardinality(Met(s, n))
      BY <1>1, <2>2, <2>9
    <3>2. t.delivered + t.missed = s.delivered + s.missed + 1
      BY ONLY <1>2, <2>2
    <3>3. s.delivered + s.missed + 1 \in Nat
      BY <1>2
    <3> QED
      BY ONLY <3>1, <3>2, <3>3
  <2> QED
    BY <1>1, <1>3, <2>2, <2>3, <2>9 DEF InLine, t
<1> QED
  BY <1>4, <1>5

(* Most steps leave what an entry met and counted alone. *)
Quiet(s, t) ==
    /\ t.filter = s.filter /\ t.since = s.since /\ t.delivered = s.delivered /\ t.missed = s.missed
    /\ Seen(t) = Seen(s) /\ (t.in /\ t.open => s.in /\ s.open)

LEMMA LinesStay ==
    ASSUME TailLine, DOMAIN subs' = DOMAIN subs, sent' = sent,
           tail'.pc = tail.pc, tail.pc = "walk" => tail'.msg = tail.msg /\ tail'.todo = tail.todo,
           \A i \in DOMAIN subs : Quiet(subs[i], subs'[i])
    PROVE  TailLine'
<1>1. ASSUME NEW i \in DOMAIN subs PROVE InLine(i, subs'[i], tail', Len(sent))
  <2>1. \/ Pending(i, tail') /\ Pending(i, tail) /\ tail'.msg = tail.msg
        \/ ~Pending(i, tail') /\ ~Pending(i, tail)
    BY DEF Pending
  <2>2. InLine(i, subs[i], tail, Len(sent))
    BY DEF TailLine
  <2>3. Quiet(subs[i], subs'[i])
    OBVIOUS
  <2> QED
    BY <2>1, <2>2, <2>3, QuietLine DEF Quiet
<1> QED
  BY <1>1 DEF TailLine

LEMMA QuietHere ==
    ASSUME subs \in Seq(Subscriber), NEW i \in DOMAIN subs, NEW s, subs' = [subs EXCEPT ![i] = s],
           Quiet(subs[i], s)
    PROVE  DOMAIN subs' = DOMAIN subs /\ \A j \in DOMAIN subs : Quiet(subs[j], subs'[j])
<1>1. DOMAIN subs' = DOMAIN subs /\ subs'[i] = s /\ \A j \in DOMAIN subs : j # i => subs'[j] = subs[j]
  OBVIOUS
<1> QED
  BY <1>1 DEF Quiet

LEMMA WithoutIsQuiet ==
    ASSUME subs \in Seq(Subscriber), NEW i \in DOMAIN subs, subs' = Without(i)
    PROVE  DOMAIN subs' = DOMAIN subs /\ \A j \in DOMAIN subs : Quiet(subs[j], subs'[j])
<1> DEFINE s == [subs[i] EXCEPT !.in = FALSE]
<1>1. subs' = [subs EXCEPT ![i] = s]
  BY DEF Without
<1>2. subs[i] \in Subscriber
  BY SubscriberIs
<1>3. Quiet(subs[i], s)
  BY <1>2 DEF Quiet, Seen, Subscriber
<1> HIDE DEF s
<1> QED
  BY <1>1, <1>3, QuietHere

LEMMA VisitKeepsLines ==
    ASSUME TailInv, TailLine, NEW i \in DOMAIN subs, Visit(i)
    PROVE  TailLine'
<1> DEFINE n == Len(sent)
<1>0. TailType /\ subs \in Seq(Subscriber) /\ n \in Nat
  BY DEF TailInv, TailType
<1>1. /\ tail.pc = "walk" /\ i \in tail.todo /\ tail.msg = n /\ n >= 1 /\ tail.todo \subseteq DOMAIN subs
      /\ UNCHANGED <<client, sent>>
  BY DEF Visit, TailLine
<1>2. tail \in [pc : {"walk"}, msg : Nat, todo : SUBSET Nat, gone : SUBSET Nat]
  BY <1>0, <1>1 DEF TailType, TailAt, Away
<1>3. tail'.pc = "walk" /\ tail'.msg = n /\ tail'.todo = tail.todo \ {i}
  <2> DEFINE t == tail.todo \ {i}
             g == tail.gone \cup {i}
  <2>1. tail' = [tail EXCEPT !.todo = t] \/ tail' = [tail EXCEPT !.todo = t, !.gone = g]
    BY DEF Visit
  <2> HIDE DEF t, g
  <2>2. tail'.pc = "walk" /\ tail'.msg = tail.msg /\ tail'.todo = t
    BY ONLY <1>2, <2>1
  <2> QED
    BY <1>1, <2>2 DEF t
<1>4. /\ subs[i] \in Subscriber /\ InLine(i, subs[i], tail, n)
      /\ Pending(i, tail) /\ ~Pending(i, tail')
  BY <1>0, <1>1, <1>3, SubscriberIs DEF TailLine, Pending
<1>5. ASSUME NEW j \in DOMAIN subs, subs'[j] = subs[j], j # i PROVE InLine(j, subs'[j], tail', n)
  <2>1. \/ Pending(j, tail') /\ Pending(j, tail) /\ tail'.msg = tail.msg
        \/ ~Pending(j, tail') /\ ~Pending(j, tail)
    BY <1>1, <1>3, <1>5 DEF Pending
  <2>2. InLine(j, subs[j], tail, n)
    BY DEF TailLine
  <2> QED
    BY <1>5, <2>1, <2>2, QuietLine
<1> HIDE DEF n
<1>6. DOMAIN subs' = DOMAIN subs /\ InLine(i, subs'[i], tail', n) /\ \A j \in DOMAIN subs : j # i => subs'[j] = subs[j]
  <2>1. CASE subs' = [subs EXCEPT ![i] = TrySend(subs[i], tail.msg)] /\ n \in subs[i].filter
    <3>1. InLine(i, TrySend(subs[i], n), tail', n)
      BY <1>0, <1>1, <1>4, <2>1, LineVisited
    <3>2. /\ DOMAIN subs' = DOMAIN subs /\ subs'[i] = TrySend(subs[i], n)
          /\ \A j \in DOMAIN subs : j # i => subs'[j] = subs[j]
      BY <1>0, <1>1, <2>1
    <3> QED
      BY <3>1, <3>2
  <2>2. CASE subs' = subs /\ (subs[i].in /\ subs[i].open => n \notin subs[i].filter)
    <3>1. InLine(i, subs'[i], tail', n)
      BY <1>1, <1>4, <2>2, QuietLine
    <3> QED
      BY <2>2, <3>1
  <2>3. CASE ~subs[i].in \/ tail.msg \notin subs[i].filter
    <3>1. subs' = subs
      BY <2>3 DEF Visit
    <3> QED
      BY <1>1, <2>2, <2>3, <3>1
  <2>4. CASE subs[i].in /\ tail.msg \in subs[i].filter /\ ~subs[i].open
    <3>1. subs' = subs
      BY <2>4 DEF Visit
    <3> QED
      BY <1>1, <2>2, <2>4, <3>1
  <2>5. CASE subs[i].in /\ tail.msg \in subs[i].filter /\ subs[i].open
    <3>1. subs' = [subs EXCEPT ![i] = TrySend(subs[i], tail.msg)]
      BY <2>5 DEF Visit
    <3> QED
      BY <1>1, <2>1, <2>5, <3>1
  <2> QED
    BY <2>3, <2>4, <2>5
<1>7. \A j \in DOMAIN subs' : InLine(j, subs'[j], tail', Len(sent'))
  BY <1>1, <1>5, <1>6 DEF n
<1>8. tail'.pc = "walk" /\ tail'.msg = Len(sent') /\ Len(sent') >= 1 /\ tail'.todo \subseteq DOMAIN subs'
  BY <1>1, <1>3, <1>6 DEF n
<1>9. \A k \in DOMAIN sent' : sent'[k] = k
  BY <1>1 DEF TailLine
<1> QED
  BY <1>7, <1>8, <1>9 DEF TailLine

LEMMA SubscribeKeepsLines ==
    ASSUME TailInv, TailLine, NEW c \in Clients, NEW late \in BOOLEAN, Subscribe(c, late)
    PROVE  TailLine'
<1> DEFINE g == client[c].filter
           b == New(g)
           d == b.since - IF late THEN 1 ELSE 0
           s == [b EXCEPT !.since = d]
           k == Len(subs) + 1
           n == Len(sent)
<1>0. TailType /\ subs \in Seq(Subscriber) /\ n \in Nat /\ Len(subs) \in Nat
  BY DEF TailInv, TailType
<1>1. /\ late => tail.pc = "walk" /\ tail.todo # {}
      /\ subs' = Append(subs, s) /\ sent' = sent
      /\ tail' = IF late THEN [tail EXCEPT !.todo = @ \cup {Len(subs')}] ELSE tail
  BY DEF Subscribe
<1>2. g \in TailFilters
  BY <1>0 DEF Subscribe, TailType, ClientAt, Away
<1>3. /\ b \in Subscriber /\ b.since = n /\ b.got = <<>> /\ b.queue = <<>> /\ b.delivered = 0 /\ b.missed = 0
  BY <1>0, <1>2 DEF New, Subscriber
<1> HIDE DEF b
<1>4. d \in Int /\ d = n - IF late THEN 1 ELSE 0
  BY <1>0, <1>3
<1> HIDE DEF d
<1>5. s \in Subscriber /\ s.since = d /\ s.got = <<>> /\ s.queue = <<>> /\ s.delivered = 0 /\ s.missed = 0
  BY <1>3, <1>4 DEF Subscriber
<1>6. Seen(s) = <<>>
  <2>1. Seen(s) = <<>> \o <<>>
    BY <1>5 DEF Seen
  <2>2. <<>> \in Seq(Nat)
    OBVIOUS
  <2> QED
    BY <2>1, <2>2, ConcatEmptySeq
<1> HIDE DEF s
<1>7. /\ DOMAIN subs' = 1..k /\ DOMAIN subs = 1..Len(subs) /\ subs'[k] = s /\ Len(subs') = k
      /\ \A i \in 1..Len(subs) : subs'[i] = subs[i]
      /\ \A i \in 1..k : i = k \/ i \in 1..Len(subs)
      /\ \A i \in 1..Len(subs) : i # k /\ i \in 1..k
      /\ k \in 1..k
  <2>1. /\ subs' \in Seq(Subscriber) /\ Len(subs') = k /\ subs'[k] = s
        /\ \A i \in 1..Len(subs) : subs'[i] = subs[i]
        /\ \A i \in 1..k : i = k \/ i \in 1..Len(subs)
    BY <1>0, <1>1, <1>5, AppendIs
  <2>2. DOMAIN subs' = 1..k /\ DOMAIN subs = 1..Len(subs)
    BY <1>0, <2>1
  <2>3. /\ \A i \in 1..Len(subs) : i # k /\ i \in 1..k
        /\ k \in 1..k
    BY <1>0
  <2> QED
    BY <2>1, <2>2, <2>3
<1>8. /\ tail.pc = "walk" => tail.msg = n /\ n >= 1 /\ tail.todo \subseteq DOMAIN subs
      /\ \A i \in DOMAIN sent : sent[i] = i
      /\ \A i \in DOMAIN subs : InLine(i, subs[i], tail, n)
  BY DEF TailLine
<1>9. /\ tail'.pc = tail.pc
      /\ tail.pc = "walk" => tail'.msg = n /\ tail'.todo = (IF late THEN tail.todo \cup {k} ELSE tail.todo)
  <2>1. CASE late
    <3>1. tail \in [pc : {"walk"}, msg : Nat, todo : SUBSET Nat, gone : SUBSET Nat]
      BY <1>0, <1>1, <2>1 DEF TailType, TailAt, Away
    <3>2. tail' = [tail EXCEPT !.todo = @ \cup {k}]
      BY <1>1, <1>7, <2>1
    <3>3. tail'.pc = tail.pc /\ tail'.msg = tail.msg /\ tail'.todo = tail.todo \cup {k}
      BY ONLY <3>1, <3>2
    <3> QED
      BY <1>8, <2>1, <3>3
  <2>2. CASE ~late
    BY <1>1, <1>8, <2>2
  <2> QED
    BY <2>1, <2>2
<1> HIDE DEF k, n
<1>10. InLine(k, subs'[k], tail', n)
  <2>1. CASE late
    <3>1. Pending(k, tail') /\ tail'.msg = n /\ n # 0 /\ s.since = n - 1
      BY <1>0, <1>1, <1>4, <1>5, <1>8, <1>9, <2>1 DEF Pending
    <3> QED
      BY <1>0, <1>5, <1>6, <1>7, <3>1, LineBegins
  <2>2. CASE ~late
    <3>1. ~Pending(k, tail') /\ s.since = n
      BY <1>0, <1>1, <1>4, <1>5, <1>7, <1>8, <2>2 DEF Pending
    <3> QED
      BY <1>0, <1>5, <1>6, <1>7, <3>1, LineBegins
  <2> QED
    BY <2>1, <2>2
<1>11. ASSUME NEW i \in 1..Len(subs) PROVE InLine(i, subs'[i], tail', n)
  <2>1. \/ Pending(i, tail') /\ Pending(i, tail) /\ tail'.msg = tail.msg
        \/ ~Pending(i, tail') /\ ~Pending(i, tail)
    BY <1>7, <1>8, <1>9 DEF Pending
  <2> QED
    BY <1>7, <1>8, <2>1, QuietLine
<1>12. /\ tail'.pc = "walk" => tail'.msg = Len(sent') /\ Len(sent') >= 1 /\ tail'.todo \subseteq DOMAIN subs'
  <2>1. Len(sent') = n /\ \A i \in DOMAIN subs : i \in DOMAIN subs'
    BY <1>1, <1>7 DEF n
  <2>2. k \in DOMAIN subs'
    BY <1>7
  <2> QED
    BY <1>8, <1>9, <2>1, <2>2
<1>13. \A i \in DOMAIN subs' : InLine(i, subs'[i], tail', Len(sent'))
  BY <1>1, <1>7, <1>10, <1>11 DEF n
<1>14. \A i \in DOMAIN sent' : sent'[i] = i
  BY <1>1, <1>8
<1> QED
  BY <1>12, <1>13, <1>14 DEF TailLine

LEMMA StartKeepsLines ==
    ASSUME TailInv, TailLine, StartDelivery
    PROVE  TailLine'
<1> DEFINE n == Len(sent)
<1>0. TailType /\ subs \in Seq(Subscriber) /\ sent \in Seq(Nat) /\ n \in Nat
  BY DEF TailInv, TailType
<1>1. /\ tail = Away /\ subs' = subs /\ sent' = Append(sent, n + 1)
      /\ tail' = [pc |-> "walk", msg |-> Len(sent'), todo |-> Present, gone |-> {}]
  BY DEF StartDelivery
<1>2. /\ Len(sent') = n + 1 /\ DOMAIN sent' = 1..(n + 1) /\ n + 1 >= 1
      /\ \A k \in DOMAIN sent' : sent'[k] = k
  <2>1. /\ sent' \in Seq(Nat) /\ Len(sent') = n + 1 /\ sent'[n + 1] = n + 1
        /\ \A k \in 1..n : sent'[k] = sent[k]
        /\ \A k \in 1..(n + 1) : k = n + 1 \/ k \in 1..n
    BY <1>0, <1>1, AppendIs
  <2>2. DOMAIN sent' = 1..(n + 1) /\ DOMAIN sent = 1..n
    BY <1>0, <2>1
  <2>3. n + 1 >= 1
    BY <1>0
  <2> QED
    BY <2>1, <2>2, <2>3 DEF TailLine
<1>3. Present \subseteq DOMAIN subs
  BY DEF Present
<1> HIDE DEF n
<1>4. ASSUME NEW i \in DOMAIN subs PROVE InLine(i, subs[i], tail', n + 1)
  <2>1. subs[i] \in Subscriber /\ InLine(i, subs[i], tail, n)
    BY <1>0, SubscriberIs DEF TailLine, n
  <2>2. ~Pending(i, tail) /\ tail'.msg = n + 1
    BY <1>1, <1>2 DEF Pending, Away
  <2>3. subs[i].in => Pending(i, tail')
    BY <1>1 DEF Pending, Present
  <2> QED
    BY <1>0, <2>1, <2>2, <2>3, LineArrives
<1> QED
  BY <1>1, <1>2, <1>3, <1>4 DEF TailLine

LEMMA TailLineStep == TailInv /\ TailLine /\ [TailNext]_tailVars => TailLine'
<1> SUFFICES ASSUME TailInv, TailLine, [TailNext]_tailVars PROVE TailLine'
  OBVIOUS
<1>0. TailType /\ subs \in Seq(Subscriber)
  BY DEF TailInv, TailType
<1>r. \A s : Quiet(s, s)
  BY DEF Quiet
<1>1. ASSUME UNCHANGED <<subs, tail, sent>> PROVE TailLine'
  BY <1>1, <1>r, LinesStay
<1>2. ASSUME NEW i \in DOMAIN subs, subs' = Without(i), UNCHANGED <<tail, sent>> PROVE TailLine'
  BY <1>0, <1>2, WithoutIsQuiet, LinesStay
<1>3. ASSUME NEW c \in Clients, NEW f \in TailFilters, SweepClosed(c, f) PROVE TailLine'
  <2> DEFINE Swp(i) == IF subs[i].in /\ ~subs[i].open THEN [subs[i] EXCEPT !.in = FALSE] ELSE subs[i]
  <2>1. subs' = [i \in DOMAIN subs |-> Swp(i)] /\ UNCHANGED <<tail, sent>>
    BY <1>3 DEF SweepClosed
  <2>2. ASSUME NEW i \in DOMAIN subs PROVE Quiet(subs[i], Swp(i))
    <3>1. subs[i] \in Subscriber
      BY <1>0, SubscriberIs
    <3> QED
      BY <3>1 DEF Quiet, Seen, Subscriber
  <2> HIDE DEF Swp
  <2>3. DOMAIN subs' = DOMAIN subs /\ \A i \in DOMAIN subs : Quiet(subs[i], subs'[i])
    BY <2>1, <2>2
  <2> QED
    BY <2>1, <2>3, LinesStay
<1>4. ASSUME NEW c \in Clients,
             \/ EnforceCaps(c) \/ Swept(c) \/ \E ids \in SUBSET Present : SweepIdle(c, ids)
      PROVE  TailLine'
  BY <1>1, <1>4 DEF EnforceCaps, Swept, SweepIdle
<1>5. ASSUME NEW c \in Clients, NEW i \in DOMAIN subs, SweepNext(c, i) PROVE TailLine'
  BY <1>2, <1>5 DEF SweepNext
<1>6. ASSUME NEW i \in DOMAIN subs, Unsubscribe(i) PROVE TailLine'
  BY <1>2, <1>6 DEF Unsubscribe
<1>7. ASSUME NEW i \in DOMAIN subs, DropClosed(i) PROVE TailLine'
  <2>1. tail \in [pc : {"walk"}, msg : Nat, todo : SUBSET Nat, gone : SUBSET Nat]
    BY <1>0, <1>7 DEF TailType, TailAt, Away, DropClosed
  <2>2. tail'.pc = tail.pc /\ tail'.msg = tail.msg /\ tail'.todo = tail.todo
    BY <1>7, <2>1 DEF DropClosed
  <2>3. subs' = Without(i) /\ sent' = sent
    BY <1>7 DEF DropClosed
  <2> QED
    BY <1>0, <2>2, <2>3, WithoutIsQuiet, LinesStay
<1>8. CASE EndDelivery
  <2>1. tail.todo = {} /\ tail' = Away /\ subs' = subs /\ sent' = sent
    BY <1>8 DEF EndDelivery
  <2>2. ASSUME NEW i \in DOMAIN subs PROVE InLine(i, subs[i], tail', Len(sent))
    <3>1. ~Pending(i, tail') /\ ~Pending(i, tail) /\ InLine(i, subs[i], tail, Len(sent))
      BY <2>1 DEF Pending, Away, TailLine
    <3> QED
      BY <3>1, QuietLine
  <2> QED
    BY <2>1, <2>2 DEF TailLine, Away
<1>9. ASSUME NEW i \in DOMAIN subs, Recv(i) PROVE TailLine'
  <2> DEFINE a == Append(subs[i].got, Head(subs[i].queue))
             b == Tail(subs[i].queue)
             s == [subs[i] EXCEPT !.got = a, !.queue = b]
  <2>1. subs[i] \in Subscriber /\ subs[i].queue # <<>> /\ UNCHANGED <<tail, sent>>
    BY <1>0, <1>9, SubscriberIs DEF Recv
  <2>2. subs' = [subs EXCEPT ![i] = s]
    BY <1>0, <1>9 DEF Recv
  <2>3. a \o b = Seen(subs[i])
    BY <2>1, SeenIs
  <2> HIDE DEF a, b
  <2>4. /\ s.filter = subs[i].filter /\ s.since = subs[i].since /\ s.delivered = subs[i].delivered
        /\ s.missed = subs[i].missed /\ s.in = subs[i].in /\ s.open = subs[i].open /\ s.got = a /\ s.queue = b
    BY <2>1 DEF Subscriber
  <2> HIDE DEF s
  <2>5. Quiet(subs[i], s)
    BY <2>3, <2>4 DEF Quiet, Seen
  <2> QED
    BY <1>0, <2>1, <2>2, <2>5, QuietHere, LinesStay
<1>10. ASSUME NEW i \in DOMAIN subs, DropReceiver(i) PROVE TailLine'
  <2> DEFINE s == [subs[i] EXCEPT !.open = FALSE]
  <2>1. subs[i] \in Subscriber /\ subs' = [subs EXCEPT ![i] = s] /\ UNCHANGED <<tail, sent>>
    BY <1>0, <1>10, SubscriberIs DEF DropReceiver
  <2>2. Quiet(subs[i], s)
    BY <2>1 DEF Quiet, Seen, Subscriber
  <2> HIDE DEF s
  <2> QED
    BY <1>0, <2>1, <2>2, QuietHere, LinesStay
<1>11. CASE UNCHANGED tailVars
  BY <1>1, <1>11 DEF tailVars
<1> QED
  BY <1>3, <1>4, <1>5, <1>6, <1>7, <1>8, <1>9, <1>10, <1>11, VisitKeepsLines, SubscribeKeepsLines, StartKeepsLines
     DEF TailNext

LEMMA LinesFollow == TailInv /\ TailLine => TailInOrder
<1> SUFFICES ASSUME TailInv, TailLine, NEW i \in DOMAIN subs
             PROVE  LET s == subs[i] IN
                    /\ s.delivered = Len(Seen(s))
                    /\ \A j \in DOMAIN Seen(s) : Seen(s)[j] \in Matching(s)
                    /\ \A j, k \in DOMAIN Seen(s) : j < k => Seen(s)[j] < Seen(s)[k]
                    /\ s.in /\ s.open => s.delivered + s.missed + Awaited(i) = Cardinality(Matching(s))
  BY DEF TailInOrder
<1>1. InLine(i, subs[i], tail, Len(sent)) /\ \A k \in DOMAIN sent : sent[k] = k
  BY DEF TailLine
<1>2. Matching(subs[i]) = Met(subs[i], Len(sent))
  <2>1. subs[i].since \in 0..Len(sent) /\ DOMAIN sent = 1..Len(sent)
    BY <1>1 DEF InLine, TailInv, TailType
  <2>2. \A m \in (subs[i].since + 1)..Len(sent) : m \in 1..Len(sent)
    BY <2>1 DEF TailInv, TailType
  <2> QED
    BY <1>1, <2>1, <2>2 DEF Matching, Met
<1>3. Awaited(i) = Owed(i, subs[i], tail)
  BY DEF Awaited, Owed, Pending
<1> QED
  BY <1>1, <1>2, <1>3 DEF InLine, Rising

-------------------------------------------------------------------------------
(* Parquet: an envelope is in the buffer of its partition, in one file, or    *)
(* was in memory at a crash.                                                  *)

ResumeAt == {Rest} \cup [pc : {"drain"}, keys : SUBSET Keys]
ParquetAt ==
    ResumeAt \cup [pc : {"check"}, key : Keys]
             \cup [pc : {"write", "rename"}, key : Keys, id : Nat \X Nat, then : ResumeAt]

ParquetType ==
    /\ bufs \in [Keys -> Seq(Envs)] /\ \A k \in Keys : IsInjective(bufs[k])
    /\ DOMAIN bytes_estimate = Keys /\ bytes_estimate = [k \in Keys |-> bytes_estimate[k]]
    /\ \A f \in files : f.rows \in Seq(Envs) /\ IsInjective(f.rows)
    /\ pDelivered \in SUBSET Envs /\ counter \in Nat \X Nat
    /\ pWork \in [Procs -> ParquetAt]

ParquetPlaces ==
    /\ \A k \in Keys : \A e \in ToSet(bufs[k]) :
         k = PartOf[e] /\ e \in pDelivered /\ e \notin lostAtCrash
         /\ \A f \in files : e \notin ToSet(f.rows)
    /\ \A f \in files : \A e \in ToSet(f.rows) :
         /\ f.key = PartOf[e] /\ e \in pDelivered /\ e \notin lostAtCrash
         /\ \A g \in files : e \in ToSet(g.rows) => g = f
    /\ lostAtCrash \subseteq pDelivered
    /\ \A e \in pDelivered :
         e \in lostAtCrash \/ e \in ToSet(bufs[PartOf[e]]) \/ \E f \in files : e \in ToSet(f.rows)

ParquetInv == ParquetType /\ ParquetPlaces /\ ParquetRolls

LEMMA ParquetStart == ParquetInit => ParquetInv
<1> SUFFICES ASSUME ParquetInit PROVE ParquetInv
  OBVIOUS
<1> USE DEF ParquetInit
<1>1. ParquetType
  BY ToSetFacts DEF ParquetType, ParquetAt, ResumeAt
<1>2. \A k \in Keys : ToSet(bufs[k]) = {}
  BY ToSetFacts
<1>3. ParquetPlaces
  BY <1>2 DEF ParquetPlaces
<1>4. ParquetRolls
  BY DEF ParquetRolls
<1> QED
  BY <1>1, <1>3, <1>4 DEF ParquetInv

(* A roll in progress, or the look at a partition, stands for its key. *)
Attended(k) == k \in stuck \/ \E p \in Procs : pWork[p].pc \in {"check", "write", "rename"} /\ pWork[p].key = k

(* Steps that move only the callers. *)
LEMMA CallersMove ==
    ASSUME ParquetInv, UNCHANGED <<bufs, bytes_estimate, files, lostAtCrash, pDelivered>>,
           NEW p \in Procs, NEW w \in ParquetAt, pWork' = [pWork EXCEPT ![p] = w],
           counter' \in Nat \X Nat, stuck \subseteq stuck',
           pWork[p].pc \in {"check", "write", "rename"} =>
             LET k == pWork[p].key IN
             \/ bufs[k] = <<>> \/ ~(bytes_estimate[k] >= RollBytes) \/ k \in stuck'
             \/ w.pc \in {"check", "write", "rename"} /\ w.key = k
    PROVE  ParquetInv'
<1>1. ParquetType /\ ParquetPlaces /\ ParquetRolls
  BY DEF ParquetInv
<1>2. pWork' \in [Procs -> ParquetAt] /\ pWork'[p] = w /\ \A q \in Procs : q # p => pWork'[q] = pWork[q]
  BY <1>1 DEF ParquetType
<1>3. ParquetType'
  BY <1>1, <1>2 DEF ParquetType
<1>4. ParquetPlaces'
  BY <1>1 DEF ParquetPlaces
<1>5. ParquetRolls'
  <2> SUFFICES ASSUME NEW k \in Keys, bufs[k] # <<>>, bytes_estimate[k] >= RollBytes
               PROVE  Attended(k)'
    BY DEF ParquetRolls, Attended
  <2>1. Attended(k)
    BY <1>1 DEF ParquetRolls, Attended
  <2>2. CASE k \in stuck
    BY <2>2 DEF Attended
  <2>3. ASSUME NEW q \in Procs, pWork[q].pc \in {"check", "write", "rename"}, pWork[q].key = k
        PROVE  Attended(k)'
    BY <1>2, <2>3 DEF Attended
  <2> QED
    BY <2>1, <2>2, <2>3 DEF Attended
<1> QED
  BY <1>3, <1>4, <1>5 DEF ParquetInv

LEMMA AppendKeeps ==
    ASSUME ParquetInv, NEW p \in Procs, NEW e \in Envs, AppendToPartition(p, e)
    PROVE  ParquetInv'
<1> DEFINE k == PartOf[e]
           w == [pc |-> "check", key |-> k]
           b == Append(bufs[k], e)
<1>1. ParquetType /\ ParquetPlaces /\ ParquetRolls
  BY DEF ParquetInv
<1>2. /\ pWork[p] = Rest /\ e \notin pDelivered /\ bufs' = [bufs EXCEPT ![k] = b]
      /\ pDelivered' = pDelivered \cup {e} /\ pWork' = [pWork EXCEPT ![p] = w]
      /\ bytes_estimate' = [bytes_estimate EXCEPT ![k] = @ + SizeOf[e]]
      /\ UNCHANGED <<files, counter, lostAtCrash, stuck>>
  BY DEF AppendToPartition
<1>3. k \in Keys /\ bufs[k] \in Seq(Envs) /\ IsInjective(bufs[k])
  BY <1>1 DEF Keys, ParquetType
<1>4. e \notin ToSet(bufs[k])
  BY <1>1, <1>2, <1>3 DEF ParquetPlaces
<1>5. b \in Seq(Envs) /\ IsInjective(b) /\ ToSet(b) = ToSet(bufs[k]) \cup {e}
  BY <1>3, <1>4, ToSetFacts
<1>6. w \in ParquetAt
  BY <1>3 DEF ParquetAt
<1> HIDE DEF b, w
<1>7. bufs' \in [Keys -> Seq(Envs)] /\ bufs'[k] = b /\ \A q \in Keys : q # k => bufs'[q] = bufs[q]
  BY <1>1, <1>2, <1>3, <1>5 DEF ParquetType
<1>8. /\ DOMAIN bytes_estimate' = Keys /\ bytes_estimate' = [q \in Keys |-> bytes_estimate'[q]]
      /\ \A q \in Keys : q # k => bytes_estimate'[q] = bytes_estimate[q]
  BY <1>1, <1>2 DEF ParquetType
<1>9. pWork' \in [Procs -> ParquetAt] /\ pWork'[p] = w /\ \A q \in Procs : q # p => pWork'[q] = pWork[q]
  BY <1>1, <1>2, <1>6 DEF ParquetType
<1>10. ParquetType'
  BY <1>1, <1>2, <1>5, <1>7, <1>8, <1>9 DEF ParquetType
<1>11. ParquetPlaces'
  <2>1. ASSUME NEW q \in Keys, NEW x \in ToSet(bufs'[q])
        PROVE  /\ q = PartOf[x] /\ x \in pDelivered' /\ x \notin lostAtCrash
               /\ \A f \in files : x \notin ToSet(f.rows)
    <3>1. CASE x = e
      BY <1>1, <1>2, <1>4, <1>5, <1>7, <3>1 DEF ParquetPlaces
    <3>2. CASE x # e
      BY <1>1, <1>2, <1>5, <1>7, <3>2 DEF ParquetPlaces
    <3> QED
      BY <3>1, <3>2
  <2>2. ASSUME NEW f \in files, NEW x \in ToSet(f.rows)
        PROVE  /\ f.key = PartOf[x] /\ x \in pDelivered' /\ x \notin lostAtCrash
               /\ \A g \in files : x \in ToSet(g.rows) => g = f
    BY <1>1, <1>2, <2>2 DEF ParquetPlaces
  <2>3. ASSUME NEW x \in pDelivered'
        PROVE  x \in lostAtCrash \/ x \in ToSet(bufs'[PartOf[x]]) \/ \E f \in files : x \in ToSet(f.rows)
    <3>1. CASE x = e
      BY <1>5, <1>7, <3>1
    <3>2. CASE x # e
      <4>1. x \in lostAtCrash \/ x \in ToSet(bufs[PartOf[x]]) \/ \E f \in files : x \in ToSet(f.rows)
        BY <1>1, <1>2, <3>2 DEF ParquetPlaces
      <4>2. PartOf[x] \in Keys
        BY <1>1, <1>2, <3>2 DEF ParquetType, Keys
      <4> QED
        BY <1>5, <1>7, <4>1, <4>2
    <3> QED
      BY <3>1, <3>2
  <2>4. lostAtCrash \subseteq pDelivered'
    BY <1>1, <1>2 DEF ParquetPlaces
  <2> QED
    BY <1>2, <2>1, <2>2, <2>3, <2>4 DEF ParquetPlaces
<1>12. ParquetRolls'
  <2> SUFFICES ASSUME NEW q \in Keys, bufs'[q] # <<>>, bytes_estimate'[q] >= RollBytes
               PROVE  Attended(q)'
    BY DEF ParquetRolls, Attended
  <2>1. CASE q = k
    BY <1>9, <2>1 DEF Attended, w
  <2>2. CASE q # k
    <3>1. Attended(q)
      BY <1>1, <1>7, <1>8, <2>2 DEF ParquetRolls, Attended
    <3>2. pWork[p].pc \notin {"check", "write", "rename"}
      BY <1>2 DEF Rest
    <3> QED
      BY <1>2, <1>9, <3>1, <3>2 DEF Attended
  <2> QED
    BY <2>1, <2>2
<1> QED
  BY <1>10, <1>11, <1>12 DEF ParquetInv

(* StartRoll from either of its callers. *)
LEMMA StartRollKeeps ==
    ASSUME ParquetInv, NEW p \in Procs, NEW k \in Keys, NEW todo \in ResumeAt,
           pWork[p].pc \in {"check", "drain"}, pWork[p].pc = "check" => pWork[p].key = k,
           StartRoll(p, k, todo),
           UNCHANGED <<bufs, bytes_estimate, files, lostAtCrash, pDelivered>>
    PROVE  ParquetInv'
<1>1. ParquetType
  BY DEF ParquetInv
<1>2. counter[1] \in Nat /\ counter[2] \in Nat /\ <<counter[1], counter[2] + 1>> \in Nat \X Nat /\ counter \in Nat \X Nat
  BY <1>1 DEF ParquetType
<1>3. todo \in ParquetAt
  BY DEF ParquetAt
<1>4. CASE bufs[k] = <<>> /\ pWork' = [pWork EXCEPT ![p] = todo] /\ UNCHANGED <<counter, stuck>>
  BY <1>2, <1>3, <1>4, CallersMove
<1>5. CASE /\ counter' = <<counter[1], counter[2] + 1>> /\ stuck' = stuck
           /\ pWork' = [pWork EXCEPT ![p] = [pc |-> "write", key |-> k, id |-> counter, then |-> todo]]
  <2> DEFINE w == [pc |-> "write", key |-> k, id |-> counter, then |-> todo]
  <2>1. w \in ParquetAt /\ w.pc = "write" /\ w.key = k
    BY <1>2 DEF ParquetAt
  <2>2. pWork' = [pWork EXCEPT ![p] = w]
    BY <1>5
  <2> HIDE DEF w
  <2> QED
    BY <1>2, <1>5, <2>1, <2>2, CallersMove
<1>6. CASE /\ counter' = <<counter[1], counter[2] + 1>> /\ stuck' = stuck \cup {k}
           /\ pWork' = [pWork EXCEPT ![p] = todo]
  BY <1>2, <1>3, <1>6, CallersMove
<1> QED
  BY <1>4, <1>5, <1>6 DEF StartRoll

LEMMA RenameKeepsRows ==
    ASSUME ParquetInv, NEW p \in Procs, RenameTmp(p)
    PROVE  ParquetInv'
<1> DEFINE w == pWork[p]
           k == w.key
           new == [id |-> w.id, key |-> k, rows |-> bufs[k]]
<1>1. ParquetType /\ ParquetPlaces /\ ParquetRolls
  BY DEF ParquetInv
<1>2. /\ w.pc = "rename" /\ files' = files \cup {new} /\ bufs' = [bufs EXCEPT ![k] = <<>>]
      /\ bytes_estimate' = [bytes_estimate EXCEPT ![k] = 0] /\ stuck' = stuck \ {k}
      /\ pWork' = [pWork EXCEPT ![p] = w.then] /\ UNCHANGED <<counter, lostAtCrash, pDelivered>>
  BY DEF RenameTmp
<1>3. w \in [pc : {"write", "rename"}, key : Keys, id : Nat \X Nat, then : ResumeAt]
  BY <1>1, <1>2 DEF ParquetType, ParquetAt, ResumeAt, Rest
<1>4. k \in Keys /\ w.then \in ParquetAt
  BY <1>3 DEF ParquetAt
<1>5. new.key = k /\ new.rows = bufs[k] /\ bufs[k] \in Seq(Envs) /\ IsInjective(bufs[k])
  BY <1>1, <1>4 DEF ParquetType
<1> HIDE DEF new, k
<1>6. bufs' \in [Keys -> Seq(Envs)] /\ bufs'[k] = <<>> /\ \A q \in Keys : q # k => bufs'[q] = bufs[q]
  BY <1>1, <1>2, <1>4, ToSetFacts DEF ParquetType
<1>7. /\ DOMAIN bytes_estimate' = Keys /\ bytes_estimate' = [q \in Keys |-> bytes_estimate'[q]]
      /\ \A q \in Keys : q # k => bytes_estimate'[q] = bytes_estimate[q]
  BY <1>1, <1>2 DEF ParquetType
<1>8. pWork' \in [Procs -> ParquetAt] /\ \A q \in Procs : q # p => pWork'[q] = pWork[q]
  BY <1>1, <1>2, <1>4 DEF ParquetType
<1>9. ParquetType'
  BY <1>1, <1>2, <1>5, <1>6, <1>7, <1>8, ToSetFacts DEF ParquetType
<1>10. ParquetPlaces'
  <2>e. ToSet(bufs'[k]) = {} /\ \A q \in Keys : q # k => ToSet(bufs'[q]) = ToSet(bufs[q])
    BY <1>6, ToSetFacts
  <2>n. ToSet(new.rows) = ToSet(bufs[k])
    BY <1>5
  <2>1. ASSUME NEW q \in Keys, NEW x \in ToSet(bufs'[q])
        PROVE  /\ q = PartOf[x] /\ x \in pDelivered /\ x \notin lostAtCrash
               /\ \A f \in files' : x \notin ToSet(f.rows)
    <3>1. q # k /\ x \in ToSet(bufs[q])
      BY <2>e, <2>1
    <3>2. q = PartOf[x] /\ x \in pDelivered /\ x \notin lostAtCrash /\ \A f \in files : x \notin ToSet(f.rows)
      BY <1>1, <3>1 DEF ParquetPlaces
    <3>3. x \notin ToSet(bufs[k])
      BY <1>1, <1>4, <3>1, <3>2 DEF ParquetPlaces
    <3> QED
      BY <1>2, <2>n, <3>2, <3>3
  <2>2. ASSUME NEW f \in files', NEW x \in ToSet(f.rows)
        PROVE  /\ f.key = PartOf[x] /\ x \in pDelivered /\ x \notin lostAtCrash
               /\ \A g \in files' : x \in ToSet(g.rows) => g = f
    <3>1. CASE f = new
      <4>1. x \in ToSet(bufs[k])
        BY <2>n, <2>2, <3>1
      <4> QED
        BY <1>1, <1>2, <1>4, <1>5, <3>1, <4>1 DEF ParquetPlaces
    <3>2. CASE f \in files
      <4>1. x \notin ToSet(bufs[k])
        BY <1>1, <1>4, <2>2, <3>2 DEF ParquetPlaces
      <4> QED
        BY <1>1, <1>2, <2>n, <2>2, <3>2, <4>1 DEF ParquetPlaces
    <3> QED
      BY <1>2, <3>1, <3>2
  <2>3. ASSUME NEW x \in pDelivered
        PROVE  x \in lostAtCrash \/ x \in ToSet(bufs'[PartOf[x]]) \/ \E f \in files' : x \in ToSet(f.rows)
    <3>1. x \in lostAtCrash \/ x \in ToSet(bufs[PartOf[x]]) \/ \E f \in files : x \in ToSet(f.rows)
      BY <1>1 DEF ParquetPlaces
    <3>2. PartOf[x] \in Keys
      BY <1>1 DEF ParquetType, Keys
    <3>3. CASE x \in ToSet(bufs[PartOf[x]]) /\ PartOf[x] = k
      BY <1>2, <2>n, <3>3
    <3>4. CASE x \in ToSet(bufs[PartOf[x]]) /\ PartOf[x] # k
      BY <2>e, <3>2, <3>4
    <3> QED
      BY <1>2, <3>1, <3>3, <3>4
  <2> QED
    BY <1>1, <1>2, <2>1, <2>2, <2>3 DEF ParquetPlaces
<1>11. ParquetRolls'
  <2> SUFFICES ASSUME NEW q \in Keys, bufs'[q] # <<>>, bytes_estimate'[q] >= RollBytes
               PROVE  Attended(q)'
    BY DEF ParquetRolls, Attended
  <2>1. q # k
    BY <1>6
  <2>2. Attended(q)
    BY <1>1, <1>6, <1>7, <2>1 DEF ParquetRolls, Attended
  <2> QED
    BY <1>2, <1>8, <2>1, <2>2 DEF Attended, k
<1> QED
  BY <1>9, <1>10, <1>11 DEF ParquetInv

LEMMA RestartKeeps ==
    ASSUME ParquetInv, Restart
    PROVE  ParquetInv'
<1>1. ParquetType /\ ParquetPlaces
  BY DEF ParquetInv
<1>2. /\ counter' = <<counter[1] + 1, 1>> /\ bufs' = [k \in Keys |-> <<>>]
      /\ lostAtCrash' = lostAtCrash \cup (UNION {ToSet(bufs[k]) : k \in Keys})
      /\ bytes_estimate' = [k \in Keys |-> 0] /\ pWork' = [p \in Procs |-> Rest]
      /\ UNCHANGED <<files, pDelivered>>
  BY DEF Restart
<1>3. counter' \in Nat \X Nat
  BY <1>1, <1>2 DEF ParquetType
<1>4. ParquetType'
  BY <1>1, <1>2, <1>3, ToSetFacts DEF ParquetType, ParquetAt, ResumeAt
<1>5. \A k \in Keys : bufs'[k] = <<>> /\ ToSet(bufs'[k]) = {}
  BY <1>2, ToSetFacts
<1>6. \A x : x \in lostAtCrash' <=> x \in lostAtCrash \/ \E k \in Keys : x \in ToSet(bufs[k])
  BY <1>2
<1>7. \A x \in pDelivered : PartOf[x] \in Keys
  BY <1>1 DEF ParquetType, Keys
<1>8. ParquetPlaces'
  <2>1. ASSUME NEW f \in files, NEW x \in ToSet(f.rows)
        PROVE  /\ f.key = PartOf[x] /\ x \in pDelivered /\ x \notin lostAtCrash'
               /\ \A g \in files : x \in ToSet(g.rows) => g = f
    BY <1>1, <1>6, <2>1 DEF ParquetPlaces
  <2>2. lostAtCrash' \subseteq pDelivered
    BY <1>1, <1>6 DEF ParquetPlaces
  <2>3. \A x \in pDelivered : x \in lostAtCrash' \/ \E f \in files : x \in ToSet(f.rows)
    BY <1>1, <1>6, <1>7 DEF ParquetPlaces
  <2> QED
    BY <1>2, <1>5, <2>1, <2>2, <2>3 DEF ParquetPlaces
<1>9. ParquetRolls'
  BY <1>5 DEF ParquetRolls
<1> QED
  BY <1>4, <1>8, <1>9 DEF ParquetInv

LEMMA ParquetStep == ParquetInv /\ [ParquetNext]_pVars => ParquetInv'
<1> SUFFICES ASSUME ParquetInv, [ParquetNext]_pVars PROVE ParquetInv'
  OBVIOUS
<1>0. ParquetType /\ Rest \in ResumeAt /\ ResumeAt \subseteq ParquetAt
  BY DEF ParquetInv, ResumeAt, ParquetAt
<1>k. \A p \in Procs : pWork[p].pc = "check" => pWork[p].key \in Keys
  BY <1>0 DEF ParquetType, ParquetAt, ResumeAt, Rest
<1>d. \A p \in Procs : pWork[p].pc = "drain" => pWork[p] \in [pc : {"drain"}, keys : SUBSET Keys]
  BY <1>0 DEF ParquetType, ParquetAt, ResumeAt, Rest
<1>w. \A p \in Procs : pWork[p].pc \in {"write", "rename"} =>
        pWork[p] \in [pc : {"write", "rename"}, key : Keys, id : Nat \X Nat, then : ResumeAt]
  BY <1>0 DEF ParquetType, ParquetAt, ResumeAt, Rest
<1>c. counter \in Nat \X Nat
  BY <1>0 DEF ParquetType
<1>1. ASSUME NEW p \in Procs, NEW aged \in BOOLEAN, MaybeFlush(p, aged) PROVE ParquetInv'
  <2> DEFINE k == pWork[p].key
             due == bytes_estimate[k] >= RollBytes \/ aged
  <2>1. /\ pWork[p].pc = "check" /\ UNCHANGED <<bufs, bytes_estimate, files, lostAtCrash, pDelivered>>
        /\ \/ due /\ StartRoll(p, k, Rest)
           \/ ~due /\ pWork' = [pWork EXCEPT ![p] = Rest] /\ UNCHANGED <<counter, stuck>>
    BY <1>1 DEF MaybeFlush
  <2>2. CASE due /\ StartRoll(p, k, Rest)
    BY <1>0, <1>k, <2>1, <2>2, StartRollKeeps
  <2>3. CASE ~due /\ pWork' = [pWork EXCEPT ![p] = Rest] /\ UNCHANGED <<counter, stuck>>
    BY <1>0, <1>c, <2>1, <2>3, CallersMove
  <2> QED
    BY <2>1, <2>2, <2>3
<1>2. ASSUME NEW p \in Procs, DrainAll(p) PROVE ParquetInv'
  <2> DEFINE w == [pc |-> "drain", keys |-> {k \in Keys : bufs[k] # <<>>}]
  <2>1. /\ pWork[p].pc = "idle" /\ pWork' = [pWork EXCEPT ![p] = w]
        /\ UNCHANGED <<bufs, bytes_estimate, files, lostAtCrash, pDelivered, counter, stuck>>
    BY <1>2 DEF DrainAll, Rest
  <2>2. w \in ParquetAt
    BY DEF ParquetAt, ResumeAt
  <2> HIDE DEF w
  <2> QED
    BY <1>c, <2>1, <2>2, CallersMove
<1>3. ASSUME NEW p \in Procs, NEW k \in Keys, DrainNext(p, k) PROVE ParquetInv'
  <2> DEFINE w == [pWork[p] EXCEPT !.keys = @ \ {k}]
  <2>1. /\ pWork[p].pc = "drain" /\ StartRoll(p, k, w)
        /\ UNCHANGED <<bufs, bytes_estimate, files, lostAtCrash, pDelivered>>
    BY <1>3 DEF DrainNext
  <2>2. w \in [pc : {"drain"}, keys : SUBSET Keys]
    BY <1>d, <2>1
  <2>3. w \in ResumeAt
    BY <2>2 DEF ResumeAt
  <2> HIDE DEF w
  <2> QED
    BY <2>1, <2>3, StartRollKeeps
<1>4. ASSUME NEW p \in Procs, Drained(p) PROVE ParquetInv'
  <2>1. /\ pWork[p].pc = "drain" /\ pWork' = [pWork EXCEPT ![p] = Rest]
        /\ UNCHANGED <<bufs, bytes_estimate, files, lostAtCrash, pDelivered, counter, stuck>>
    BY <1>4 DEF Drained
  <2> QED
    BY <1>0, <1>c, <2>1, CallersMove
<1>5. ASSUME NEW p \in Procs, WriteTmp(p) PROVE ParquetInv'
  <2> DEFINE w == [pWork[p] EXCEPT !.pc = "rename"]
  <2>1. /\ pWork[p].pc = "write" /\ pWork' = [pWork EXCEPT ![p] = w]
        /\ UNCHANGED <<bufs, bytes_estimate, files, lostAtCrash, pDelivered, counter, stuck>>
    BY <1>0, <1>5 DEF WriteTmp, ParquetType
  <2>2. w \in [pc : {"write", "rename"}, key : Keys, id : Nat \X Nat, then : ResumeAt]
        /\ w.pc = "rename" /\ w.key = pWork[p].key
    BY <1>w, <2>1
  <2>3. w \in ParquetAt
    BY <2>2 DEF ParquetAt
  <2> HIDE DEF w
  <2> QED
    BY <1>c, <2>1, <2>2, <2>3, CallersMove
<1>6. ASSUME NEW p \in Procs, RollFails(p) PROVE ParquetInv'
  <2> DEFINE w == pWork[p].then
  <2>1. /\ pWork[p].pc \in {"write", "rename"} /\ pWork' = [pWork EXCEPT ![p] = w]
        /\ stuck' = stuck \cup {pWork[p].key}
        /\ UNCHANGED <<bufs, bytes_estimate, files, lostAtCrash, pDelivered, counter>>
    BY <1>6 DEF RollFails
  <2>2. w \in ParquetAt
    BY <1>0, <1>w, <2>1
  <2> HIDE DEF w
  <2> QED
    BY <1>c, <2>1, <2>2, CallersMove
<1>7. CASE UNCHANGED pVars
  BY <1>7 DEF pVars, ParquetInv, ParquetType, ParquetPlaces, ParquetRolls
<1> QED
  BY <1>1, <1>2, <1>3, <1>4, <1>5, <1>6, <1>7, AppendKeeps, RenameKeepsRows, RestartKeeps DEF ParquetNext

LEMMA ParquetFollows == ParquetInv => ParquetTracked /\ ParquetOnce
<1> SUFFICES ASSUME ParquetInv PROVE ParquetTracked /\ ParquetOnce
  OBVIOUS
<1>1. ParquetType /\ ParquetPlaces
  BY DEF ParquetInv
<1>2. ParquetTracked
  <2> SUFFICES ASSUME NEW e \in Envs, ParquetLedger[e] = "held" PROVE e \in ToSet(bufs[PartOf[e]])
    BY DEF ParquetTracked
  <2>1. e \in pDelivered /\ Stored(e) = {} /\ e \notin lostAtCrash
    BY DEF ParquetLedger
  <2> QED
    BY <1>1, <2>1 DEF ParquetPlaces, Stored
<1>3. ASSUME NEW e \in Envs PROVE Cardinality(Stored(e)) <= 1
  <2>1. CASE Stored(e) = {}
    BY <2>1, FS_EmptySet
  <2>2. ASSUME NEW f \in Stored(e) PROVE Cardinality(Stored(e)) <= 1
    <3>1. Stored(e) = {f}
      BY <1>1, <2>2 DEF Stored, ParquetPlaces
    <3>2. Cardinality(Stored(e)) = 1
      BY <3>1, FS_Singleton
    <3> QED
      BY <3>2
  <2> QED
    BY <2>1, <2>2
<1>4. ASSUME NEW e \in Envs, NEW f \in Stored(e)
      PROVE  /\ f.key = PartOf[e] /\ Cardinality({i \in DOMAIN f.rows : f.rows[i] = e}) = 1
             /\ e \notin ToSet(bufs[PartOf[e]])
  <2>1. f \in files /\ e \in ToSet(f.rows)
    BY <1>4 DEF Stored
  <2>2. f.rows \in Seq(Envs) /\ IsInjective(f.rows)
    BY <1>1, <2>1 DEF ParquetType
  <2>3. PICK i \in DOMAIN f.rows : f.rows[i] = e
    BY <2>1 DEF ToSet
  <2>4. {j \in DOMAIN f.rows : f.rows[j] = e} = {i}
    BY <2>2, <2>3 DEF IsInjective
  <2>5. Cardinality({j \in DOMAIN f.rows : f.rows[j] = e}) = 1
    BY <2>4, FS_Singleton
  <2>6. PartOf[e] \in Keys
    BY DEF Keys
  <2> QED
    BY <1>1, <2>1, <2>5, <2>6 DEF ParquetPlaces
<1>5. ParquetOnce
  BY <1>3, <1>4 DEF ParquetOnce
<1> QED
  BY <1>2, <1>5

LEMMA ClickHouseFollows == ClickHouseInv => ClickHouseTracked
<1> SUFFICES ASSUME ClickHouseInv PROVE ClickHouseTracked
  OBVIOUS
<1>1. Apart(cDelivered, ToSet(rows), Calls, acked, givenUp) /\ ClickHouseType
  BY DEF ClickHouseInv
<1> SUFFICES ASSUME NEW e \in Envs, ClickHouseLedger[e] = "held"
             PROVE  e \in ToSet(rows) \/ \E p \in Procs : e \in ToSet(cWork[p].batch)
  BY DEF ClickHouseTracked
<1>2. e \in cDelivered /\ e \notin acked /\ e \notin givenUp
  BY DEF ClickHouseLedger
<1>3. e \in ToSet(rows) \/ \E p \in Procs : e \in Calls[p]
  BY <1>1, <1>2 DEF Apart
<1> QED
  BY <1>1, <1>3, CallsAre DEF ClickHouseType

-------------------------------------------------------------------------------
(* OTLP: an envelope is in the batch, in the tracker, in a call or in a      *)
(* payload of the retry queue, and what it went through follows from that.   *)

InCall == {"project", "classified", "export"}
CallAt == [pc : InCall, todo : Seq(Envs), out : SUBSET Envs, closing : BOOLEAN, first : BOOLEAN]
OtlpAt == {Idle} \cup [pc : {"retry"}] \cup [pc : {"again"}, out : SUBSET Envs] \cup CallAt

(* What a caller carries. *)
Carried(w) ==
    IF w.pc \in InCall THEN ToSet(w.todo) \cup w.out
    ELSE IF w.pc = "again" THEN w.out ELSE {}
OtlpCalls == [p \in Procs |-> Carried(oWork[p])]

Tracker == {pending[s] : s \in Spans} \ {None}
Queue == UNION ToSet(retry)

(* A batch is projected envelope by envelope, logs and metrics at once. *)
CallShape(w) == w.pc \in InCall =>
    /\ IsInjective(w.todo) /\ ToSet(w.todo) \cap w.out = {}
    /\ w.pc = "classified" => signal = "traces" /\ w.todo # <<>>
    /\ w.pc = "export" => w.todo = <<>>
    /\ signal # "traces" => w.todo = <<>> \/ w.out = {}

OtlpData ==
    /\ items \in Seq(Envs) /\ IsInjective(items)
    /\ pending \in [Spans -> Envs \cup {None}]
    /\ \A s \in Spans : pending[s] # None => SpanOf[pending[s]] = s
    /\ retry \in Seq(SUBSET Envs)
    /\ \A i, j \in 1..Len(retry) : i # j => retry[i] \cap retry[j] = {}
    /\ exported \in [Envs -> Nat] /\ unanswered \in SUBSET Envs
    /\ gone \in [Causes -> SUBSET Envs] /\ oDelivered \in SUBSET Envs

OtlpWork == oWork \in [Procs -> OtlpAt] /\ \A p \in Procs : CallShape(oWork[p])

(* D: delivered, I: the batch, P: the tracker, R: the queue, C: the calls. *)
Spread(D, I, P, R, C) ==
    /\ I \subseteq D /\ P \subseteq D /\ R \subseteq D /\ \A p \in Procs : C[p] \subseteq D
    /\ \A e \in I : e \notin P /\ e \notin R /\ \A p \in Procs : e \notin C[p]
    /\ \A e \in P : e \notin R /\ \A p \in Procs : e \notin C[p]
    /\ \A e \in R : \A p \in Procs : e \notin C[p]
    /\ \A p, q \in Procs : p # q => \A e \in C[p] : e \notin C[q]

Held(I, P, R, C) == I \cup P \cup R \cup UNION {C[p] : p \in Procs}

(* H: held, X: exported, U: unanswered, G: gone. *)
Fate(D, H, X, U, G) == \A e \in Envs :
    /\ e \notin D => e \notin H /\ X[e] = 0 /\ e \notin U /\ \A c \in Causes : e \notin G[c]
    /\ e \in H => X[e] = (IF e \in U THEN 1 ELSE 0) /\ \A c \in Causes : e \notin G[c]
    /\ e \in D /\ e \notin H =>
         \/ /\ X[e] = 0 /\ e \notin U
            /\ \E c \in Causes : e \in G[c] /\ \A d \in Causes : e \in G[d] => d = c
         \/ /\ X[e] > 0 /\ X[e] <= (IF e \in U THEN 2 ELSE 1)
            /\ \A c \in Causes : e \notin G[c]

(* An envelope whose answer was lost waits for shutdown(), or is done with; *)
(* only a network exporter loses answers.                                   *)
AnswersLost ==
    /\ unanswered # {} => exporter = "grpc"
    /\ \A e \in unanswered :
         /\ e \notin ToSet(items) /\ e \notin Tracker
         /\ \A p \in Procs : oWork[p].pc \in InCall => e \notin OtlpCalls[p]

(* While a shutdown is undisturbed it is the only call. *)
Alone == quiet =>
    /\ items = <<>>
    /\ \E p \in Procs :
         /\ \A q \in Procs : q # p => oWork[q] = Idle
         /\ oWork[p].pc \in InCall => oWork[p].closing
         /\ oWork[p] = Idle => retry = <<>>

OtlpInv ==
    /\ OtlpData /\ OtlpWork
    /\ Spread(oDelivered, ToSet(items), Tracker, Queue, OtlpCalls)
    /\ Fate(oDelivered, Held(ToSet(items), Tracker, Queue, OtlpCalls), exported, unanswered, gone)
    /\ AnswersLost
    /\ Alone

(* The ways an envelope, a batch or a payload goes from one place to the next. *)
LEMMA SpreadMoves ==
    ASSUME NEW D, NEW I, NEW P, NEW R, NEW C, Spread(D, I, P, R, C),
           NEW p \in Procs, NEW B, \A q \in Procs : q # p => B[q] = C[q]
    PROVE  /\ \A e : e \notin D /\ B[p] = C[p] => Spread(D \cup {e}, I \cup {e}, P, R, B)
           /\ \A e : e \notin D /\ C[p] = {} /\ B[p] = I \cup {e} => Spread(D \cup {e}, {}, P, R, B)
           /\ C[p] = {} /\ B[p] = I => Spread(D, {}, P, R, B)
           /\ \A h \in C[p] : \A Q : Q \subseteq P /\ B[p] = C[p] \ {h} => Spread(D, I, (P \ Q) \cup {h}, R, B)
           /\ B[p] \subseteq C[p] => Spread(D, I, P, R, B)
           /\ \A Q : Q \subseteq P /\ B[p] = C[p] \cup Q => Spread(D, I, P \ Q, R, B)
           /\ \A Q : B[p] = C[p] => Spread(D, I, P \ Q, R, B)
           /\ B[p] = {} => Spread(D, I, P, R \cup C[p], B)
           /\ \A Q : Q \subseteq R /\ C[p] = {} /\ B[p] = Q => Spread(D, I, P, R \ Q, B)
<1>1. ASSUME NEW e, e \notin D, B[p] = C[p] PROVE Spread(D \cup {e}, I \cup {e}, P, R, B)
  <2>1. \A q \in Procs : B[q] = C[q]
    BY <1>1
  <2> QED
    BY <1>1, <2>1 DEF Spread
<1>2. ASSUME NEW e, e \notin D, C[p] = {}, B[p] = I \cup {e} PROVE Spread(D \cup {e}, {}, P, R, B)
  BY <1>2 DEF Spread
<1>3. ASSUME C[p] = {}, B[p] = I PROVE Spread(D, {}, P, R, B)
  BY <1>3 DEF Spread
<1>4. ASSUME NEW h \in C[p], NEW Q, Q \subseteq P, B[p] = C[p] \ {h}
      PROVE  Spread(D, I, (P \ Q) \cup {h}, R, B)
  BY <1>4 DEF Spread
<1>5. ASSUME B[p] \subseteq C[p] PROVE Spread(D, I, P, R, B)
  BY <1>5 DEF Spread
<1>6. ASSUME NEW Q, Q \subseteq P, B[p] = C[p] \cup Q PROVE Spread(D, I, P \ Q, R, B)
  BY <1>6 DEF Spread
<1>7. ASSUME NEW Q, B[p] = C[p] PROVE Spread(D, I, P \ Q, R, B)
  <2>1. \A q \in Procs : B[q] = C[q]
    BY <1>7
  <2> QED
    BY <2>1 DEF Spread
<1>8. ASSUME B[p] = {} PROVE Spread(D, I, P, R \cup C[p], B)
  BY <1>8 DEF Spread
<1>9. ASSUME NEW Q, Q \subseteq R, C[p] = {}, B[p] = Q PROVE Spread(D, I, P, R \ Q, B)
  BY <1>9 DEF Spread
<1> QED
  BY <1>1, <1>2, <1>3, <1>4, <1>5, <1>6, <1>7, <1>8, <1>9

LEMMA HeldIs ==
    \A I, P, R, C : \A e : e \in Held(I, P, R, C) <=>
        e \in I \/ e \in P \/ e \in R \/ \E p \in Procs : e \in C[p]
BY DEF Held

(* What the same moves do to what is held. *)
LEMMA HeldMoves ==
    ASSUME NEW D, NEW I, NEW P, NEW R, NEW C, Spread(D, I, P, R, C),
           NEW p \in Procs, NEW B, \A q \in Procs : q # p => B[q] = C[q]
    PROVE  /\ \A e : B[p] = C[p] => Held(I \cup {e}, P, R, B) = Held(I, P, R, C) \cup {e}
           /\ \A e : C[p] = {} /\ B[p] = I \cup {e} => Held({}, P, R, B) = Held(I, P, R, C) \cup {e}
           /\ C[p] = {} /\ B[p] = I => Held({}, P, R, B) = Held(I, P, R, C)
           /\ \A h \in C[p] : \A Q : Q \subseteq P /\ B[p] = C[p] \ {h} =>
                Held(I, (P \ Q) \cup {h}, R, B) = Held(I, P, R, C) \ Q
           /\ B[p] \subseteq C[p] => Held(I, P, R, B) = Held(I, P, R, C) \ (C[p] \ B[p])
           /\ \A Q : Q \subseteq P /\ B[p] = C[p] \cup Q => Held(I, P \ Q, R, B) = Held(I, P, R, C)
           /\ \A Q : Q \subseteq P /\ B[p] = C[p] => Held(I, P \ Q, R, B) = Held(I, P, R, C) \ Q
           /\ B[p] = {} => Held(I, P, R \cup C[p], B) = Held(I, P, R, C)
           /\ \A Q : Q \subseteq R /\ C[p] = {} /\ B[p] = Q => Held(I, P, R \ Q, B) = Held(I, P, R, C)
<1> USE HeldIs
<1>1. ASSUME NEW e, B[p] = C[p] PROVE Held(I \cup {e}, P, R, B) = Held(I, P, R, C) \cup {e}
  <2>1. \A q \in Procs : B[q] = C[q]
    BY <1>1
  <2> QED
    BY <2>1
<1>2. ASSUME NEW e, C[p] = {}, B[p] = I \cup {e} PROVE Held({}, P, R, B) = Held(I, P, R, C) \cup {e}
  BY <1>2
<1>3. ASSUME C[p] = {}, B[p] = I PROVE Held({}, P, R, B) = Held(I, P, R, C)
  <2>1. \A e : e \in Held({}, P, R, B) <=> e \in Held(I, P, R, C)
    BY <1>3
  <2> QED
    BY <2>1
<1>4. ASSUME NEW h \in C[p], NEW Q, Q \subseteq P, B[p] = C[p] \ {h}
      PROVE  Held(I, (P \ Q) \cup {h}, R, B) = Held(I, P, R, C) \ Q
  BY <1>4 DEF Spread
<1>5. ASSUME B[p] \subseteq C[p] PROVE Held(I, P, R, B) = Held(I, P, R, C) \ (C[p] \ B[p])
  BY <1>5 DEF Spread
<1>6. ASSUME NEW Q, Q \subseteq P, B[p] = C[p] \cup Q PROVE Held(I, P \ Q, R, B) = Held(I, P, R, C)
  <2>1. \A e : e \in Held(I, P \ Q, R, B) <=> e \in Held(I, P, R, C)
    BY <1>6
  <2> QED
    BY <2>1
<1>7. ASSUME NEW Q, Q \subseteq P, B[p] = C[p] PROVE Held(I, P \ Q, R, B) = Held(I, P, R, C) \ Q
  <2>1. \A q \in Procs : B[q] = C[q]
    BY <1>7
  <2> QED
    BY <1>7, <2>1 DEF Spread
<1>8. ASSUME B[p] = {} PROVE Held(I, P, R \cup C[p], B) = Held(I, P, R, C)
  <2>1. \A e : e \in Held(I, P, R \cup C[p], B) <=> e \in Held(I, P, R, C)
    BY <1>8
  <2> QED
    BY <2>1
<1>9. ASSUME NEW Q, Q \subseteq R, C[p] = {}, B[p] = Q PROVE Held(I, P, R \ Q, B) = Held(I, P, R, C)
  <2>1. \A e : e \in Held(I, P, R \ Q, B) <=> e \in Held(I, P, R, C)
    BY <1>9
  <2> QED
    BY <2>1
<1> QED
  BY <1>1, <1>2, <1>3, <1>4, <1>5, <1>6, <1>7, <1>8, <1>9

(* Where an envelope stands, and how DeliveryLedger lets it move. *)
Stand(D, X, G) == [e \in Envs |->
    IF e \notin D THEN "new"
    ELSE IF X[e] > 0 THEN "sent"
    ELSE IF \E c \in Causes : e \in G[c] THEN "lost" ELSE "held"]

LedgerMoves(l, m) ==
    \/ m = l
    \/ \E e \in Envs : l[e] = "new" /\ m = [f \in Envs |-> IF f = e THEN "held" ELSE l[f]]
    \/ \E S \in SUBSET Envs :
         /\ \A e \in S : l[e] = "held"
         /\ \/ m = [f \in Envs |-> IF f \in S THEN "sent" ELSE l[f]]
            \/ m = [f \in Envs |-> IF f \in S THEN "lost" ELSE l[f]]

More(X, S) == [e \in Envs |-> X[e] + IF e \in S THEN 1 ELSE 0]

(* Acceptance, a loss, an export, an export whose answer was lost and a      *)
(* second attempt that fails, as they change what an envelope went through.  *)
LEMMA FateMoves ==
    ASSUME NEW D \in SUBSET Envs, NEW H, NEW X \in [Envs -> Nat], NEW U \in SUBSET Envs,
           NEW G \in [Causes -> SUBSET Envs], Fate(D, H, X, U, G)
    PROVE  /\ \A e \in Envs : e \notin D =>
                /\ Fate(D \cup {e}, H \cup {e}, X, U, G)
                /\ LedgerMoves(Stand(D, X, G), Stand(D \cup {e}, X, G))
           /\ \A M \in SUBSET Envs, c \in Causes : M \subseteq H =>
                /\ Fate(D, H \ M, X, U, [G EXCEPT ![c] = @ \cup (M \ U)])
                /\ LedgerMoves(Stand(D, X, G), Stand(D, X, [G EXCEPT ![c] = @ \cup (M \ U)]))
           /\ \A M \in SUBSET Envs : M \subseteq H =>
                /\ Fate(D, H \ M, More(X, M), U, G)
                /\ LedgerMoves(Stand(D, X, G), Stand(D, More(X, M), G))
           /\ \A M \in SUBSET Envs : M \subseteq H /\ M \cap U = {} =>
                /\ Fate(D, H, More(X, M), U \cup M, G) /\ Fate(D, H \ M, More(X, M), U \cup M, G)
<1>0. \A e \in Envs : X[e] \in Nat
  OBVIOUS
<1>1. ASSUME NEW e \in Envs, e \notin D
      PROVE  Fate(D \cup {e}, H \cup {e}, X, U, G)
             /\ LedgerMoves(Stand(D, X, G), Stand(D \cup {e}, X, G))
  <2>1. Fate(D \cup {e}, H \cup {e}, X, U, G)
    BY <1>0, <1>1 DEF Fate
  <2>2. X[e] = 0 /\ \A c \in Causes : e \notin G[c]
    BY <1>1 DEF Fate
  <2> DEFINE l == Stand(D, X, G)
             m == Stand(D \cup {e}, X, G)
  <2>3. l[e] = "new" /\ m = [f \in Envs |-> IF f = e THEN "held" ELSE l[f]]
    <3>1. \A f \in Envs : m[f] = IF f = e THEN "held" ELSE l[f]
      BY <1>1, <2>2 DEF Stand
    <3>2. m = [f \in Envs |-> m[f]]
      BY DEF Stand
    <3> QED
      BY <1>1, <3>1, <3>2 DEF Stand
  <2> QED
    BY <2>1, <2>3 DEF LedgerMoves
<1>2. ASSUME NEW M \in SUBSET Envs, NEW c \in Causes, M \subseteq H
      PROVE  /\ Fate(D, H \ M, X, U, [G EXCEPT ![c] = @ \cup (M \ U)])
             /\ LedgerMoves(Stand(D, X, G), Stand(D, X, [G EXCEPT ![c] = @ \cup (M \ U)]))
  <2> DEFINE F == [G EXCEPT ![c] = @ \cup (M \ U)]
             l == Stand(D, X, G)
             m == Stand(D, X, F)
             S == M \ U
  <2>1. /\ \A d \in Causes, e \in Envs : e \in F[d] <=> e \in G[d] \/ (d = c /\ e \in S)
        /\ \A e \in S : \A d \in Causes : e \notin G[d]
    BY <1>2 DEF Fate
  <2> HIDE DEF F
  <2>2. Fate(D, H \ M, X, U, F)
    BY <1>0, <1>2, <2>1 DEF Fate
  <2>3. \A e \in S : e \in D /\ X[e] = 0
    BY <1>2 DEF Fate
  <2>4. \A e \in S : l[e] = "held"
    BY <2>1, <2>3 DEF Stand
  <2>5. m = [f \in Envs |-> IF f \in S THEN "lost" ELSE l[f]]
    <3>1. \A f \in Envs : m[f] = IF f \in S THEN "lost" ELSE l[f]
      BY <2>1, <2>3 DEF Stand
    <3>2. m = [f \in Envs |-> m[f]]
      BY DEF Stand
    <3> QED
      BY <3>1, <3>2
  <2> QED
    BY <2>2, <2>4, <2>5 DEF LedgerMoves, F
<1>3. ASSUME NEW M \in SUBSET Envs, M \subseteq H
      PROVE  /\ Fate(D, H \ M, More(X, M), U, G)
             /\ LedgerMoves(Stand(D, X, G), Stand(D, More(X, M), G))
  <2> DEFINE Y == More(X, M)
             l == Stand(D, X, G)
             m == Stand(D, Y, G)
             S == {e \in M : X[e] = 0}
  <2>1. \A e \in Envs : Y[e] = IF e \in M THEN X[e] + 1 ELSE X[e]
    BY <1>0 DEF More
  <2> HIDE DEF Y
  <2>2. Fate(D, H \ M, Y, U, G)
    BY <1>0, <1>3, <2>1 DEF Fate
  <2>3. \A e \in M : e \in D /\ \A d \in Causes : e \notin G[d]
    BY <1>3 DEF Fate
  <2>4. \A e \in S : l[e] = "held"
    BY <2>3 DEF Stand
  <2>5. m = [f \in Envs |-> IF f \in S THEN "sent" ELSE l[f]]
    <3>1. \A f \in Envs : m[f] = IF f \in S THEN "sent" ELSE l[f]
      BY <1>0, <2>1, <2>3 DEF Stand
    <3>2. m = [f \in Envs |-> m[f]]
      BY DEF Stand
    <3> QED
      BY <3>1, <3>2
  <2> QED
    BY <2>2, <2>4, <2>5 DEF LedgerMoves, Y
<1>4. ASSUME NEW M \in SUBSET Envs, M \subseteq H, M \cap U = {}
      PROVE  Fate(D, H, More(X, M), U \cup M, G) /\ Fate(D, H \ M, More(X, M), U \cup M, G)
  <2> DEFINE Y == More(X, M)
  <2>1. \A e \in Envs : Y[e] = IF e \in M THEN X[e] + 1 ELSE X[e]
    BY <1>0 DEF More
  <2> HIDE DEF Y
  <2>2. Fate(D, H, Y, U \cup M, G) /\ Fate(D, H \ M, Y, U \cup M, G)
    BY <1>0, <1>4, <2>1 DEF Fate
  <2> QED
    BY <2>2 DEF Y
<1> QED
  BY <1>1, <1>2, <1>3, <1>4

LEMMA StandIs == OtlpLedger = Stand(oDelivered, exported, gone)
                 /\ OtlpLedger' = Stand(oDelivered', exported', gone')
BY DEF OtlpLedger, Stand

LEMMA CarriedIs ==
    /\ Idle \in OtlpAt /\ CallShape(Idle) /\ Carried(Idle) = {} /\ Idle.pc = "idle"
    /\ [pc |-> "retry"] \in OtlpAt /\ CallShape([pc |-> "retry"]) /\ Carried([pc |-> "retry"]) = {}
    /\ \A w \in OtlpAt :
         /\ w.pc \in InCall => w \in CallAt /\ Carried(w) = ToSet(w.todo) \cup w.out
         /\ w.pc = "again" => w \in [pc : {"again"}, out : SUBSET Envs] /\ Carried(w) = w.out
         /\ w.pc = "retry" => Carried(w) = {}
BY DEF OtlpAt, CallAt, InCall, Carried, CallShape, Idle

LEMMA OtlpStart == OtlpInit => OtlpInv
<1> SUFFICES ASSUME OtlpInit PROVE OtlpInv
  OBVIOUS
<1> USE DEF OtlpInit
<1>1. OtlpData
  <2>1. pending \in [Spans -> Envs \cup {None}] /\ (\A s \in Spans : pending[s] = None)
        /\ retry \in Seq(SUBSET Envs) /\ Len(retry) = 0
    OBVIOUS
  <2> QED
    BY <2>1, ToSetFacts DEF OtlpData
<1>2. OtlpWork
  BY CarriedIs DEF OtlpWork
<1>3. ToSet(items) = {} /\ Tracker = {} /\ Queue = {} /\ \A p \in Procs : OtlpCalls[p] = {}
  BY ToSetFacts, CarriedIs DEF Tracker, Queue, OtlpCalls
<1>4. Held(ToSet(items), Tracker, Queue, OtlpCalls) = {}
  BY <1>3, HeldIs
<1>5. Spread(oDelivered, ToSet(items), Tracker, Queue, OtlpCalls)
  BY <1>3 DEF Spread
<1>6. Fate(oDelivered, Held(ToSet(items), Tracker, Queue, OtlpCalls), exported, unanswered, gone)
  BY <1>4 DEF Fate
<1>7. AnswersLost /\ Alone
  BY DEF AnswersLost, Alone
<1> QED
  BY <1>1, <1>2, <1>5, <1>6, <1>7 DEF OtlpInv

(* A caller that moves leaves the others where they are. *)
LEMMA CallMoves ==
    ASSUME OtlpWork, NEW p \in Procs, NEW w \in OtlpAt, CallShape(w),
           oWork' = [oWork EXCEPT ![p] = w], signal' = signal
    PROVE  /\ OtlpWork' /\ oWork'[p] = w /\ OtlpCalls'[p] = Carried(w)
           /\ OtlpCalls[p] = Carried(oWork[p])
           /\ \A q \in Procs : q # p => oWork'[q] = oWork[q] /\ OtlpCalls'[q] = OtlpCalls[q]
<1>1. oWork' \in [Procs -> OtlpAt] /\ oWork'[p] = w /\ \A q \in Procs : q # p => oWork'[q] = oWork[q]
  BY DEF OtlpWork
<1>2. \A q \in Procs : CallShape(oWork'[q])
  BY <1>1 DEF OtlpWork
<1>3. OtlpWork'
  BY <1>1, <1>2 DEF OtlpWork, CallShape
<1> QED
  BY <1>1, <1>3 DEF OtlpCalls

LEMMA DeliverKeeps ==
    ASSUME OtlpInv, NEW p \in Procs, NEW e \in Envs, NEW aged \in BOOLEAN, Deliver(p, e, aged)
    PROVE  OtlpInv' /\ LedgerMoves(OtlpLedger, OtlpLedger')
<1> DEFINE all == Append(items, e)
           full == Len(items) + 1 >= MaxRecords \/ aged
           w == IF full THEN Busy(all, FALSE) ELSE Idle
           D == oDelivered
           I == ToSet(items)
           C == OtlpCalls
           H == Held(I, Tracker, Queue, C)
<1>1. /\ OtlpData /\ OtlpWork /\ Spread(D, I, Tracker, Queue, C)
      /\ Fate(D, H, exported, unanswered, gone) /\ AnswersLost
  BY DEF OtlpInv
<1>a. items \in Seq(Envs) /\ IsInjective(items)
  BY <1>1 DEF OtlpData
<1>d. /\ exported \in [Envs -> Nat] /\ unanswered \in SUBSET Envs
      /\ gone \in [Causes -> SUBSET Envs] /\ D \in SUBSET Envs
  BY <1>1 DEF OtlpData
<1>2. all \in Seq(Envs) /\ all # <<>> /\ ToSet(all) = I \cup {e}
  BY <1>a, ToSetFacts
<1>3. /\ oWork[p] = Idle /\ e \notin D /\ D' = D \cup {e} /\ quiet' = FALSE
      /\ items' = (IF full THEN <<>> ELSE all) /\ oWork' = [oWork EXCEPT ![p] = w]
      /\ UNCHANGED <<signal, exporter, pending, retry, overflow, exported, unanswered, gone>>
  <2>1. /\ oWork[p] = Idle /\ e \notin D /\ D' = D \cup {e} /\ quiet' = FALSE
        /\ items' = Push(e, aged).left
        /\ oWork' = [oWork EXCEPT ![p] = IF Push(e, aged).out = <<>> THEN Idle ELSE Busy(Push(e, aged).out, FALSE)]
        /\ UNCHANGED <<signal, exporter, pending, retry, overflow, exported, unanswered, gone>>
    BY DEF Deliver
  <2>2. Push(e, aged) = IF full THEN [left |-> <<>>, out |-> all] ELSE [left |-> all, out |-> <<>>]
    BY DEF Push
  <2>n. all # <<>>
    BY <1>2
  <2> HIDE DEF all, full
  <2>3. /\ Push(e, aged).left = (IF full THEN <<>> ELSE all)
        /\ (IF Push(e, aged).out = <<>> THEN Idle ELSE Busy(Push(e, aged).out, FALSE)) = w
    <3>1. CASE full
      BY <2>n, <2>2, <3>1
    <3>2. CASE ~full
      BY <2>2, <3>2
    <3> QED
      BY <3>1, <3>2
  <2> QED
    BY <2>1, <2>3
<1> HIDE DEF full
<1>4. e \notin I
  BY <1>1, <1>3 DEF Spread
<1>5. IsInjective(all)
  BY <1>4, <1>a, ToSetFacts
<1> HIDE DEF all
<1>6. w \in OtlpAt /\ CallShape(w) /\ Carried(w) = IF full THEN I \cup {e} ELSE {}
  <2>1. Busy(all, FALSE) \in CallAt /\ Busy(all, FALSE).pc = "project"
        /\ Busy(all, FALSE).todo = all /\ Busy(all, FALSE).out = {}
    BY <1>2 DEF Busy, CallAt, InCall
  <2>2. Busy(all, FALSE) \in OtlpAt /\ CallShape(Busy(all, FALSE)) /\ Carried(Busy(all, FALSE)) = I \cup {e}
    BY <1>2, <1>5, <2>1 DEF OtlpAt, CallShape, Carried, InCall
  <2> QED
    BY <2>2, CarriedIs
<1> HIDE DEF w
<1>7. /\ OtlpWork' /\ C'[p] = Carried(w) /\ C[p] = {} /\ oWork'[p] = w
      /\ \A q \in Procs : q # p => oWork'[q] = oWork[q] /\ C'[q] = C[q]
  BY <1>1, <1>3, <1>6, CallMoves, CarriedIs
<1>8. Tracker' = Tracker /\ Queue' = Queue
  BY <1>3 DEF Tracker, Queue
<1>9. ToSet(items') = IF full THEN {} ELSE I \cup {e}
  BY <1>2, <1>3, ToSetFacts
<1>10. OtlpData'
  BY <1>1, <1>2, <1>3, <1>5, ToSetFacts DEF OtlpData
<1>11. /\ Spread(D', ToSet(items'), Tracker', Queue', C')
       /\ Held(ToSet(items'), Tracker', Queue', C') = H \cup {e}
  <2> DEFINE B == C'
             T == Tracker
             Q == Queue
  <2>1. Spread(D, I, T, Q, C) /\ C[p] = {} /\ e \notin D
        /\ (\A q \in Procs : q # p => B[q] = C[q])
        /\ B[p] = IF full THEN I \cup {e} ELSE {}
    BY <1>1, <1>3, <1>6, <1>7
  <2> HIDE DEF B, T, Q, I, D, C
  <2>2. CASE full
    <3>1. Spread(D \cup {e}, {}, T, Q, B)
      BY ONLY <2>1, <2>2, p \in Procs, SpreadMoves
    <3>2. Held({}, T, Q, B) = Held(I, T, Q, C) \cup {e}
      BY ONLY <2>1, <2>2, p \in Procs, HeldMoves
    <3> QED
      BY <1>3, <1>8, <1>9, <2>2, <3>1, <3>2 DEF B, T, Q, D, I
  <2>3. CASE ~full
    <3>0. Spread(D, I, T, Q, C) /\ (\A q \in Procs : q # p => B[q] = C[q]) /\ B[p] = C[p]
      BY <2>1, <2>3
    <3>1. Spread(D \cup {e}, I \cup {e}, T, Q, B)
      BY ONLY <2>1, <3>0, p \in Procs, SpreadMoves
    <3>2. Held(I \cup {e}, T, Q, B) = Held(I, T, Q, C) \cup {e}
      <4>1. \A q \in Procs : B[q] = C[q]
        BY <3>0
      <4>2. \A x : x \in Held(I \cup {e}, T, Q, B) <=> x \in Held(I, T, Q, C) \cup {e}
        BY ONLY <4>1, HeldIs
      <4> QED
        BY <4>2
    <3> QED
      BY <1>3, <1>8, <1>9, <2>3, <3>1, <3>2 DEF B, T, Q, D, I
  <2> QED
    BY <2>2, <2>3
<1>12. /\ Fate(D', Held(ToSet(items'), Tracker', Queue', C'), exported', unanswered', gone')
       /\ LedgerMoves(OtlpLedger, OtlpLedger')
  <2>1. /\ Fate(D \cup {e}, H \cup {e}, exported, unanswered, gone)
        /\ LedgerMoves(Stand(D, exported, gone), Stand(D \cup {e}, exported, gone))
    BY ONLY <1>1, <1>3, <1>d, e \in Envs, FateMoves
  <2> QED
    BY <1>3, <1>11, <2>1, StandIs
<1>13. AnswersLost'
  <2>1. e \notin unanswered
    BY <1>1, <1>3 DEF Fate
  <2> QED
    BY <1>1, <1>3, <1>6, <1>7, <1>8, <1>9, <2>1 DEF AnswersLost
<1>14. Alone'
  BY <1>3 DEF Alone
<1> QED
  BY <1>7, <1>10, <1>11, <1>12, <1>13, <1>14 DEF OtlpInv

LEMMA FlushKeeps ==
    ASSUME OtlpInv, NEW p \in Procs, NEW closing \in BOOLEAN, FlushOtlp(p, closing)
    PROVE  OtlpInv' /\ LedgerMoves(OtlpLedger, OtlpLedger')
<1> DEFINE w == IF items # <<>> THEN Busy(items, closing)
                ELSE IF closing THEN [pc |-> "retry"] ELSE Idle
           I == ToSet(items)
           C == OtlpCalls
           H == Held(I, Tracker, Queue, C)
<1>1. /\ OtlpData /\ OtlpWork /\ Spread(oDelivered, I, Tracker, Queue, C)
      /\ Fate(oDelivered, H, exported, unanswered, gone) /\ AnswersLost
  BY DEF OtlpInv
<1>2. /\ oWork[p] = Idle /\ items' = <<>> /\ oWork' = [oWork EXCEPT ![p] = w]
      /\ quiet' = (closing /\ \A q \in Procs \ {p} : oWork[q] = Idle)
      /\ UNCHANGED <<signal, exporter, pending, retry, overflow, exported, unanswered, gone, oDelivered>>
  BY DEF FlushOtlp
<1>3. items \in Seq(Envs) /\ IsInjective(items) /\ (I = {} <=> items = <<>>)
  BY <1>1, ToSetFacts DEF OtlpData
<1>4. /\ w \in OtlpAt /\ CallShape(w) /\ Carried(w) = I
      /\ w.pc \in InCall => w.closing = closing
      /\ w = Idle => ~closing
  <2>1. CASE items # <<>>
    <3>1. w \in CallAt /\ w.pc = "project" /\ w.todo = items /\ w.out = {} /\ w.closing = closing
      BY <1>3, <2>1 DEF Busy, CallAt, InCall
    <3> HIDE DEF w
    <3>2. w \in OtlpAt /\ CallShape(w) /\ Carried(w) = I
      BY <1>3, <3>1 DEF OtlpAt, CallShape, Carried, InCall
    <3> QED
      BY <3>1, <3>2 DEF Idle
  <2>2. CASE items = <<>>
    <3>1. w = IF closing THEN [pc |-> "retry"] ELSE Idle
      BY <2>2
    <3>2. [pc |-> "retry"] # Idle /\ [pc |-> "retry"].pc \notin InCall /\ Idle.pc \notin InCall
      BY DEF Idle, InCall
    <3> HIDE DEF w
    <3> QED
      BY <1>3, <2>2, <3>1, <3>2, CarriedIs
  <2> QED
    BY <2>1, <2>2
<1> HIDE DEF w
<1>5. /\ OtlpWork' /\ C'[p] = I /\ C[p] = {} /\ oWork'[p] = w
      /\ \A q \in Procs : q # p => oWork'[q] = oWork[q] /\ C'[q] = C[q]
  BY <1>1, <1>2, <1>4, CallMoves, CarriedIs
<1>6. Tracker' = Tracker /\ Queue' = Queue /\ ToSet(items') = {}
  BY <1>2, ToSetFacts DEF Tracker, Queue
<1>7. OtlpData'
  BY <1>1, <1>2, ToSetFacts DEF OtlpData
<1>8. /\ Spread(oDelivered', ToSet(items'), Tracker', Queue', C')
      /\ Held(ToSet(items'), Tracker', Queue', C') = H
  <2> DEFINE B == C'
             T == Tracker
             Q == Queue
             D == oDelivered
  <2>1. Spread(D, I, T, Q, C) /\ C[p] = {} /\ B[p] = I /\ (\A q \in Procs : q # p => B[q] = C[q])
    BY <1>1, <1>5
  <2> HIDE DEF B, T, Q, I, D, C
  <2>2. Spread(D, {}, T, Q, B)
    BY ONLY <2>1, p \in Procs, SpreadMoves
  <2>3. \A e : e \in Held({}, T, Q, B) <=> e \in Held(I, T, Q, C)
    BY ONLY <2>1, p \in Procs, HeldIs
  <2> QED
    BY <1>2, <1>6, <2>2, <2>3 DEF B, T, Q, D
<1>9. /\ Fate(oDelivered', Held(ToSet(items'), Tracker', Queue', C'), exported', unanswered', gone')
      /\ LedgerMoves(OtlpLedger, OtlpLedger')
  BY <1>1, <1>2, <1>8, StandIs DEF LedgerMoves
<1>10. AnswersLost'
  BY <1>1, <1>2, <1>5, <1>6 DEF AnswersLost
<1>11. Alone'
  BY <1>2, <1>4, <1>5 DEF Alone
<1> QED
  BY <1>5, <1>7, <1>8, <1>9, <1>10, <1>11 DEF OtlpInv

(* The caller of an undisturbed shutdown goes on with it. *)
LEMMA AloneMoves ==
    ASSUME Alone, NEW p \in Procs, oWork[p] # Idle, NEW w, oWork'[p] = w,
           \A q \in Procs : q # p => oWork'[q] = oWork[q],
           items' = items, quiet' = quiet,
           w.pc \in InCall => oWork[p].pc \in InCall /\ w.closing = oWork[p].closing,
           w = Idle => retry' = <<>> \/ (oWork[p].pc \in InCall /\ ~oWork[p].closing)
    PROVE  Alone'
BY DEF Alone

(* Steps that only a caller notices. *)
LEMMA CallerKeeps ==
    ASSUME OtlpInv, NEW p \in Procs, NEW w \in OtlpAt, CallShape(w),
           oWork' = [oWork EXCEPT ![p] = w], Carried(w) = Carried(oWork[p]), oWork[p] # Idle,
           w.pc \in InCall <=> oWork[p].pc \in InCall,
           w.pc \in InCall => w.closing = oWork[p].closing,
           w = Idle => retry = <<>>,
           UNCHANGED <<signal, exporter, items, pending, retry, overflow, exported, unanswered,
                       gone, oDelivered, quiet>>
    PROVE  OtlpInv' /\ LedgerMoves(OtlpLedger, OtlpLedger')
<1> DEFINE C == OtlpCalls
<1>1. /\ OtlpData /\ OtlpWork /\ Spread(oDelivered, ToSet(items), Tracker, Queue, C)
      /\ Fate(oDelivered, Held(ToSet(items), Tracker, Queue, C), exported, unanswered, gone)
      /\ AnswersLost /\ Alone
  BY DEF OtlpInv
<1>2. /\ OtlpWork' /\ oWork'[p] = w /\ C'[p] = C[p]
      /\ \A q \in Procs : q # p => oWork'[q] = oWork[q] /\ C'[q] = C[q]
  BY <1>1, CallMoves
<1>3. C' = C
  BY <1>2 DEF OtlpCalls
<1>4. Tracker' = Tracker /\ Queue' = Queue /\ ToSet(items') = ToSet(items)
  BY DEF Tracker, Queue
<1>5. OtlpData'
  BY <1>1 DEF OtlpData
<1>6. AnswersLost'
  BY <1>1, <1>2, <1>3, <1>4 DEF AnswersLost
<1>7. Alone'
  BY <1>1, <1>2, AloneMoves
<1>8. /\ Spread(oDelivered', ToSet(items'), Tracker', Queue', C')
      /\ Fate(oDelivered', Held(ToSet(items'), Tracker', Queue', C'), exported', unanswered', gone')
      /\ LedgerMoves(OtlpLedger, OtlpLedger')
  BY <1>1, <1>3, <1>4, StandIs DEF LedgerMoves
<1> QED
  BY <1>2, <1>5, <1>6, <1>7, <1>8 DEF OtlpInv

LEMMA NotIdle == \A p \in Procs : oWork[p].pc # "idle" => oWork[p] # Idle
BY DEF Idle

LEMMA ClassifyKeeps ==
    ASSUME OtlpInv, NEW p \in Procs, Classify(p)
    PROVE  OtlpInv' /\ LedgerMoves(OtlpLedger, OtlpLedger')
<1> DEFINE v == oWork[p]
           e == Head(v.todo)
           first == \/ Role[e] = "legacy"
                    \/ Role[e] = "paired" /\ (SpanOf[e] \in Spans => pending[SpanOf[e]] = None)
           w == [v EXCEPT !.pc = "classified", !.first = first]
<1>1. /\ v.pc = "project" /\ signal = "traces" /\ v.todo # <<>>
      /\ UNCHANGED <<signal, exporter, items, pending, retry, overflow, exported, unanswered,
                     gone, oDelivered, quiet>>
      /\ oWork' = [oWork EXCEPT ![p].pc = "classified", ![p].first = first]
  BY DEF Classify
<1>2. v \in OtlpAt /\ CallShape(v) /\ oWork \in [Procs -> OtlpAt]
  BY DEF OtlpInv, OtlpWork
<1>3. v \in CallAt
  BY <1>1, <1>2, CarriedIs DEF InCall
<1>4. first \in BOOLEAN
  OBVIOUS
<1>5. oWork' = [oWork EXCEPT ![p] = w]
  BY <1>1, <1>2
<1> HIDE DEF first
<1>6. /\ w \in CallAt /\ w.pc = "classified" /\ w.todo = v.todo /\ w.out = v.out
      /\ w.closing = v.closing
  BY <1>3, <1>4 DEF CallAt, InCall
<1> HIDE DEF w
<1>7. w \in OtlpAt /\ CallShape(w) /\ Carried(w) = Carried(v)
  BY <1>1, <1>2, <1>3, <1>6 DEF OtlpAt, CallShape, Carried, InCall
<1>8. v # Idle /\ w # Idle /\ v.pc \in InCall /\ w.pc \in InCall
  BY <1>1, <1>6 DEF Idle, InCall
<1> QED
  BY <1>1, <1>5, <1>6, <1>7, <1>8, CallerKeeps

LEMMA ProjectBatchKeeps ==
    ASSUME OtlpInv, NEW p \in Procs, ProjectBatch(p)
    PROVE  OtlpInv' /\ LedgerMoves(OtlpLedger, OtlpLedger')
<1> DEFINE v == oWork[p]
           S == ToSet(v.todo)
           w == [v EXCEPT !.todo = <<>>, !.out = S]
<1>1. /\ v.pc = "project" /\ signal # "traces" /\ v.todo # <<>>
      /\ UNCHANGED <<signal, exporter, items, pending, retry, overflow, exported, unanswered,
                     gone, oDelivered, quiet>>
      /\ oWork' = [oWork EXCEPT ![p].todo = <<>>, ![p].out = S]
  BY DEF ProjectBatch
<1>2. v \in OtlpAt /\ CallShape(v) /\ oWork \in [Procs -> OtlpAt]
  BY DEF OtlpInv, OtlpWork
<1>3. v \in CallAt /\ Carried(v) = S \cup v.out
  BY <1>1, <1>2, CarriedIs DEF InCall
<1>4. v.out = {}
  BY <1>1, <1>2 DEF CallShape, InCall
<1>5. oWork' = [oWork EXCEPT ![p] = w]
  BY <1>1, <1>2
<1>s. S \subseteq Envs
  BY <1>3, ToSetFacts DEF CallAt
<1> HIDE DEF S
<1>6. /\ w \in CallAt /\ w.pc = "project" /\ w.todo = <<>> /\ w.out = S
      /\ w.closing = v.closing
  BY <1>1, <1>3, <1>s, ToSetFacts DEF CallAt, InCall
<1> HIDE DEF w
<1>7. w \in OtlpAt /\ CallShape(w) /\ Carried(w) = S
  BY <1>6, ToSetFacts DEF OtlpAt, CallShape, Carried, InCall
<1>8. v # Idle /\ w # Idle /\ v.pc \in InCall /\ w.pc \in InCall
  BY <1>1, <1>6 DEF Idle, InCall
<1> QED
  BY <1>1, <1>3, <1>4, <1>5, <1>6, <1>7, <1>8, CallerKeeps

LEMMA RetryEmptyKeeps ==
    ASSUME OtlpInv, NEW p \in Procs, RetryEmpty(p)
    PROVE  OtlpInv' /\ LedgerMoves(OtlpLedger, OtlpLedger')
<1>1. /\ oWork[p].pc = "retry" /\ retry = <<>> /\ oWork' = [oWork EXCEPT ![p] = Idle]
      /\ UNCHANGED <<signal, exporter, items, pending, retry, overflow, exported, unanswered,
                     gone, oDelivered, quiet>>
  BY DEF RetryEmpty
<1>2. oWork[p] \in OtlpAt
  BY DEF OtlpInv, OtlpWork
<1>3. Carried(oWork[p]) = {} /\ Carried(Idle) = {} /\ Idle \in OtlpAt /\ CallShape(Idle)
  BY <1>1, <1>2, CarriedIs
<1>4. oWork[p] # Idle /\ oWork[p].pc \notin InCall /\ Idle.pc \notin InCall
  BY <1>1 DEF Idle, InCall
<1> QED
  BY <1>1, <1>3, <1>4, CallerKeeps

(* A payload leaves the queue whole. *)
LEMMA QueueTail ==
    ASSUME OtlpData, retry # <<>>
    PROVE  /\ Head(retry) \in SUBSET Envs /\ Tail(retry) \in Seq(SUBSET Envs)
           /\ \A i, j \in 1..Len(Tail(retry)) : i # j => Tail(retry)[i] \cap Tail(retry)[j] = {}
           /\ UNION ToSet(Tail(retry)) = Queue \ Head(retry) /\ Head(retry) \subseteq Queue
<1> DEFINE S == SUBSET Envs
           n == Len(retry)
           t == Tail(retry)
<1>1. retry \in Seq(S) /\ \A i, j \in 1..n : i # j => retry[i] \cap retry[j] = {}
  BY DEF OtlpData
<1>2. /\ t \in Seq(S) /\ Len(t) = n - 1 /\ Head(retry) = retry[1] /\ 1 \in 1..n
      /\ \A i \in 1..(n - 1) : t[i] = retry[i + 1] /\ i + 1 \in 1..n
  BY <1>1, TailIs
<1>3. Head(retry) \in S /\ Range(retry) = {Head(retry)} \union Range(t)
  BY <1>1, RangeOf
<1>4. Range(t) = {t[i] : i \in 1..Len(t)}
  BY <1>2, RangeOf
<1>n. n \in Nat
  BY <1>1
<1> HIDE DEF n, t, S
<1>5. \A i \in 1..(n - 1) : i + 1 # 1
  BY ONLY <1>n
<1>6. \A i, j \in 1..(n - 1) : i + 1 = j + 1 => i = j
  BY ONLY <1>n
<1>7. \A i, j \in 1..Len(t) : i # j => t[i] \cap t[j] = {}
  BY <1>1, <1>2, <1>6
<1>8. \A x \in Range(t) : x \cap Head(retry) = {}
  BY <1>1, <1>2, <1>4, <1>5
<1>9. UNION Range(t) = (UNION Range(retry)) \ Head(retry) /\ Head(retry) \subseteq UNION Range(retry)
  BY <1>3, <1>8
<1> QED
  BY <1>2, <1>3, <1>7, <1>9, ToSetIsRange DEF Queue, t, S

LEMMA RetryPopKeeps ==
    ASSUME OtlpInv, NEW p \in Procs, RetryPop(p)
    PROVE  OtlpInv' /\ LedgerMoves(OtlpLedger, OtlpLedger')
<1> DEFINE w == [pc |-> "again", out |-> Head(retry)]
           M == Head(retry)
           I == ToSet(items)
           C == OtlpCalls
           H == Held(I, Tracker, Queue, C)
<1>1. /\ OtlpData /\ OtlpWork /\ Spread(oDelivered, I, Tracker, Queue, C)
      /\ Fate(oDelivered, H, exported, unanswered, gone) /\ AnswersLost /\ Alone
  BY DEF OtlpInv
<1>2. /\ oWork[p].pc = "retry" /\ retry # <<>> /\ retry' = Tail(retry)
      /\ oWork' = [oWork EXCEPT ![p] = w]
      /\ UNCHANGED <<signal, exporter, items, pending, overflow, exported, unanswered, gone, oDelivered, quiet>>
  BY DEF RetryPop
<1>3. M \in SUBSET Envs /\ Queue' = Queue \ M /\ M \subseteq Queue
  BY <1>1, <1>2, QueueTail DEF Queue
<1>4. OtlpData'
  BY <1>1, <1>2, QueueTail DEF OtlpData
<1>5. w \in OtlpAt /\ CallShape(w) /\ Carried(w) = M /\ w.pc = "again"
  BY <1>3 DEF OtlpAt, CallShape, Carried, InCall
<1>6. w # Idle /\ w.pc \notin InCall /\ oWork[p] # Idle
  BY <1>2 DEF Idle, InCall
<1>7. oWork[p] \in OtlpAt
  BY <1>1 DEF OtlpWork
<1> HIDE DEF w, M
<1>8. /\ OtlpWork' /\ C'[p] = M /\ C[p] = {} /\ oWork'[p] = w
      /\ \A q \in Procs : q # p => oWork'[q] = oWork[q] /\ C'[q] = C[q]
  BY <1>1, <1>2, <1>5, <1>7, CallMoves, CarriedIs
<1>9. Tracker' = Tracker /\ ToSet(items') = I
  BY <1>2 DEF Tracker
<1>10. /\ Spread(oDelivered', ToSet(items'), Tracker', Queue', C')
       /\ Held(ToSet(items'), Tracker', Queue', C') = H
  <2> DEFINE B == C'
             T == Tracker
             Q == Queue
             D == oDelivered
  <2>1. Spread(D, I, T, Q, C) /\ C[p] = {} /\ B[p] = M /\ M \subseteq Q
        /\ \A q \in Procs : q # p => B[q] = C[q]
    BY <1>1, <1>3, <1>8
  <2> HIDE DEF B, T, Q, I, D, C
  <2>2. Spread(D, I, T, Q \ M, B)
    BY ONLY <2>1, p \in Procs, SpreadMoves
  <2>3. \A e : e \in Held(I, T, Q \ M, B) <=> e \in Held(I, T, Q, C)
    BY ONLY <2>1, p \in Procs, HeldIs
  <2> QED
    BY <1>2, <1>3, <1>9, <2>2, <2>3 DEF B, T, Q, D
<1>11. /\ Fate(oDelivered', Held(ToSet(items'), Tracker', Queue', C'), exported', unanswered', gone')
       /\ LedgerMoves(OtlpLedger, OtlpLedger')
  BY <1>1, <1>2, <1>10, StandIs DEF LedgerMoves
<1>12. AnswersLost'
  BY <1>1, <1>2, <1>6, <1>8, <1>9 DEF AnswersLost
<1>13. Alone'
  BY <1>1, <1>2, <1>6, <1>8, AloneMoves
<1> QED
  BY <1>4, <1>8, <1>10, <1>11, <1>12, <1>13 DEF OtlpInv

(* The envelopes of a call are held, and in nobody else's hands. *)
LEMMA CarriedHeld ==
    ASSUME OtlpInv, NEW p \in Procs
    PROVE  /\ OtlpCalls[p] = Carried(oWork[p]) /\ OtlpCalls[p] \in SUBSET Envs
           /\ OtlpCalls[p] \subseteq Held(ToSet(items), Tracker, Queue, OtlpCalls)
           /\ oWork[p].pc \in InCall => OtlpCalls[p] \cap unanswered = {}
           /\ oWork[p].pc = "export" => OtlpCalls[p] = oWork[p].out
           /\ oWork[p].pc = "again" => OtlpCalls[p] = oWork[p].out
           /\ oWork[p].pc \in {"export", "again"} => oWork[p] # Idle
<1>1. OtlpWork /\ AnswersLost /\ oDelivered \in SUBSET Envs
      /\ Spread(oDelivered, ToSet(items), Tracker, Queue, OtlpCalls)
  BY DEF OtlpInv, OtlpData
<1>2. OtlpCalls[p] = Carried(oWork[p]) /\ oWork[p] \in OtlpAt /\ CallShape(oWork[p])
  BY <1>1 DEF OtlpCalls, OtlpWork
<1>3. OtlpCalls[p] \in SUBSET Envs
  BY <1>1 DEF Spread
<1>4. OtlpCalls[p] \subseteq Held(ToSet(items), Tracker, Queue, OtlpCalls)
  BY HeldIs
<1>5. oWork[p].pc \in InCall => OtlpCalls[p] \cap unanswered = {}
  BY <1>1 DEF AnswersLost
<1>6. ASSUME oWork[p].pc = "export" PROVE OtlpCalls[p] = oWork[p].out
  <2>1. oWork[p].todo = <<>> /\ Carried(oWork[p]) = ToSet(oWork[p].todo) \cup oWork[p].out
    BY <1>2, <1>6, CarriedIs DEF CallShape, InCall
  <2> QED
    BY <1>2, <2>1, ToSetFacts
<1>7. oWork[p].pc = "again" => OtlpCalls[p] = oWork[p].out
  BY <1>2, CarriedIs
<1> QED
  BY <1>2, <1>3, <1>4, <1>5, <1>6, <1>7, NotIdle

(* What a call carried is done with. *)
LEMMA LeaveKeeps ==
    ASSUME OtlpInv, NEW p \in Procs, NEW w \in OtlpAt, CallShape(w), Carried(w) = {},
           w.pc \notin InCall, oWork' = [oWork EXCEPT ![p] = w],
           UNCHANGED <<signal, exporter, items, pending, retry, oDelivered>>,
           exported' \in [Envs -> Nat], unanswered' \in SUBSET Envs, gone' \in [Causes -> SUBSET Envs],
           Fate(oDelivered, Held(ToSet(items), Tracker, Queue, OtlpCalls) \ OtlpCalls[p],
                exported', unanswered', gone'),
           LedgerMoves(Stand(oDelivered, exported, gone), Stand(oDelivered, exported', gone')),
           unanswered' \subseteq unanswered \cup OtlpCalls[p], unanswered' # {} => exporter = "grpc",
           \/ quiet' = FALSE
           \/ quiet' = quiet /\ oWork[p] # Idle
                /\ (w = Idle => oWork[p].pc \in InCall /\ ~oWork[p].closing)
    PROVE  OtlpInv' /\ LedgerMoves(OtlpLedger, OtlpLedger')
<1> DEFINE I == ToSet(items)
           C == OtlpCalls
           H == Held(I, Tracker, Queue, C)
           M == C[p]
<1>1. /\ OtlpData /\ OtlpWork /\ Spread(oDelivered, I, Tracker, Queue, C) /\ AnswersLost /\ Alone
  BY DEF OtlpInv
<1>2. /\ OtlpWork' /\ C'[p] = {} /\ oWork'[p] = w
      /\ \A q \in Procs : q # p => oWork'[q] = oWork[q] /\ C'[q] = C[q]
  BY <1>1, CallMoves
<1>3. Tracker' = Tracker /\ Queue' = Queue /\ ToSet(items') = I
  BY DEF Tracker, Queue
<1>4. OtlpData'
  BY <1>1 DEF OtlpData
<1>5. /\ Spread(oDelivered', ToSet(items'), Tracker', Queue', C')
      /\ Held(ToSet(items'), Tracker', Queue', C') = H \ M
  <2> DEFINE B == C'
             T == Tracker
             Q == Queue
             D == oDelivered
  <2>1. Spread(D, I, T, Q, C) /\ B[p] = {} /\ M = C[p] /\ B[p] \subseteq C[p]
        /\ \A q \in Procs : q # p => B[q] = C[q]
    BY <1>1, <1>2
  <2> HIDE DEF B, T, Q, I, D, C, M
  <2>2. Spread(D, I, T, Q, B)
    BY ONLY <2>1, p \in Procs, SpreadMoves
  <2>3. \A e : e \in Held(I, T, Q, B) <=> e \in Held(I, T, Q, C) \ M
    BY ONLY <2>1, p \in Procs, HeldIs DEF Spread
  <2> QED
    BY <1>3, <2>2, <2>3 DEF B, T, Q, D, M
<1>6. /\ Fate(oDelivered', Held(ToSet(items'), Tracker', Queue', C'), exported', unanswered', gone')
      /\ LedgerMoves(OtlpLedger, OtlpLedger')
  BY <1>5, StandIs
<1>7. AnswersLost'
  <2>1. \A e \in M : e \notin I /\ e \notin Tracker /\ \A q \in Procs : q # p => e \notin C[q]
    BY <1>1 DEF Spread
  <2> QED
    BY <1>1, <1>2, <1>3, <2>1 DEF AnswersLost
<1>8. Alone'
  <2>1. CASE quiet' = FALSE
    BY <2>1 DEF Alone
  <2>2. CASE quiet' = quiet /\ oWork[p] # Idle /\ (w = Idle => oWork[p].pc \in InCall /\ ~oWork[p].closing)
    BY <1>1, <1>2, <2>2, AloneMoves
  <2> QED
    BY <2>1, <2>2
<1> QED
  BY <1>2, <1>4, <1>5, <1>6, <1>7, <1>8 DEF OtlpInv

(* Where dispatch() returns to. *)
LEMMA Returns ==
    ASSUME NEW p \in Procs, NEW w, w = IF oWork[p].closing THEN [pc |-> "retry"] ELSE Idle
    PROVE  /\ w \in OtlpAt /\ CallShape(w) /\ Carried(w) = {} /\ w.pc \notin InCall
           /\ w = Idle => ~oWork[p].closing
<1>1. [pc |-> "retry"] # Idle /\ [pc |-> "retry"].pc \notin InCall /\ Idle.pc \notin InCall
  BY DEF Idle, InCall
<1>2. CASE oWork[p].closing
  BY <1>1, <1>2, CarriedIs
<1>3. CASE ~oWork[p].closing
  BY <1>1, <1>3, CarriedIs
<1> QED
  BY <1>2, <1>3

LEMMA ExportOkKeeps ==
    ASSUME OtlpInv, NEW p \in Procs, ExportOk(p)
    PROVE  OtlpInv' /\ LedgerMoves(OtlpLedger, OtlpLedger')
<1> DEFINE w == IF oWork[p].closing THEN [pc |-> "retry"] ELSE Idle
           M == OtlpCalls[p]
           H == Held(ToSet(items), Tracker, Queue, OtlpCalls)
<1>1. /\ oWork[p].pc = "export" /\ exported' = More(exported, oWork[p].out)
      /\ oWork' = [oWork EXCEPT ![p] = w]
      /\ UNCHANGED <<signal, exporter, items, pending, retry, overflow, unanswered, gone, oDelivered, quiet>>
  BY DEF ExportOk, Sent, AfterDispatch, More
<1>2. M \in SUBSET Envs /\ M \subseteq H /\ M = oWork[p].out /\ oWork[p] # Idle
  BY <1>1, CarriedHeld
<1>3. /\ w \in OtlpAt /\ CallShape(w) /\ Carried(w) = {} /\ w.pc \notin InCall
      /\ w = Idle => ~oWork[p].closing
  BY Returns
<1> HIDE DEF w, M, H
<1>4. /\ oDelivered \in SUBSET Envs /\ exported \in [Envs -> Nat] /\ unanswered \in SUBSET Envs
      /\ gone \in [Causes -> SUBSET Envs] /\ (unanswered # {} => exporter = "grpc")
      /\ Fate(oDelivered, H, exported, unanswered, gone)
  BY DEF OtlpInv, OtlpData, AnswersLost, H
<1>5. exported' \in [Envs -> Nat]
  BY <1>1, <1>4 DEF More
<1>6. /\ Fate(oDelivered, H \ M, More(exported, M), unanswered, gone)
      /\ LedgerMoves(Stand(oDelivered, exported, gone), Stand(oDelivered, More(exported, M), gone))
  BY ONLY <1>2, <1>4, FateMoves
<1> QED
  BY <1>1, <1>2, <1>3, <1>4, <1>5, <1>6, LeaveKeeps DEF M, H, InCall

LEMMA ExportPanicsKeeps ==
    ASSUME OtlpInv, NEW p \in Procs, ExportPanics(p)
    PROVE  OtlpInv' /\ LedgerMoves(OtlpLedger, OtlpLedger')
<1> DEFINE M == OtlpCalls[p]
           H == Held(ToSet(items), Tracker, Queue, OtlpCalls)
           F == [gone EXCEPT !["panic"] = @ \cup (M \ unanswered)]
<1>1. /\ oWork[p].pc \in {"export", "again"} /\ ~Answers /\ quiet' = FALSE
      /\ gone' = [gone EXCEPT !["panic"] = @ \cup oWork[p].out]
      /\ oWork' = [oWork EXCEPT ![p] = Idle]
      /\ UNCHANGED <<signal, exporter, items, pending, retry, overflow, exported, unanswered, oDelivered>>
  BY DEF ExportPanics
<1>2. M \in SUBSET Envs /\ M \subseteq H /\ M = oWork[p].out
  BY <1>1, CarriedHeld
<1>3. Idle \in OtlpAt /\ CallShape(Idle) /\ Carried(Idle) = {} /\ Idle.pc \notin InCall
  BY CarriedIs DEF InCall
<1>4. /\ oDelivered \in SUBSET Envs /\ exported \in [Envs -> Nat] /\ unanswered \in SUBSET Envs
      /\ gone \in [Causes -> SUBSET Envs] /\ (unanswered # {} => exporter = "grpc")
      /\ Fate(oDelivered, H, exported, unanswered, gone)
  BY DEF OtlpInv, OtlpData, AnswersLost
<1>5. unanswered = {}
  BY <1>1, <1>4 DEF Answers
<1> HIDE DEF M, H
<1>c. "panic" \in Causes
  BY DEF Causes
<1>6. gone' = F /\ gone' \in [Causes -> SUBSET Envs]
  BY <1>1, <1>2, <1>4, <1>5, <1>c
<1>7. /\ Fate(oDelivered, H \ M, exported, unanswered, F)
      /\ LedgerMoves(Stand(oDelivered, exported, gone), Stand(oDelivered, exported, F))
  BY ONLY <1>2, <1>4, <1>c, FateMoves
<1> HIDE DEF F
<1> QED
  BY <1>1, <1>2, <1>3, <1>4, <1>6, <1>7, LeaveKeeps DEF M, H

LEMMA ExportAgainKeeps ==
    ASSUME OtlpInv, NEW p \in Procs, NEW taken \in BOOLEAN, ExportAgain(p, taken)
    PROVE  OtlpInv' /\ LedgerMoves(OtlpLedger, OtlpLedger')
<1> DEFINE w == [pc |-> "retry"]
           M == OtlpCalls[p]
           H == Held(ToSet(items), Tracker, Queue, OtlpCalls)
           F == [gone EXCEPT !["shutdown"] = @ \cup (M \ unanswered)]
           Y == More(exported, M)
<1>1. M \in SUBSET Envs /\ M \subseteq H /\ M = oWork[p].out /\ oWork[p] # Idle
  BY CarriedHeld DEF ExportAgain
<1>2. /\ IF taken THEN exported' = Y /\ gone' = gone ELSE exported' = exported /\ gone' = F
      /\ oWork' = [oWork EXCEPT ![p] = w]
      /\ UNCHANGED <<signal, exporter, items, pending, retry, overflow, unanswered, oDelivered, quiet>>
  BY <1>1 DEF ExportAgain, Sent, More
<1>3. w \in OtlpAt /\ CallShape(w) /\ Carried(w) = {} /\ w.pc \notin InCall /\ w # Idle
  BY CarriedIs DEF Idle, InCall
<1> HIDE DEF w, M, H
<1>4. /\ oDelivered \in SUBSET Envs /\ exported \in [Envs -> Nat] /\ unanswered \in SUBSET Envs
      /\ gone \in [Causes -> SUBSET Envs] /\ (unanswered # {} => exporter = "grpc")
      /\ Fate(oDelivered, H, exported, unanswered, gone)
  BY DEF OtlpInv, OtlpData, AnswersLost, H
<1>c. "shutdown" \in Causes
  BY DEF Causes
<1>5. Y \in [Envs -> Nat] /\ F \in [Causes -> SUBSET Envs]
  <2>1. Y \in [Envs -> Nat]
    BY <1>1, <1>4 DEF More
  <2>2. F \in [Causes -> SUBSET Envs]
    BY <1>1, <1>4, <1>c
  <2> QED
    BY <2>1, <2>2
<1>6. /\ Fate(oDelivered, H \ M, Y, unanswered, gone)
      /\ LedgerMoves(Stand(oDelivered, exported, gone), Stand(oDelivered, Y, gone))
  BY ONLY <1>1, <1>4, FateMoves
<1>7. /\ Fate(oDelivered, H \ M, exported, unanswered, F)
      /\ LedgerMoves(Stand(oDelivered, exported, gone), Stand(oDelivered, exported, F))
  BY ONLY <1>1, <1>4, <1>c, FateMoves
<1> HIDE DEF F, Y
<1>8. CASE taken
  BY <1>1, <1>2, <1>3, <1>4, <1>5, <1>6, <1>8, LeaveKeeps DEF M, H
<1>9. CASE ~taken
  BY <1>1, <1>2, <1>3, <1>4, <1>5, <1>7, <1>9, LeaveKeeps DEF M, H
<1> QED
  BY <1>8, <1>9

(* A payload that joins the queue is still held. *)
LEMMA QueueGrows ==
    ASSUME OtlpData, NEW M \in SUBSET Envs, M \cap Queue = {}
    PROVE  /\ Append(retry, M) \in Seq(SUBSET Envs)
           /\ LET t == Append(retry, M) IN
                /\ \A i, j \in 1..Len(t) : i # j => t[i] \cap t[j] = {}
                /\ UNION ToSet(t) = Queue \cup M
<1> DEFINE S == SUBSET Envs
           n == Len(retry)
           t == Append(retry, M)
<1>1. retry \in Seq(S) /\ \A i, j \in 1..n : i # j => retry[i] \cap retry[j] = {}
  BY DEF OtlpData
<1>2. /\ t \in Seq(S) /\ Len(t) = n + 1 /\ t[n + 1] = M
      /\ \A i \in 1..n : t[i] = retry[i]
      /\ \A i \in 1..(n + 1) : i = n + 1 \/ i \in 1..n
  BY <1>1, AppendIs
<1>3. Range(t) = Range(retry) \union {M} /\ Range(retry) = {retry[i] : i \in 1..n}
  BY <1>1, RangeOf
<1> HIDE DEF n, t, S
<1>4. \A i \in 1..n : retry[i] \cap M = {}
  BY <1>3, ToSetIsRange DEF Queue
<1>5. \A i, j \in 1..(n + 1) : i # j => t[i] \cap t[j] = {}
  BY <1>1, <1>2, <1>4
<1>6. UNION Range(t) = (UNION Range(retry)) \cup M
  BY <1>3
<1> QED
  BY <1>2, <1>5, <1>6, ToSetIsRange DEF Queue, t, S

LEMMA ExportFailsKeeps ==
    ASSUME OtlpInv, NEW p \in Procs, NEW taken \in BOOLEAN, ExportFails(p, taken)
    PROVE  OtlpInv' /\ LedgerMoves(OtlpLedger, OtlpLedger')
<1> DEFINE w == IF oWork[p].closing THEN [pc |-> "retry"] ELSE Idle
           M == OtlpCalls[p]
           I == ToSet(items)
           C == OtlpCalls
           H == Held(I, Tracker, Queue, C)
           F == [gone EXCEPT !["overflow"] = @ \cup (M \ unanswered)]
           Y == More(exported, M)
           V == unanswered \cup M
           full == Len(retry) >= RetryCap
           l == Stand(oDelivered, exported, gone)
<1>1. /\ M \in SUBSET Envs /\ M \subseteq H /\ M = oWork[p].out /\ M \cap unanswered = {}
      /\ oWork[p] # Idle /\ oWork[p].pc \in InCall
  BY CarriedHeld DEF ExportFails, InCall
<1>2. /\ taken => exporter = "grpc"
      /\ oWork' = [oWork EXCEPT ![p] = w]
      /\ UNCHANGED <<signal, exporter, items, pending, oDelivered, quiet>>
      /\ IF taken THEN exported' = Y /\ unanswered' = V ELSE UNCHANGED <<exported, unanswered>>
      /\ IF full THEN retry' = retry /\ gone' = (IF taken THEN gone ELSE F)
         ELSE retry' = Append(retry, M) /\ gone' = gone
  <2>1. M \ unanswered = M
    BY <1>1
  <2> QED
    BY <1>1, <2>1 DEF ExportFails, Sent, More, AfterDispatch, RetryPush
<1>3. /\ w \in OtlpAt /\ CallShape(w) /\ Carried(w) = {} /\ w.pc \notin InCall
      /\ w = Idle => ~oWork[p].closing
  BY Returns
<1>4. /\ OtlpData /\ OtlpWork /\ Spread(oDelivered, I, Tracker, Queue, C) /\ AnswersLost /\ Alone
      /\ Fate(oDelivered, H, exported, unanswered, gone)
  BY DEF OtlpInv
<1>5. /\ oDelivered \in SUBSET Envs /\ exported \in [Envs -> Nat] /\ unanswered \in SUBSET Envs
      /\ gone \in [Causes -> SUBSET Envs] /\ (unanswered # {} => exporter = "grpc")
  BY <1>4 DEF OtlpData, AnswersLost
<1>c. "overflow" \in Causes
  BY DEF Causes
<1> HIDE DEF w, M, H, full
<1>6. Y \in [Envs -> Nat] /\ F \in [Causes -> SUBSET Envs] /\ V \in SUBSET Envs
  <2>1. Y \in [Envs -> Nat] /\ V \in SUBSET Envs
    BY <1>1, <1>5 DEF More
  <2>2. F \in [Causes -> SUBSET Envs]
    BY <1>1, <1>5, <1>c
  <2> QED
    BY <2>1, <2>2
<1>7. /\ Fate(oDelivered, H, Y, V, gone) /\ Fate(oDelivered, H \ M, Y, V, gone)
      /\ LedgerMoves(l, Stand(oDelivered, Y, gone))
  BY ONLY <1>1, <1>4, <1>5, FateMoves
<1>8. /\ Fate(oDelivered, H \ M, exported, unanswered, F)
      /\ LedgerMoves(l, Stand(oDelivered, exported, F))
  BY ONLY <1>1, <1>4, <1>5, <1>c, FateMoves
<1> HIDE DEF F, Y, V
<1>v. V = unanswered \cup M
  BY DEF V
<1>9. CASE full /\ taken
  BY <1>1, <1>2, <1>3, <1>5, <1>6, <1>7, <1>9, <1>v, LeaveKeeps DEF M, H
<1>10. CASE full /\ ~taken
  BY <1>1, <1>2, <1>3, <1>5, <1>6, <1>8, <1>10, LeaveKeeps DEF M, H
<1>11. CASE ~full
  <2>1. /\ retry' = Append(retry, M) /\ gone' = gone
        /\ IF taken THEN exported' = Y /\ unanswered' = V ELSE UNCHANGED <<exported, unanswered>>
    BY <1>2, <1>11
  <2>2. \A e \in M : e \notin Queue /\ e \notin I /\ e \notin Tracker /\ \A q \in Procs : q # p => e \notin C[q]
    BY <1>4 DEF Spread, M
  <2>3. /\ retry' \in Seq(SUBSET Envs) /\ Queue' = Queue \cup M
        /\ \A i, j \in 1..Len(retry') : i # j => retry'[i] \cap retry'[j] = {}
    <3>1. Queue' = UNION ToSet(retry')
      BY DEF Queue
    <3>2. M \cap Queue = {}
      BY <2>2
    <3> QED
      BY <1>1, <1>4, <2>1, <3>1, <3>2, QueueGrows
  <2>4. exported' \in [Envs -> Nat] /\ unanswered' \in SUBSET Envs /\ unanswered' \subseteq unanswered \cup M
    BY <1>5, <1>6, <1>v, <2>1
  <2>5. OtlpData'
    BY <1>2, <1>4, <2>1, <2>3, <2>4 DEF OtlpData
  <2>6. /\ OtlpWork' /\ C'[p] = {} /\ oWork'[p] = w /\ M = C[p]
        /\ \A q \in Procs : q # p => oWork'[q] = oWork[q] /\ C'[q] = C[q]
    BY <1>2, <1>3, <1>4, CallMoves DEF M
  <2>7. Tracker' = Tracker /\ ToSet(items') = I
    BY <1>2 DEF Tracker
  <2>8. /\ Spread(oDelivered', ToSet(items'), Tracker', Queue', C')
        /\ Held(ToSet(items'), Tracker', Queue', C') = H
    <3> DEFINE B == C'
               T == Tracker
               Q == Queue
               D == oDelivered
    <3>1. Spread(D, I, T, Q, C) /\ B[p] = {} /\ M = C[p]
          /\ \A q \in Procs : q # p => B[q] = C[q]
      BY <1>4, <2>6
    <3> HIDE DEF B, T, Q, I, D, C
    <3>2. Spread(D, I, T, Q \cup M, B)
      BY ONLY <3>1, p \in Procs, SpreadMoves
    <3>3. \A e : e \in Held(I, T, Q \cup M, B) <=> e \in Held(I, T, Q, C)
      BY ONLY <3>1, p \in Procs, HeldIs
    <3> QED
      BY <1>2, <2>3, <2>7, <3>2, <3>3 DEF B, T, Q, D, H
  <2>9. /\ Fate(oDelivered', Held(ToSet(items'), Tracker', Queue', C'), exported', unanswered', gone')
        /\ LedgerMoves(OtlpLedger, OtlpLedger')
    <3>1. CASE taken
      BY <1>2, <1>7, <2>1, <2>8, <3>1, StandIs
    <3>2. CASE ~taken
      BY <1>2, <1>4, <2>1, <2>8, <3>2, StandIs DEF LedgerMoves
    <3> QED
      BY <3>1, <3>2
  <2>10. AnswersLost'
    <3>1. unanswered' # {} => exporter' = "grpc"
      BY <1>2, <1>5, <2>1
    <3> QED
      BY <1>3, <1>4, <2>2, <2>4, <2>6, <2>7, <3>1 DEF AnswersLost
  <2>11. Alone'
    BY <1>1, <1>2, <1>3, <1>4, <2>6, AloneMoves
  <2> QED
    BY <2>5, <2>6, <2>8, <2>9, <2>10, <2>11 DEF OtlpInv
<1> QED
  BY <1>9, <1>10, <1>11

(* A span has at most one Started event, which is filed under its own span. *)
LEMMA TrackerMoves ==
    ASSUME OtlpData
    PROVE  /\ Tracker \subseteq Envs
           /\ \A old \in SUBSET Spans : pending' = [s \in Spans |-> IF s \in old THEN None ELSE pending[s]] =>
                /\ pending' \in [Spans -> Envs \cup {None}]
                /\ \A s \in Spans : pending'[s] # None => SpanOf[pending'[s]] = s
                /\ Tracker' = Tracker \ {pending[s] : s \in old}
           /\ \A s \in Spans, e \in Envs : SpanOf[e] = s /\ pending' = [pending EXCEPT ![s] = e] =>
                /\ pending' \in [Spans -> Envs \cup {None}]
                /\ \A r \in Spans : pending'[r] # None => SpanOf[pending'[r]] = r
                /\ Tracker' = (Tracker \ {pending[s]}) \cup {e}
<1>1. /\ pending \in [Spans -> Envs \cup {None}] /\ None \notin Envs
      /\ \A s \in Spans : pending[s] # None => SpanOf[pending[s]] = s
  BY OtlpAssumption DEF OtlpData
<1>2. Tracker \subseteq Envs
  BY <1>1 DEF Tracker
<1>3. /\ \A e : e \in Tracker <=> e # None /\ \E s \in Spans : pending[s] = e
      /\ \A e : e \in Tracker' <=> e # None /\ \E s \in Spans : pending'[s] = e
  BY DEF Tracker
<1>4. ASSUME NEW old \in SUBSET Spans, pending' = [s \in Spans |-> IF s \in old THEN None ELSE pending[s]]
      PROVE  /\ pending' \in [Spans -> Envs \cup {None}]
             /\ \A s \in Spans : pending'[s] # None => SpanOf[pending'[s]] = s
             /\ Tracker' = Tracker \ {pending[s] : s \in old}
  <2>1. /\ \A s \in Spans : pending'[s] = IF s \in old THEN None ELSE pending[s]
        /\ pending' \in [Spans -> Envs \cup {None}]
    BY <1>1, <1>4
  <2>2. \A e : e \in Tracker' <=> e \in Tracker \ {pending[s] : s \in old}
    BY <1>1, <1>3, <2>1
  <2> QED
    BY <1>1, <2>1, <2>2
<1>5. ASSUME NEW s \in Spans, NEW e \in Envs, SpanOf[e] = s, pending' = [pending EXCEPT ![s] = e]
      PROVE  /\ pending' \in [Spans -> Envs \cup {None}]
             /\ \A r \in Spans : pending'[r] # None => SpanOf[pending'[r]] = r
             /\ Tracker' = (Tracker \ {pending[s]}) \cup {e}
  <2>1. /\ \A r \in Spans : pending'[r] = IF r = s THEN e ELSE pending[r]
        /\ pending' \in [Spans -> Envs \cup {None}]
    BY <1>1, <1>5
  <2>2. \A x : x \in Tracker' <=> x \in (Tracker \ {pending[s]}) \cup {e}
    BY <1>1, <1>3, <2>1
  <2> QED
    BY <1>1, <1>5, <2>1, <2>2
<1> QED
  BY <1>2, <1>4, <1>5

LEMMA SweepKeepsRest ==
    ASSUME OtlpInv, NEW p \in Procs, NEW old \in SUBSET Spans, SweepOrphans(p, old)
    PROVE  OtlpInv' /\ LedgerMoves(OtlpLedger, OtlpLedger')
<1> DEFINE v == oWork[p]
           w == [v EXCEPT !.pc = "export"]
           Q == {pending[s] : s \in old}
           I == ToSet(items)
           C == OtlpCalls
           H == Held(I, Tracker, Queue, C)
           F == [gone EXCEPT !["orphan"] = @ \cup (Q \ unanswered)]
<1>1. /\ OtlpData /\ OtlpWork /\ Spread(oDelivered, I, Tracker, Queue, C) /\ AnswersLost /\ Alone
      /\ Fate(oDelivered, H, exported, unanswered, gone)
  BY DEF OtlpInv
<1>2. /\ v.pc = "project" /\ v.todo = <<>> /\ (\A s \in old : pending[s] # None)
      /\ pending' = [s \in Spans |-> IF s \in old THEN None ELSE pending[s]]
      /\ gone' = [gone EXCEPT !["orphan"] = @ \cup Q]
      /\ oWork' = [oWork EXCEPT ![p].pc = "export"]
      /\ UNCHANGED <<signal, exporter, items, retry, overflow, exported, unanswered, oDelivered, quiet>>
  BY DEF SweepOrphans
<1>3. Q \subseteq Tracker /\ Q \in SUBSET Envs /\ Q \subseteq H
  <2>1. Q \subseteq Tracker
    BY <1>2 DEF Tracker
  <2> QED
    BY <1>1, <2>1, TrackerMoves, HeldIs
<1>4. /\ Tracker' = Tracker \ Q /\ pending' \in [Spans -> Envs \cup {None}]
      /\ \A s \in Spans : pending'[s] # None => SpanOf[pending'[s]] = s
  BY <1>1, <1>2, TrackerMoves
<1>5. Q \cap unanswered = {}
  BY <1>1, <1>3 DEF AnswersLost
<1>d. /\ oDelivered \in SUBSET Envs /\ exported \in [Envs -> Nat] /\ unanswered \in SUBSET Envs
      /\ gone \in [Causes -> SUBSET Envs]
  BY <1>1 DEF OtlpData
<1>6. v \in CallAt /\ CallShape(v) /\ oWork \in [Procs -> OtlpAt]
  BY <1>1, <1>2, CarriedIs DEF OtlpWork, InCall
<1>7. oWork' = [oWork EXCEPT ![p] = w]
  BY <1>2, <1>6
<1>8. w \in CallAt /\ w.pc = "export" /\ w.todo = v.todo /\ w.out = v.out /\ w.closing = v.closing
  BY <1>6 DEF CallAt, InCall
<1> HIDE DEF w
<1>9. w \in OtlpAt /\ CallShape(w) /\ Carried(w) = Carried(v)
  BY <1>2, <1>6, <1>8 DEF OtlpAt, CallShape, Carried, InCall
<1>10. v # Idle /\ w # Idle /\ v.pc \in InCall /\ w.pc \in InCall
  BY <1>2, <1>8 DEF Idle, InCall
<1>11. /\ OtlpWork' /\ oWork'[p] = w /\ C'[p] = C[p]
       /\ \A q \in Procs : q # p => oWork'[q] = oWork[q] /\ C'[q] = C[q]
  BY <1>1, <1>2, <1>7, <1>9, CallMoves
<1>12. Queue' = Queue /\ ToSet(items') = I
  BY <1>2 DEF Queue
<1>c. "orphan" \in Causes
  BY DEF Causes
<1> HIDE DEF Q, H
<1>13. gone' = F /\ gone' \in [Causes -> SUBSET Envs]
  <2>1. Q \ unanswered = Q
    BY <1>5
  <2> QED
    BY <1>2, <1>3, <1>d, <1>c, <2>1
<1>14. OtlpData'
  BY <1>1, <1>2, <1>4, <1>13 DEF OtlpData
<1>15. /\ Spread(oDelivered', ToSet(items'), Tracker', Queue', C')
       /\ Held(ToSet(items'), Tracker', Queue', C') = H \ Q
  <2> DEFINE B == C'
             T == Tracker
             R == Queue
             D == oDelivered
  <2>1. Spread(D, I, T, R, C) /\ B[p] = C[p] /\ Q \subseteq T
        /\ (\A q \in Procs : q # p => B[q] = C[q]) /\ (\A q \in Procs : B[q] = C[q])
    BY <1>1, <1>3, <1>11
  <2> HIDE DEF B, T, R, I, D, C
  <2>2. Spread(D, I, T \ Q, R, B)
    BY ONLY <2>1, p \in Procs, SpreadMoves
  <2>3. \A e : e \in Held(I, T \ Q, R, B) <=> e \in Held(I, T, R, C) \ Q
    BY ONLY <2>1, p \in Procs, HeldIs DEF Spread
  <2> QED
    BY <1>2, <1>4, <1>12, <2>2, <2>3 DEF B, T, R, D, H
<1>16. /\ Fate(oDelivered, H \ Q, exported, unanswered, F)
       /\ LedgerMoves(Stand(oDelivered, exported, gone), Stand(oDelivered, exported, F))
  BY ONLY <1>1, <1>3, <1>d, <1>c, FateMoves
<1> HIDE DEF F
<1>17. /\ Fate(oDelivered', Held(ToSet(items'), Tracker', Queue', C'), exported', unanswered', gone')
       /\ LedgerMoves(OtlpLedger, OtlpLedger')
  BY <1>2, <1>13, <1>15, <1>16, StandIs
<1>18. AnswersLost'
  BY <1>1, <1>2, <1>4, <1>10, <1>11, <1>12 DEF AnswersLost
<1>19. Alone'
  BY <1>1, <1>2, <1>8, <1>10, <1>11, AloneMoves
<1> QED
  BY <1>11, <1>14, <1>15, <1>17, <1>18, <1>19 DEF OtlpInv

(* An envelope leaves the batch under projection: it is filed in the tracker,*)
(* given up for want of an id, or exported with the Started event it finds.  *)
LEMMA ProjectEnvelopeKeeps ==
    ASSUME OtlpInv, NEW p \in Procs, ProjectEnvelope(p)
    PROVE  OtlpInv' /\ LedgerMoves(OtlpLedger, OtlpLedger')
<1> DEFINE v == oWork[p]
           e == Head(v.todo)
           rest == Tail(v.todo)
           s == SpanOf[e]
           T == Tracker
           R == Queue
           D == oDelivered
           I == ToSet(items)
           C == OtlpCalls
           B == C'
           H == Held(I, T, R, C)
           U == unanswered
           Fates == /\ Fate(D, Held(I, Tracker', R, B), exported, U, gone')
                    /\ LedgerMoves(Stand(D, exported, gone), Stand(D, exported, gone'))
<1>1. /\ OtlpData /\ OtlpWork /\ Spread(D, I, T, R, C) /\ AnswersLost /\ Alone
      /\ Fate(D, H, exported, U, gone)
  BY DEF OtlpInv
<1>2. /\ v.pc = "classified"
      /\ UNCHANGED <<signal, exporter, items, retry, overflow, exported, unanswered, oDelivered, quiet>>
  BY DEF ProjectEnvelope
<1>d. /\ D \in SUBSET Envs /\ exported \in [Envs -> Nat] /\ U \in SUBSET Envs
      /\ gone \in [Causes -> SUBSET Envs] /\ pending \in [Spans -> Envs \cup {None}]
  BY <1>1 DEF OtlpData
<1>c. "no_id" \in Causes /\ "replaced" \in Causes
  BY DEF Causes
<1>3. v \in CallAt /\ CallShape(v) /\ oWork \in [Procs -> OtlpAt] /\ signal = "traces" /\ v.todo # <<>>
  BY <1>1, <1>2, CarriedIs DEF OtlpWork, InCall, CallShape
<1>4. v.todo \in Seq(Envs) /\ IsInjective(v.todo) /\ v.out \in SUBSET Envs /\ ToSet(v.todo) \cap v.out = {}
  BY <1>3 DEF CallAt, CallShape
<1>5. /\ e \in Envs /\ rest \in Seq(Envs) /\ IsInjective(rest)
      /\ ToSet(v.todo) = {e} \cup ToSet(rest) /\ e \notin ToSet(rest)
  BY <1>3, <1>4, RangeOf, InjectiveTail, ToSetIsRange
<1>6. C[p] = {e} \cup ToSet(rest) \cup v.out /\ e \notin v.out
  <2>1. C[p] = Carried(v) /\ Carried(v) = ToSet(v.todo) \cup v.out
    BY <1>2, CarriedIs, <1>3 DEF OtlpCalls, InCall, OtlpAt
  <2> QED
    BY <1>4, <1>5, <2>1
<1>7. s \in Spans \/ s = NoSpan
  BY <1>5, OtlpAssumption
<1>8. T \subseteq Envs /\ T \cap C[p] = {} /\ C[p] \cap U = {} /\ T \cap U = {} /\ e \in H /\ T \subseteq H
  BY <1>1, <1>2, <1>6, TrackerMoves, HeldIs DEF Spread, AnswersLost, InCall

(* The call moves on with O as what it will export. *)
<1>9. ASSUME NEW O \in SUBSET Envs, O \cap ToSet(rest) = {},
             oWork' = [oWork EXCEPT ![p] = [v EXCEPT !.pc = "project", !.todo = rest, !.out = O]]
      PROVE  /\ OtlpWork' /\ B[p] = ToSet(rest) \cup O /\ oWork'[p].pc = "project"
             /\ oWork'[p].closing = v.closing
             /\ \A q \in Procs : q # p => oWork'[q] = oWork[q] /\ B[q] = C[q]
  <2> DEFINE w == [v EXCEPT !.pc = "project", !.todo = rest, !.out = O]
  <2>1. w \in CallAt /\ w.pc = "project" /\ w.todo = rest /\ w.out = O /\ w.closing = v.closing
    BY <1>3, <1>5 DEF CallAt, InCall
  <2>2. oWork' = [oWork EXCEPT ![p] = w]
    BY <1>9
  <2> HIDE DEF w, rest
  <2>3. w \in OtlpAt /\ CallShape(w) /\ Carried(w) = ToSet(rest) \cup O
    BY <1>3, <1>5, <1>9, <2>1 DEF OtlpAt, CallShape, Carried, InCall
  <2> QED
    BY <1>1, <1>2, <2>1, <2>2, <2>3, CallMoves

(* What is left to show once the envelopes are counted. *)
<1>10. ASSUME OtlpWork', oWork'[p].pc = "project", oWork'[p].closing = v.closing,
              \A q \in Procs : q # p => oWork'[q] = oWork[q] /\ B[q] = C[q],
              B[p] \subseteq C[p] \cup T, Tracker' \subseteq T \cup C[p],
              pending' \in [Spans -> Envs \cup {None}],
              \A r \in Spans : pending'[r] # None => SpanOf[pending'[r]] = r,
              gone' \in [Causes -> SUBSET Envs],
              Spread(D, I, Tracker', R, B), Fates
       PROVE  OtlpInv' /\ LedgerMoves(OtlpLedger, OtlpLedger')
  <2>1. Queue' = R /\ ToSet(items') = I
    BY <1>2 DEF Queue
  <2>2. OtlpData'
    BY <1>1, <1>2, <1>10 DEF OtlpData
  <2>3. AnswersLost'
    BY <1>1, <1>2, <1>8, <1>10, <2>1 DEF AnswersLost, InCall
  <2>4. Alone'
    <3>1. oWork[p] # Idle /\ oWork'[p] # Idle /\ oWork[p].pc \in InCall
      BY <1>2, <1>10 DEF Idle, InCall
    <3> DEFINE w == oWork'[p]
    <3>2. w # Idle /\ oWork'[p] = w /\ w.closing = oWork[p].closing
      BY <1>10, <3>1
    <3> HIDE DEF w
    <3> QED
      BY <1>1, <1>2, <1>10, <3>1, <3>2, AloneMoves
  <2>5. /\ Spread(oDelivered', ToSet(items'), Tracker', Queue', C')
        /\ Fate(oDelivered', Held(ToSet(items'), Tracker', Queue', C'), exported', unanswered', gone')
        /\ LedgerMoves(OtlpLedger, OtlpLedger')
    BY <1>2, <1>10, <2>1, StandIs
  <2> QED
    BY <1>10, <2>2, <2>3, <2>4, <2>5 DEF OtlpInv

(* An envelope lost for a cause. *)
<1>11. ASSUME NEW L \in SUBSET Envs, L \subseteq H, L \cap U = {}, NEW c \in Causes,
              gone' = [gone EXCEPT ![c] = @ \cup L],
              \A x : x \in Held(I, Tracker', R, B) <=> x \in H \ L
       PROVE  gone' \in [Causes -> SUBSET Envs] /\ Fates
  <2> DEFINE F == [gone EXCEPT ![c] = @ \cup (L \ U)]
  <2> HIDE DEF H
  <2>1. L \ U = L /\ Held(I, Tracker', R, B) = H \ L
    BY <1>11
  <2>2. gone' = F /\ gone' \in [Causes -> SUBSET Envs]
    BY <1>11, <1>d, <2>1
  <2>3. /\ Fate(D, H \ L, exported, U, F)
        /\ LedgerMoves(Stand(D, exported, gone), Stand(D, exported, F))
    BY ONLY <1>1, <1>11, <1>d, FateMoves
  <2> HIDE DEF F
  <2> QED
    BY <2>1, <2>2, <2>3
<1>12. CASE v.first /\ s = NoSpan
  <2>1. /\ oWork' = [oWork EXCEPT ![p] = [v EXCEPT !.pc = "project", !.todo = rest, !.out = v.out]]
        /\ gone' = [gone EXCEPT !["no_id"] = @ \cup {e}] /\ pending' = pending
    <3>1. /\ oWork' = [oWork EXCEPT ![p].pc = "project", ![p].todo = Tail(@)]
          /\ gone' = [gone EXCEPT !["no_id"] = @ \cup {e}] /\ pending' = pending
      BY <1>12 DEF ProjectEnvelope, NoteStarted
    <3> QED
      BY <1>3, <3>1 DEF CallAt
  <2>2. /\ OtlpWork' /\ B[p] = ToSet(rest) \cup v.out /\ oWork'[p].pc = "project"
        /\ oWork'[p].closing = v.closing
        /\ \A q \in Procs : q # p => oWork'[q] = oWork[q] /\ B[q] = C[q]
    BY <1>4, <1>5, <1>9, <2>1
  <2>3. B[p] = C[p] \ {e} /\ e \in C[p] /\ Tracker' = T
    BY <1>5, <1>6, <2>1, <2>2 DEF Tracker
  <2> HIDE DEF T, R, I, D, B, C, H, e
  <2>4. Spread(D, I, T, R, B)
    BY ONLY <1>1, <2>2, <2>3, p \in Procs, SpreadMoves
  <2>5. \A x : x \in Held(I, T, R, B) <=> x \in H \ {e}
    BY ONLY <1>1, <2>2, <2>3, p \in Procs, HeldIs DEF Spread, H
  <2>6. {e} \in SUBSET Envs /\ {e} \subseteq H /\ {e} \cap U = {}
    BY <1>5, <1>8, <2>3
  <2>7. gone' \in [Causes -> SUBSET Envs] /\ Fates
    BY <1>11, <1>c, <2>1, <2>3, <2>5, <2>6
  <2>8. /\ pending' \in [Spans -> Envs \cup {None}]
        /\ \A r \in Spans : pending'[r] # None => SpanOf[pending'[r]] = r
    BY <1>1, <2>1 DEF OtlpData
  <2> HIDE DEF Fates
  <2> QED
    BY <1>10, <2>2, <2>3, <2>4, <2>7, <2>8
<1>13. CASE v.first /\ s # NoSpan
  <2> DEFINE Q == {pending[s]} \ {None}
  <2>1. /\ oWork' = [oWork EXCEPT ![p] = [v EXCEPT !.pc = "project", !.todo = rest, !.out = v.out]]
        /\ gone' = [gone EXCEPT !["replaced"] = @ \cup Q] /\ pending' = [pending EXCEPT ![s] = e]
    <3>1. /\ oWork' = [oWork EXCEPT ![p].pc = "project", ![p].todo = Tail(@)]
          /\ gone' = [gone EXCEPT !["replaced"] = @ \cup Q] /\ pending' = [pending EXCEPT ![s] = e]
      BY <1>13 DEF ProjectEnvelope, NoteStarted
    <3> QED
      BY <1>3, <3>1 DEF CallAt
  <2>2. /\ OtlpWork' /\ B[p] = ToSet(rest) \cup v.out /\ oWork'[p].pc = "project"
        /\ oWork'[p].closing = v.closing
        /\ \A q \in Procs : q # p => oWork'[q] = oWork[q] /\ B[q] = C[q]
    BY <1>4, <1>5, <1>9, <2>1
  <2>3. s \in Spans /\ Q \subseteq T
    BY <1>7, <1>13 DEF Tracker
  <2>4. /\ pending' \in [Spans -> Envs \cup {None}]
        /\ \A r \in Spans : pending'[r] # None => SpanOf[pending'[r]] = r
        /\ Tracker' = (T \ Q) \cup {e}
    <3>1. T \ {pending[s]} = T \ Q
      BY DEF Tracker
    <3> QED
      BY <1>1, <1>5, <2>1, <2>3, <3>1, TrackerMoves
  <2>5. B[p] = C[p] \ {e} /\ e \in C[p]
    BY <1>5, <1>6, <2>2
  <2> HIDE DEF T, R, I, D, B, C, H, e, Q
  <2>6. Spread(D, I, (T \ Q) \cup {e}, R, B)
    <3>1. Spread(D, I, T, R, C) /\ Q \subseteq T /\ (\A q \in Procs : q # p => B[q] = C[q])
      BY <1>1, <2>2, <2>3
    <3>2. \A h \in C[p] : B[p] = C[p] \ {h} => Spread(D, I, (T \ Q) \cup {h}, R, B)
      BY ONLY <3>1, p \in Procs, SpreadMoves
    <3> QED
      BY ONLY <2>5, <3>2
  <2>7. \A x : x \in Held(I, (T \ Q) \cup {e}, R, B) <=> x \in H \ Q
    BY ONLY <1>1, <2>2, <2>3, <2>5, p \in Procs, HeldIs DEF Spread, H
  <2>8. Q \in SUBSET Envs /\ Q \subseteq H /\ Q \cap U = {}
    BY <1>8, <2>3
  <2>9. gone' \in [Causes -> SUBSET Envs] /\ Fates
    BY <1>11, <1>c, <2>1, <2>4, <2>7, <2>8
  <2> HIDE DEF Fates
  <2> QED
    BY <1>10, <2>2, <2>4, <2>5, <2>6, <2>9
<1>14. CASE ~v.first
  <2> DEFINE old == IF s \in Spans THEN {s} ELSE {}
             Q == {pending[r] : r \in old} \ {None}
             O == v.out \cup {e} \cup Q
  <2>1. /\ oWork' = [oWork EXCEPT ![p] = [v EXCEPT !.pc = "project", !.todo = rest, !.out = O]]
        /\ gone' = gone /\ pending' = [r \in Spans |-> IF r \in old THEN None ELSE pending[r]]
    <3>1. /\ oWork' = [oWork EXCEPT ![p].pc = "project", ![p].todo = Tail(@),
                                    ![p].out = @ \cup {e} \cup (IF s \in Spans THEN {pending[s]} \ {None} ELSE {})]
          /\ gone' = gone /\ pending' = IF s \in Spans THEN [pending EXCEPT ![s] = None] ELSE pending
      BY <1>14 DEF ProjectEnvelope
    <3>2. Q = IF s \in Spans THEN {pending[s]} \ {None} ELSE {}
      OBVIOUS
    <3>3. pending' = [r \in Spans |-> IF r \in old THEN None ELSE pending[r]]
      BY <1>d, <3>1
    <3> HIDE DEF Q
    <3> QED
      BY <1>3, <3>1, <3>2, <3>3 DEF CallAt
  <2>2. old \in SUBSET Spans
    OBVIOUS
  <2> HIDE DEF old
  <2>3. Q \subseteq T
    BY <2>2 DEF Tracker
  <2>4. O \in SUBSET Envs /\ O \cap ToSet(rest) = {}
    BY <1>4, <1>5, <1>6, <1>8, <2>3
  <2>5. /\ OtlpWork' /\ B[p] = ToSet(rest) \cup O /\ oWork'[p].pc = "project"
        /\ oWork'[p].closing = v.closing
        /\ \A q \in Procs : q # p => oWork'[q] = oWork[q] /\ B[q] = C[q]
    BY <1>9, <2>1, <2>4
  <2>6. /\ pending' \in [Spans -> Envs \cup {None}]
        /\ \A r \in Spans : pending'[r] # None => SpanOf[pending'[r]] = r
        /\ Tracker' = T \ Q
    <3>1. T \ {pending[r] : r \in old} = T \ Q
      BY DEF Tracker
    <3> QED
      BY <1>1, <2>1, <2>2, <3>1, TrackerMoves
  <2>7. B[p] = C[p] \cup Q
    BY <1>6, <2>5
  <2> HIDE DEF T, R, I, D, B, C, H, e, Q, O
  <2>8. Spread(D, I, T \ Q, R, B)
    BY ONLY <1>1, <2>3, <2>5, <2>7, p \in Procs, SpreadMoves
  <2>9. \A x : x \in Held(I, T \ Q, R, B) <=> x \in H
    BY ONLY <2>3, <2>5, <2>7, p \in Procs, HeldIs DEF H
  <2>10. gone' \in [Causes -> SUBSET Envs] /\ Fates
    <3>1. Held(I, T \ Q, R, B) = H
      BY <2>9
    <3> QED
      BY <1>1, <1>d, <2>1, <2>6, <3>1 DEF LedgerMoves
  <2> HIDE DEF Fates
  <2> QED
    BY <1>10, <2>3, <2>5, <2>6, <2>7, <2>8, <2>10
<1> QED
  BY <1>12, <1>13, <1>14

LEMMA OtlpStep == OtlpInv /\ [OtlpNext]_oVars => OtlpInv' /\ LedgerMoves(OtlpLedger, OtlpLedger')
<1> SUFFICES ASSUME OtlpInv, [OtlpNext]_oVars
             PROVE  OtlpInv' /\ LedgerMoves(OtlpLedger, OtlpLedger')
  OBVIOUS
<1>1. CASE OtlpNext
  <2>1. PICK p \in Procs :
            \/ \E e \in Envs, aged \in BOOLEAN : Deliver(p, e, aged)
            \/ \E closing \in BOOLEAN : FlushOtlp(p, closing)
            \/ Classify(p) \/ ProjectEnvelope(p) \/ ProjectBatch(p)
            \/ \E old \in SUBSET Spans : SweepOrphans(p, old)
            \/ ExportOk(p) \/ ExportPanics(p) \/ RetryPop(p) \/ RetryEmpty(p)
            \/ \E taken \in BOOLEAN : ExportFails(p, taken) \/ ExportAgain(p, taken)
    BY <1>1 DEF OtlpNext
  <2>2. CASE \E e \in Envs, aged \in BOOLEAN : Deliver(p, e, aged)
    BY <2>2, DeliverKeeps
  <2>3. CASE \E closing \in BOOLEAN : FlushOtlp(p, closing)
    BY <2>3, FlushKeeps
  <2>4. CASE Classify(p) \/ ProjectEnvelope(p) \/ ProjectBatch(p)
    BY <2>4, ClassifyKeeps, ProjectEnvelopeKeeps, ProjectBatchKeeps
  <2>5. CASE \E old \in SUBSET Spans : SweepOrphans(p, old)
    BY <2>5, SweepKeepsRest
  <2>6. CASE ExportOk(p) \/ ExportPanics(p) \/ RetryPop(p) \/ RetryEmpty(p)
    BY <2>6, ExportOkKeeps, ExportPanicsKeeps, RetryPopKeeps, RetryEmptyKeeps
  <2>7. CASE \E taken \in BOOLEAN : ExportFails(p, taken) \/ ExportAgain(p, taken)
    BY <2>7, ExportFailsKeeps, ExportAgainKeeps
  <2> QED
    BY <2>1, <2>2, <2>3, <2>4, <2>5, <2>6, <2>7
<1>2. CASE UNCHANGED oVars
  <2>1. /\ OtlpData' /\ OtlpWork' /\ Alone' /\ Tracker' = Tracker /\ Queue' = Queue
        /\ OtlpCalls' = OtlpCalls /\ ToSet(items') = ToSet(items)
    BY <1>2 DEF oVars, OtlpInv, OtlpData, OtlpWork, CallShape, Alone, Tracker, Queue, OtlpCalls
  <2>2. /\ Spread(oDelivered', ToSet(items'), Tracker', Queue', OtlpCalls')
        /\ Fate(oDelivered', Held(ToSet(items'), Tracker', Queue', OtlpCalls'), exported', unanswered', gone')
    BY <1>2, <2>1 DEF oVars, OtlpInv
  <2>3. AnswersLost'
    BY <1>2, <2>1 DEF oVars, OtlpInv, AnswersLost
  <2>4. OtlpLedger' = OtlpLedger
    BY <1>2 DEF oVars, OtlpLedger
  <2> QED
    BY <2>1, <2>2, <2>3, <2>4 DEF OtlpInv, LedgerMoves
<1> QED
  BY <1>1, <1>2

LEMMA OtlpFollows == OtlpInv => OtlpTracked /\ OtlpOnce /\ OtlpEmptied
<1> SUFFICES ASSUME OtlpInv PROVE OtlpTracked /\ OtlpOnce /\ OtlpEmptied
  OBVIOUS
<1> DEFINE C == OtlpCalls
           H == Held(ToSet(items), Tracker, Queue, C)
<1>1. /\ OtlpData /\ OtlpWork /\ Alone
      /\ Fate(oDelivered, H, exported, unanswered, gone)
  BY DEF OtlpInv
<1>2. exported \in [Envs -> Nat]
  BY <1>1 DEF OtlpData
<1>3. OtlpTracked
  <2> SUFFICES ASSUME NEW e \in Envs, OtlpLedger[e] = "held" PROVE OtlpHeld(e)
    BY DEF OtlpTracked
  <2>1. e \in oDelivered /\ ~(exported[e] > 0) /\ ~\E c \in Causes : e \in gone[c]
    BY DEF OtlpLedger
  <2>2. e \in H
    BY <1>1, <1>2, <2>1 DEF Fate
  <2>3. e \in ToSet(items) \/ e \in Tracker \/ e \in Queue \/ \E p \in Procs : e \in C[p]
    BY <2>2, HeldIs
  <2>4. CASE e \in Tracker
    BY <2>4 DEF Tracker, OtlpHeld
  <2>5. CASE e \in Queue
    <3>1. retry \in Seq(SUBSET Envs)
      BY <1>1 DEF OtlpData
    <3>2. ToSet(retry) = {retry[i] : i \in 1..Len(retry)}
      BY <3>1, RangeOf, ToSetIsRange
    <3> QED
      BY <2>5, <3>2 DEF Queue, OtlpHeld
  <2>6. ASSUME NEW p \in Procs, e \in C[p] PROVE OtlpHeld(e)
    <3>1. e \in Carried(oWork[p])
      BY <2>6 DEF OtlpCalls
    <3> QED
      BY <3>1 DEF Carried, InCall, OtlpHeld
  <2> QED
    BY <2>3, <2>4, <2>5, <2>6 DEF OtlpHeld
<1>4. OtlpOnce
  <2> SUFFICES ASSUME NEW e \in Envs
               PROVE  exported[e] + Cardinality({c \in Causes : e \in gone[c]})
                        <= IF e \in unanswered THEN 2 ELSE 1
    BY DEF OtlpOnce
  <2> DEFINE G == {c \in Causes : e \in gone[c]}
             n == Cardinality(G)
             most == IF e \in unanswered THEN 2 ELSE 1
  <2> SUFFICES exported[e] + n <= most
    OBVIOUS
  <2>0. most \in {1, 2}
    OBVIOUS
  <2> HIDE DEF most
  <2>1. G = {} => n = 0
    BY FS_EmptySet
  <2>2. \A c : G = {c} => n = 1
    BY FS_Singleton
  <2>3. CASE G = {}
    <3>1. exported[e] \in Nat /\ exported[e] <= most
      BY <1>1, <1>2, <2>3 DEF Fate, most
    <3>2. n = 0
      BY <2>1, <2>3
    <3> HIDE DEF n
    <3> QED
      BY <3>1, <3>2
  <2>4. CASE G # {}
    <3>1. exported[e] = 0 /\ \E c \in Causes : G = {c}
      BY <1>1, <2>4 DEF Fate
    <3>2. PICK c \in Causes : G = {c}
      BY <3>1
    <3>3. n = 1
      BY ONLY <3>2, FS_Singleton
    <3> HIDE DEF n
    <3> QED
      BY <2>0, <3>1, <3>3
  <2> QED
    BY <2>3, <2>4
<1>5. OtlpEmptied
  BY <1>1 DEF Alone, OtlpEmptied
<1> QED
  BY <1>3, <1>4, <1>5

-------------------------------------------------------------------------------
(* The other two export sinks move the ledger as DeliveryLedger does. *)

LEMMA MovesByEnvelope ==
    ASSUME NEW l, NEW m, l = [e \in Envs |-> l[e]], m = [e \in Envs |-> m[e]]
    PROVE  /\ (\A f \in Envs : m[f] = l[f]) => LedgerMoves(l, m)
           /\ \A e \in Envs : l[e] = "new" /\ (\A f \in Envs : m[f] = IF f = e THEN "held" ELSE l[f])
                => LedgerMoves(l, m)
           /\ \A S : (\A e \in S \cap Envs : l[e] = "held")
                    /\ (\A f \in Envs : m[f] = IF f \in S THEN "sent" ELSE l[f]) => LedgerMoves(l, m)
           /\ \A S : (\A e \in S \cap Envs : l[e] = "held")
                    /\ (\A f \in Envs : m[f] = IF f \in S THEN "lost" ELSE l[f]) => LedgerMoves(l, m)
<1>1. ASSUME \A f \in Envs : m[f] = l[f] PROVE LedgerMoves(l, m)
  <2>1. [e \in Envs |-> m[e]] = [e \in Envs |-> l[e]]
    BY <1>1
  <2> QED
    BY <2>1 DEF LedgerMoves
<1>2. ASSUME NEW e \in Envs, l[e] = "new", \A f \in Envs : m[f] = IF f = e THEN "held" ELSE l[f]
      PROVE  LedgerMoves(l, m)
  <2>1. [f \in Envs |-> m[f]] = [f \in Envs |-> IF f = e THEN "held" ELSE l[f]]
    BY <1>2
  <2> QED
    BY <1>2, <2>1 DEF LedgerMoves
<1>3. ASSUME NEW S, NEW to \in {"sent", "lost"}, \A e \in S \cap Envs : l[e] = "held",
             \A f \in Envs : m[f] = IF f \in S THEN to ELSE l[f]
      PROVE  LedgerMoves(l, m)
  <2> DEFINE Z == S \cap Envs
  <2>1. [f \in Envs |-> m[f]] = [f \in Envs |-> IF f \in Z THEN to ELSE l[f]]
    BY <1>3
  <2>2. Z \in SUBSET Envs /\ \A e \in Z : l[e] = "held"
    BY <1>3
  <2> HIDE DEF Z
  <2>3. CASE to = "sent"
    BY <2>1, <2>2, <2>3 DEF LedgerMoves
  <2>4. CASE to = "lost"
    BY <2>1, <2>2, <2>4 DEF LedgerMoves
  <2> QED
    BY <2>3, <2>4
<1> QED
  BY <1>1, <1>2, <1>3

LEMMA ClickHouseMoves ==
    ClickHouseInv /\ [ClickHouseNext]_cVars => LedgerMoves(ClickHouseLedger, ClickHouseLedger')
<1> DEFINE l == ClickHouseLedger
           m == ClickHouseLedger'
<1> SUFFICES ASSUME ClickHouseInv, [ClickHouseNext]_cVars PROVE LedgerMoves(l, m)
  OBVIOUS
<1>1. Apart(cDelivered, ToSet(rows), Calls, acked, givenUp) /\ ClickHouseType
  BY DEF ClickHouseInv
<1>2. l = [e \in Envs |-> l[e]] /\ m = [e \in Envs |-> m[e]]
  BY DEF ClickHouseLedger
<1>3. /\ \A e \in Envs : l[e] = IF e \notin cDelivered THEN "new" ELSE IF e \in acked THEN "sent"
                                ELSE IF e \in givenUp THEN "lost" ELSE "held"
      /\ \A e \in Envs : m[e] = IF e \notin cDelivered' THEN "new" ELSE IF e \in acked' THEN "sent"
                                ELSE IF e \in givenUp' THEN "lost" ELSE "held"
  BY DEF ClickHouseLedger
<1> HIDE DEF l, m
<1>4. ASSUME UNCHANGED <<cDelivered, acked, givenUp>> PROVE LedgerMoves(l, m)
  BY <1>2, <1>3, <1>4, MovesByEnvelope
<1>5. ASSUME NEW p \in Procs, NEW e \in Envs, NEW aged \in BOOLEAN, DeliverRow(p, e, aged)
      PROVE  LedgerMoves(l, m)
  <2>1. e \notin cDelivered /\ cDelivered' = cDelivered \cup {e} /\ acked' = acked /\ givenUp' = givenUp
    BY <1>5 DEF DeliverRow
  <2>2. e \notin acked /\ e \notin givenUp
    BY <1>1, <2>1 DEF Apart
  <2>3. l[e] = "new" /\ \A f \in Envs : m[f] = IF f = e THEN "held" ELSE l[f]
    BY <1>3, <2>1, <2>2
  <2> QED
    BY <1>2, <2>3, MovesByEnvelope
<1>6. ASSUME NEW p \in Procs PROVE \A e \in ToSet(cWork[p].batch) : e \in Envs => l[e] = "held"
  <2>1. Calls[p] = ToSet(cWork[p].batch)
    BY <1>1, CallsAre DEF ClickHouseType
  <2> QED
    BY <1>1, <1>3, <2>1 DEF Apart
<1>7. ASSUME NEW p \in Procs, InsertOk(p) PROVE LedgerMoves(l, m)
  <2> DEFINE S == ToSet(cWork[p].batch)
  <2>1. acked' = acked \cup S /\ cDelivered' = cDelivered /\ givenUp' = givenUp
    BY <1>7 DEF InsertOk
  <2>2. \A e \in S \cap Envs : l[e] = "held"
    BY <1>6
  <2> HIDE DEF S
  <2>3. \A f \in Envs : m[f] = IF f \in S THEN "sent" ELSE l[f]
    BY <1>3, <2>1, <2>2
  <2> QED
    BY <1>2, <2>2, <2>3, MovesByEnvelope
<1>8. ASSUME NEW p \in Procs, NEW applied \in BOOLEAN, InsertFails(p, applied) PROVE LedgerMoves(l, m)
  <2> DEFINE S == ToSet(cWork[p].batch)
  <2>1. acked' = acked /\ cDelivered' = cDelivered /\ (givenUp' = givenUp \/ givenUp' = givenUp \cup S)
    BY <1>8 DEF InsertFails, GiveUp, BackoffPanics
  <2>2. \A e \in S \cap Envs : l[e] = "held"
    BY <1>6
  <2> HIDE DEF S
  <2>3. CASE givenUp' = givenUp \cup S
    <3>1. \A f \in Envs : m[f] = IF f \in S THEN "lost" ELSE l[f]
      BY <1>3, <2>1, <2>2, <2>3
    <3> QED
      BY <1>2, <2>2, <3>1, MovesByEnvelope
  <2> QED
    BY <1>4, <2>1, <2>3
<1>9. ASSUME NEW p \in Procs, DrainNow(p) PROVE LedgerMoves(l, m)
  BY <1>4, <1>9 DEF DrainNow
<1>10. CASE UNCHANGED cVars
  BY <1>4, <1>10 DEF cVars
<1> QED
  BY <1>5, <1>7, <1>8, <1>9, <1>10 DEF ClickHouseNext

LEMMA ParquetMoves ==
    ParquetInv /\ [ParquetNext]_pVars => LedgerMoves(ParquetLedger, ParquetLedger')
<1> DEFINE l == ParquetLedger
           m == ParquetLedger'
           In(e) == \E f \in files : e \in ToSet(f.rows)
           Now(e) == \E f \in files' : e \in ToSet(f.rows)
<1> SUFFICES ASSUME ParquetInv, [ParquetNext]_pVars PROVE LedgerMoves(l, m)
  OBVIOUS
<1>1. ParquetPlaces /\ ParquetType
  BY DEF ParquetInv
<1>2. l = [e \in Envs |-> l[e]] /\ m = [e \in Envs |-> m[e]]
  BY DEF ParquetLedger
<1>3. /\ \A e \in Envs : l[e] = IF e \notin pDelivered THEN "new" ELSE IF In(e) THEN "sent"
                                ELSE IF e \in lostAtCrash THEN "lost" ELSE "held"
      /\ \A e \in Envs : m[e] = IF e \notin pDelivered' THEN "new" ELSE IF Now(e) THEN "sent"
                                ELSE IF e \in lostAtCrash' THEN "lost" ELSE "held"
  <2>1. /\ \A e : Stored(e) # {} <=> In(e)
        /\ \A e : Stored(e)' # {} <=> Now(e)
    BY DEF Stored
  <2> HIDE DEF In, Now
  <2> QED
    BY <2>1 DEF ParquetLedger
<1> HIDE DEF l, m
<1>4. ASSUME UNCHANGED <<pDelivered, files, lostAtCrash>> PROVE LedgerMoves(l, m)
  <2>1. \A e : In(e) <=> Now(e)
    BY <1>4
  <2> HIDE DEF In, Now
  <2>2. \A e \in Envs : m[e] = l[e]
    BY <1>3, <1>4, <2>1
  <2> QED
    BY <1>2, <2>2, MovesByEnvelope
<1>5. ASSUME NEW p \in Procs, NEW e \in Envs, AppendToPartition(p, e) PROVE LedgerMoves(l, m)
  <2>1. e \notin pDelivered /\ pDelivered' = pDelivered \cup {e} /\ files' = files /\ lostAtCrash' = lostAtCrash
    BY <1>5 DEF AppendToPartition
  <2>2. e \notin lostAtCrash /\ ~In(e) /\ \A f : In(f) <=> Now(f)
    BY <1>1, <2>1 DEF ParquetPlaces
  <2> HIDE DEF In, Now
  <2>3. l[e] = "new" /\ \A f \in Envs : m[f] = IF f = e THEN "held" ELSE l[f]
    BY <1>3, <2>1, <2>2
  <2> QED
    BY <1>2, <2>3, MovesByEnvelope
<1>6. ASSUME NEW k \in Keys PROVE \A e \in ToSet(bufs[k]) : e \in Envs => l[e] = "held"
  <2>1. \A e \in ToSet(bufs[k]) : e \in pDelivered /\ e \notin lostAtCrash /\ ~In(e)
    BY <1>1 DEF ParquetPlaces
  <2> HIDE DEF In
  <2> QED
    BY <1>3, <2>1
<1>7. ASSUME NEW p \in Procs, RenameTmp(p) PROVE LedgerMoves(l, m)
  <2> DEFINE w == pWork[p]
             k == w.key
             new == [id |-> w.id, key |-> k, rows |-> bufs[k]]
             S == ToSet(bufs[k])
  <2>1. w.pc = "rename" /\ files' = files \cup {new} /\ lostAtCrash' = lostAtCrash /\ pDelivered' = pDelivered
    BY <1>7 DEF RenameTmp
  <2>2. k \in Keys
    BY <1>1, <2>1 DEF ParquetType, ParquetAt, ResumeAt, Rest
  <2>3. \A e : Now(e) <=> In(e) \/ e \in S
    <3>1. new.rows = bufs[k]
      OBVIOUS
    <3> HIDE DEF new
    <3> QED
      BY <2>1, <3>1
  <2>4. \A e \in S \cap Envs : l[e] = "held"
    BY <1>6, <2>2
  <2> HIDE DEF S, In, Now
  <2>5. \A f \in Envs : m[f] = IF f \in S THEN "sent" ELSE l[f]
    BY <1>3, <2>1, <2>3, <2>4
  <2> QED
    BY <1>2, <2>4, <2>5, MovesByEnvelope
<1>8. ASSUME Restart PROVE LedgerMoves(l, m)
  <2> DEFINE S == (UNION {ToSet(bufs[k]) : k \in Keys})
  <2>1. lostAtCrash' = lostAtCrash \cup S /\ files' = files /\ pDelivered' = pDelivered
    BY <1>8 DEF Restart
  <2>2. \A e : In(e) <=> Now(e)
    BY <2>1
  <2>3. \A e \in S \cap Envs : l[e] = "held"
    BY <1>6
  <2> HIDE DEF S, In, Now
  <2>4. \A f \in Envs : m[f] = IF f \in S THEN "lost" ELSE l[f]
    BY <1>3, <2>1, <2>2, <2>3
  <2> QED
    BY <1>2, <2>3, <2>4, MovesByEnvelope
<1>9. ASSUME NEW p \in Procs,
             \/ \E aged \in BOOLEAN : MaybeFlush(p, aged)
             \/ DrainAll(p) \/ Drained(p) \/ (\E k \in Keys : DrainNext(p, k))
             \/ WriteTmp(p) \/ RollFails(p)
      PROVE  LedgerMoves(l, m)
  <2>1. UNCHANGED <<pDelivered, files, lostAtCrash>>
    BY <1>9 DEF MaybeFlush, DrainAll, Drained, DrainNext, WriteTmp, RollFails
  <2> QED
    BY <1>4, <2>1
<1>10. CASE UNCHANGED pVars
  BY <1>4, <1>10 DEF pVars
<1> QED
  BY <1>5, <1>7, <1>8, <1>9, <1>10 DEF ParquetNext

-------------------------------------------------------------------------------
(* The non-blocking writer: a line is in one place. *)

(* N: the lines, O: output, U: unwritten, H: in hand, C: queued, R: refused, *)
(* S: stranded, B: in the handles.                                           *)
Parted(N, O, U, H, C, R, S, B) ==
    /\ \A e : e \in N <=> \/ e \in O \/ e \in U \/ e \in H \/ e \in C \/ e \in R \/ e \in S
                          \/ \E h \in Handle : e \in B[h]
    /\ \A e \in O : e \notin U /\ e \notin H /\ e \notin C /\ e \notin R /\ e \notin S
    /\ \A e \in U : e \notin H /\ e \notin C /\ e \notin R /\ e \notin S
    /\ \A e \in H : e \notin C /\ e \notin R /\ e \notin S
    /\ \A e \in C : e \notin R /\ e \notin S
    /\ \A e \in R : e \notin S
    /\ \A h \in Handle : \A e \in B[h] :
         e \notin O /\ e \notin U /\ e \notin H /\ e \notin C /\ e \notin R /\ e \notin S
    /\ \A h, g \in Handle : h # g => \A e \in B[h] : e \notin B[g]

Bufs == [h \in Handle |-> Range(buf[h])]

(* A buffer of a handle: its lines, each once. *)
Buffers == {s \in Seq(Nat) : IsInjective(s) /\ Len(s) <= MaxBatch}

Disjoint(c) == \A i, j \in 1..Len(c) : i # j => Range(c[i]) \cap Range(c[j]) = {}

NbData ==
    /\ buf \in [Handle -> Buffers] /\ chan \in Seq(Buffers) /\ hand \in Buffers
    /\ output \in Seq(Nat) /\ IsInjective(output)
    /\ lines \in Nat /\ drops \in Nat /\ IsFiniteSet(refused)
    /\ Disjoint(chan)

NbPhases ==
    /\ thread \in {"recv", "write", "drain", "rewrite", "leave", "done"}
    /\ thread \in {"recv", "drain", "leave", "done"} => hand = <<>>
    /\ thread # "done" => stranded = {}
    /\ guard = "gone" => thread = "done"
    /\ guard # "live" =>
         /\ mark \subseteq Range(output) \cup unwritten \cup Range(hand) \cup Lines(chan)
         /\ thread \in {"leave", "done"} => mark \subseteq Range(output) \cup unwritten

NbDrops ==
    /\ drops > 0 <=> refused # {}
    /\ drops <= Cardinality(refused) /\ Cardinality(refused) <= drops * MaxBatch

NbParted == Parted(1..lines, Range(output), unwritten, Range(hand), Lines(chan), refused, stranded, Bufs)

NbInv == NbData /\ NbPhases /\ NbDrops /\ NbParted

LEMMA PartedMoves ==
    ASSUME NEW N, NEW O, NEW U, NEW H, NEW C, NEW R, NEW S, NEW B, Parted(N, O, U, H, C, R, S, B)
    PROVE  /\ Parted(N, O \cup H, U, {}, C, R, S, B) /\ Parted(N, O, U \cup H, {}, C, R, S, B)
           /\ \A M : M \subseteq C /\ H = {} => Parted(N, O, U, M, C \ M, R, S, B)
           /\ S = {} => Parted(N, O, U, H, {}, R, C, B)
           /\ \A A : \A h \in Handle : (\A g \in Handle : g # h => A[g] = B[g]) =>
                /\ \A e : e \notin N /\ A[h] = B[h] \cup {e} => Parted(N \cup {e}, O, U, H, C, R, S, A)
                /\ A[h] = {} => /\ Parted(N, O, U, H, C \cup B[h], R, S, A)
                                /\ Parted(N, O, U, H, C, R \cup B[h], S, A)
<1>1. Parted(N, O \cup H, U, {}, C, R, S, B)
  BY DEF Parted
<1>2. Parted(N, O, U \cup H, {}, C, R, S, B)
  BY DEF Parted
<1>3. ASSUME NEW M, M \subseteq C, H = {} PROVE Parted(N, O, U, M, C \ M, R, S, B)
  BY <1>3 DEF Parted
<1>4. ASSUME S = {} PROVE Parted(N, O, U, H, {}, R, C, B)
  BY <1>4 DEF Parted
<1>5. ASSUME NEW h \in Handle, NEW A, \A g \in Handle : g # h => A[g] = B[g]
      PROVE  /\ \A e : e \notin N /\ A[h] = B[h] \cup {e} => Parted(N \cup {e}, O, U, H, C, R, S, A)
             /\ A[h] = {} => /\ Parted(N, O, U, H, C \cup B[h], R, S, A)
                             /\ Parted(N, O, U, H, C, R \cup B[h], S, A)
  <2>1. ASSUME NEW e, e \notin N, A[h] = B[h] \cup {e} PROVE Parted(N \cup {e}, O, U, H, C, R, S, A)
    BY <1>5, <2>1 DEF Parted
  <2>2. ASSUME A[h] = {} PROVE Parted(N, O, U, H, C \cup B[h], R, S, A)
    BY <1>5, <2>2 DEF Parted
  <2>3. ASSUME A[h] = {} PROVE Parted(N, O, U, H, C, R \cup B[h], S, A)
    BY <1>5, <2>3 DEF Parted
  <2> QED
    BY <2>1, <2>2, <2>3
<1> QED
  BY <1>1, <1>2, <1>3, <1>4, <1>5

(* Appending a buffer to the output. *)
LEMMA ConcatKeeps ==
    ASSUME NEW S, NEW s, s \in Seq(S), NEW t, t \in Seq(S)
    PROVE  /\ s \o t \in Seq(S) /\ Range(s \o t) = Range(s) \cup Range(t)
           /\ IsInjective(s) /\ IsInjective(t) /\ Range(s) \cap Range(t) = {} => IsInjective(s \o t)
<1> DEFINE u == s \o t
           m == Len(s)
           n == Len(t)
<1>1. /\ m \in Nat /\ n \in Nat /\ u \in Seq(S) /\ Len(u) = m + n
      /\ DOMAIN s = 1..m /\ DOMAIN t = 1..n /\ DOMAIN u = 1..Len(u)
  OBVIOUS
<1>2. \A i \in 1..(m + n) : u[i] = IF i <= m THEN s[i] ELSE t[i - m]
  OBVIOUS
<1> HIDE DEF u, m, n
<1>d. DOMAIN u = 1..(m + n)
  BY <1>1
<1>3. \A i \in 1..(m + n) : IF i <= m THEN i \in 1..m ELSE i - m \in 1..n
  BY ONLY <1>1
<1>4. /\ \A i \in 1..m : i \in 1..(m + n) /\ i <= m
      /\ \A i \in 1..n : i + m \in 1..(m + n) /\ ~(i + m <= m) /\ i + m - m = i
      /\ \A i, j \in 1..(m + n) : i - m = j - m => i = j
  BY ONLY <1>1
<1>5. Range(u) = Range(s) \cup Range(t)
  <2>1. ASSUME NEW i \in 1..(m + n) PROVE u[i] \in Range(s) \cup Range(t)
    BY <1>1, <1>2, <1>3 DEF Range
  <2>2. ASSUME NEW i \in 1..m PROVE s[i] \in Range(u)
    <3>1. u[i] = s[i] /\ i \in 1..(m + n)
      BY <1>2, <1>4
    <3> QED
      BY ONLY <1>d, <3>1 DEF Range
  <2>3. ASSUME NEW i \in 1..n PROVE t[i] \in Range(u)
    <3> DEFINE k == i + m
    <3>0. m \in Nat /\ n \in Nat
      BY ONLY <1>1
    <3>1. k \in 1..(m + n) /\ ~(k <= m) /\ k - m = i
      BY ONLY <3>0, i \in 1..n
    <3> HIDE DEF k
    <3>2. u[k] = t[k - m]
      BY ONLY <1>2, <3>1
    <3>3. u[k] = t[i]
      BY <3>1, <3>2
    <3> QED
      BY ONLY <1>d, <3>1, <3>3 DEF Range
  <2>4. Range(u) = {u[i] : i \in 1..(m + n)} /\ Range(s) = {s[i] : i \in 1..m} /\ Range(t) = {t[i] : i \in 1..n}
    BY <1>1, <1>d DEF Range
  <2> QED
    BY <2>1, <2>2, <2>3, <2>4
<1>6. ASSUME IsInjective(s), IsInjective(t), Range(s) \cap Range(t) = {} PROVE IsInjective(u)
  <2> SUFFICES ASSUME NEW i \in 1..(m + n), NEW j \in 1..(m + n), u[i] = u[j] PROVE i = j
    BY <1>d DEF IsInjective
  <2>1. CASE i <= m /\ j <= m
    BY <1>1, <1>2, <1>3, <1>6, <2>1 DEF IsInjective
  <2>2. CASE ~(i <= m) /\ ~(j <= m)
    <3>1. t[i - m] = t[j - m] /\ i - m \in 1..n /\ j - m \in 1..n
      BY <1>2, <1>3, <2>2
    <3>2. i - m = j - m
      BY <1>1, <1>6, <3>1 DEF IsInjective
    <3> QED
      BY <1>4, <3>2
  <2>3. CASE (i <= m) # (j <= m)
    <3>1. \A k \in 1..m : s[k] \in Range(s)
      BY <1>1 DEF Range
    <3>2. \A k \in 1..n : t[k] \in Range(t)
      BY <1>1 DEF Range
    <3> QED
      BY <1>2, <1>3, <1>6, <2>3, <3>1, <3>2
  <2> QED
    BY <2>1, <2>2, <2>3
<1> QED
  BY <1>1, <1>5, <1>6 DEF u

LEMMA LinesAre == ASSUME NEW S, NEW c \in Seq(S) PROVE \A e : e \in Lines(c) <=> \E x \in Range(c) : e \in Range(x)
<1>1. DOMAIN c = 1..Len(c) /\ Range(c) = {c[i] : i \in 1..Len(c)}
  BY RangeOf
<1> QED
  BY ONLY <1>1 DEF Lines

LEMMA LinesTail ==
    ASSUME NEW S, NEW c \in Seq(S), c # <<>>, Disjoint(c)
    PROVE  /\ Head(c) \in S /\ Tail(c) \in Seq(S) /\ Disjoint(Tail(c))
           /\ Lines(Tail(c)) = Lines(c) \ Range(Head(c)) /\ Range(Head(c)) \subseteq Lines(c)
<1> DEFINE n == Len(c)
           t == Tail(c)
           x == Head(c)
<1>1. \A i, j \in 1..n : i # j => Range(c[i]) \cap Range(c[j]) = {}
  BY DEF Disjoint
<1>2. /\ t \in Seq(S) /\ Len(t) = n - 1 /\ x = c[1] /\ 1 \in 1..n
      /\ \A i \in 1..(n - 1) : t[i] = c[i + 1] /\ i + 1 \in 1..n
  BY TailIs
<1>3. x \in S /\ Range(c) = {x} \union Range(t)
  BY RangeOf
<1>4. Range(t) = {t[i] : i \in 1..Len(t)}
  BY <1>2, RangeOf
<1>n. n \in Nat
  OBVIOUS
<1>l. /\ \A e : e \in Lines(c) <=> \E y \in Range(c) : e \in Range(y)
      /\ \A e : e \in Lines(t) <=> \E y \in Range(t) : e \in Range(y)
  BY <1>2, LinesAre
<1> HIDE DEF n, t, x
<1>5. \A i \in 1..(n - 1) : i + 1 # 1
  BY ONLY <1>n
<1>6. \A i, j \in 1..(n - 1) : i + 1 = j + 1 => i = j
  BY ONLY <1>n
<1>t. /\ Len(t) = n - 1 /\ x = c[1] /\ 1 \in 1..n
      /\ \A i \in 1..(n - 1) : t[i] = c[i + 1] /\ i + 1 \in 1..n
  BY <1>2
<1>7. Disjoint(t)
  <2> SUFFICES ASSUME NEW i \in 1..(n - 1), NEW j \in 1..(n - 1), i # j
               PROVE  Range(t[i]) \cap Range(t[j]) = {}
    BY <1>t DEF Disjoint
  <2>1. i + 1 # j + 1 /\ i + 1 \in 1..n /\ j + 1 \in 1..n
    BY <1>6, <1>t
  <2>2. t[i] = c[i + 1] /\ t[j] = c[j + 1]
    BY ONLY <1>t, i \in 1..(n - 1), j \in 1..(n - 1)
  <2> QED
    BY ONLY <1>1, <2>1, <2>2
<1>8. \A y \in Range(t) : Range(y) \cap Range(x) = {}
  <2> SUFFICES ASSUME NEW i \in 1..(n - 1) PROVE Range(t[i]) \cap Range(x) = {}
    BY <1>t, <1>4
  <2>1. i + 1 # 1 /\ i + 1 \in 1..n
    BY <1>5, <1>t
  <2>2. t[i] = c[i + 1]
    BY ONLY <1>t, i \in 1..(n - 1)
  <2> QED
    BY ONLY <1>1, <1>t, <2>1, <2>2
<1>9. Range(x) \subseteq Lines(c)
  BY ONLY <1>3, <1>l
<1>10. \A e : e \in Lines(t) <=> e \in Lines(c) /\ e \notin Range(x)
  BY ONLY <1>3, <1>8, <1>l
<1> QED
  BY <1>2, <1>3, <1>7, <1>9, <1>10 DEF t, x

LEMMA LinesAppend ==
    ASSUME NEW S, NEW c \in Seq(S), NEW x \in S, Disjoint(c), \A e \in Range(x) : e \notin Lines(c)
    PROVE  /\ Append(c, x) \in Seq(S) /\ Disjoint(Append(c, x))
           /\ Lines(Append(c, x)) = Lines(c) \cup Range(x)
<1> DEFINE n == Len(c)
           t == Append(c, x)
<1>1. \A i, j \in 1..n : i # j => Range(c[i]) \cap Range(c[j]) = {}
  BY DEF Disjoint
<1>2. /\ t \in Seq(S) /\ Len(t) = n + 1 /\ t[n + 1] = x
      /\ \A i \in 1..n : t[i] = c[i]
      /\ \A i \in 1..(n + 1) : i = n + 1 \/ i \in 1..n
  BY AppendIs
<1>3. Range(t) = Range(c) \union {x} /\ Range(c) = {c[i] : i \in 1..n}
  BY RangeOf
<1>l. /\ \A e : e \in Lines(c) <=> \E y \in Range(c) : e \in Range(y)
      /\ \A e : e \in Lines(t) <=> \E y \in Range(t) : e \in Range(y)
  BY <1>2, LinesAre
<1>h. \A e \in Range(x) : e \notin Lines(c)
  OBVIOUS
<1> HIDE DEF n, t
<1>4. \A i \in 1..n : Range(c[i]) \cap Range(x) = {}
  BY ONLY <1>3, <1>l, <1>h
<1>5. Disjoint(t)
  BY <1>1, <1>2, <1>4 DEF Disjoint
<1>6. \A e : e \in Lines(t) <=> e \in Lines(c) \/ e \in Range(x)
  BY ONLY <1>3, <1>l
<1> QED
  BY <1>2, <1>5, <1>6 DEF t

LEMMA LinesNone == Lines(<<>>) = {} /\ Disjoint(<<>>)
BY DEF Lines, Disjoint

LEMMA NbStart == NbInit => NbInv
<1> SUFFICES ASSUME NbInit PROVE NbInv
  OBVIOUS
<1>1. <<>> \in Buffers
  BY NonBlockingAssumption DEF Buffers, IsInjective
<1>2. NbData
  <2>1. <<>> \in Seq(Buffers) /\ <<>> \in Seq(Nat) /\ IsInjective(<<>>) /\ IsFiniteSet({})
    BY FS_EmptySet DEF IsInjective
  <2>2. buf \in [Handle -> Buffers]
    BY <1>1 DEF NbInit
  <2>3. chan = <<>> /\ hand = <<>> /\ output = <<>> /\ lines = 0 /\ drops = 0 /\ refused = {}
    BY DEF NbInit
  <2> QED
    BY <1>1, <2>1, <2>2, <2>3, LinesNone DEF NbData
<1>3. NbPhases
  <2>1. thread = "recv" /\ hand = <<>> /\ stranded = {} /\ guard = "live"
    BY DEF NbInit
  <2> QED
    BY ONLY <2>1 DEF NbPhases
<1>4. NbDrops
  BY NonBlockingAssumption, FS_EmptySet DEF NbInit, NbDrops
<1>5. NbParted
  <2>1. /\ Range(output) = {} /\ Range(hand) = {} /\ Lines(chan) = {} /\ 1..lines = {}
        /\ unwritten = {} /\ refused = {} /\ stranded = {} /\ \A h \in Handle : Bufs[h] = {}
    BY LinesNone, RangeEmpty DEF NbInit, Bufs
  <2> QED
    BY <2>1 DEF NbParted, Parted
<1> QED
  BY <1>2, <1>3, <1>4, <1>5 DEF NbInv

LEMMA NbFollows == NbInv => LinesAccounted
<1> SUFFICES ASSUME NbInv PROVE LinesAccounted
  OBVIOUS
<1> DEFINE b == UNION {Range(buf[h]) : h \in Handle}
           parts == <<Range(output), unwritten, Range(hand), Lines(chan), refused, stranded, b>>
<1>1. \A e : e \in b <=> \E h \in Handle : e \in Bufs[h]
  BY DEF Bufs
<1>2. /\ parts[1] = Range(output) /\ parts[2] = unwritten /\ parts[3] = Range(hand) /\ parts[4] = Lines(chan)
      /\ parts[5] = refused /\ parts[6] = stranded /\ parts[7] = b /\ DOMAIN parts = 1..7
  OBVIOUS
<1>3. Parted(1..lines, parts[1], parts[2], parts[3], parts[4], parts[5], parts[6], Bufs)
  BY <1>2 DEF NbInv, NbParted
<1>p. parts[7] = b
  BY <1>2
<1>d. DOMAIN parts = 1..7
  BY <1>2
<1> HIDE DEF b, parts
<1>4. UNION Range(parts) = 1..lines
  <2>1. Range(parts) = {parts[1], parts[2], parts[3], parts[4], parts[5], parts[6], parts[7]}
    BY ONLY <1>d DEF Range
  <2>2. \A e : e \in UNION Range(parts) <=> e \in 1..lines
    BY ONLY <1>1, <1>3, <1>p, <2>1 DEF Parted
  <2> QED
    BY <2>2
<1>5. ASSUME NEW i \in 1..7, NEW j \in 1..7, i # j PROVE parts[i] \cap parts[j] = {}
  <2>1. \A k \in 1..7 : k = 1 \/ k = 2 \/ k = 3 \/ k = 4 \/ k = 5 \/ k = 6 \/ k = 7
    OBVIOUS
  <2>2. /\ \A e \in parts[1] : e \notin parts[2] /\ e \notin parts[3] /\ e \notin parts[4]
                               /\ e \notin parts[5] /\ e \notin parts[6] /\ e \notin parts[7]
        /\ \A e \in parts[2] : e \notin parts[3] /\ e \notin parts[4] /\ e \notin parts[5]
                               /\ e \notin parts[6] /\ e \notin parts[7]
        /\ \A e \in parts[3] : e \notin parts[4] /\ e \notin parts[5] /\ e \notin parts[6] /\ e \notin parts[7]
        /\ \A e \in parts[4] : e \notin parts[5] /\ e \notin parts[6] /\ e \notin parts[7]
        /\ \A e \in parts[5] : e \notin parts[6] /\ e \notin parts[7]
        /\ \A e \in parts[6] : e \notin parts[7]
    BY ONLY <1>1, <1>3, <1>p DEF Parted
  <2>3. \A e \in parts[i] : e \notin parts[j]
    BY ONLY <1>5, <2>1, <2>2
  <2> QED
    BY <2>3
<1>6. Len(output) = Cardinality(Range(output))
  BY InjectiveCount, ToSetIsRange DEF NbInv, NbData
<1>7. guard = "gone" => mark \subseteq Range(output) \union unwritten
  BY DEF NbInv, NbPhases
<1>8. /\ UNION Range(parts) = 1..lines
      /\ \A i, j \in DOMAIN parts : i # j => parts[i] \cap parts[j] = {}
  BY <1>4, <1>5, <1>d
<1> QED
  BY <1>6, <1>7, <1>8 DEF LinesAccounted, NbInv, NbDrops, parts, b

LEMMA BufferLineKeeps ==
    ASSUME NbInv, NEW h \in Handle, BufferLine(h)
    PROVE  NbInv'
<1> DEFINE s == buf[h]
           k == lines + 1
           t == Append(s, k)
<1>1. /\ NbData /\ NbPhases /\ NbDrops
      /\ Parted(1..lines, Range(output), unwritten, Range(hand), Lines(chan), refused, stranded, Bufs)
  BY DEF NbInv, NbParted
<1>2. /\ buf \in [Handle -> Buffers] /\ lines \in Nat
      /\ lines' = k /\ buf' = [buf EXCEPT ![h] = t] /\ Len(s) < MaxBatch
      /\ UNCHANGED <<chan, thread, hand, guard, drops, output, unwritten, refused, stranded, mark>>
  BY <1>1 DEF NbData, BufferLine
<1>3. s \in Buffers /\ s \in Seq(Nat) /\ IsInjective(s) /\ Bufs[h] = Range(s)
  BY <1>2 DEF Buffers, Bufs
<1>4. /\ k \in Nat /\ k \notin 1..lines /\ 1..k = (1..lines) \cup {k}
  <2>1. lines \in Nat
    BY <1>2
  <2> QED
    BY ONLY <2>1
<1>5. k \notin Range(s)
  BY <1>1, <1>3, <1>4 DEF Parted
<1>6. t \in Seq(Nat) /\ Len(t) = Len(s) + 1 /\ IsInjective(t) /\ Range(t) = Range(s) \cup {k}
  BY <1>3, <1>4, <1>5, AppendIs, InjectiveAppend, RangeOf
<1>7. t \in Buffers
  <2>1. Len(t) <= MaxBatch
    <3>1. Len(s) \in Nat
      BY <1>3
    <3>2. Len(s) < MaxBatch /\ Len(t) = Len(s) + 1
      BY <1>2, <1>6
    <3> HIDE DEF s, t
    <3> QED
      BY ONLY <3>1, <3>2, NonBlockingAssumption
  <2> QED
    BY <1>6, <2>1 DEF Buffers
<1> HIDE DEF s, t, k
<1>8. /\ buf' \in [Handle -> Buffers] /\ Bufs'[h] = Bufs[h] \cup {k}
      /\ \A g \in Handle : g # h => Bufs'[g] = Bufs[g]
  BY <1>2, <1>3, <1>6, <1>7 DEF Bufs
<1>9. Parted((1..lines) \cup {k}, Range(output), unwritten, Range(hand), Lines(chan), refused, stranded, Bufs')
  <2> DEFINE A == Bufs'
  <2>1. /\ Parted(1..lines, Range(output), unwritten, Range(hand), Lines(chan), refused, stranded, Bufs)
        /\ \A g \in Handle : g # h => A[g] = Bufs[g]
        /\ k \notin 1..lines /\ A[h] = Bufs[h] \cup {k} /\ h \in Handle
    BY <1>1, <1>4, <1>8
  <2> HIDE DEF A
  <2>2. Parted((1..lines) \cup {k}, Range(output), unwritten, Range(hand), Lines(chan), refused, stranded, A)
    BY ONLY <2>1, PartedMoves
  <2> QED
    BY <2>2 DEF A
<1>10. NbParted'
  <2>1. 1..lines' = (1..lines) \cup {k}
    BY <1>2, <1>4
  <2> QED
    BY <1>2, <1>9, <2>1 DEF NbParted
<1>11. NbData'
  BY <1>1, <1>2, <1>4, <1>8 DEF NbData
<1>12. NbPhases'
  BY <1>1, <1>2 DEF NbPhases
<1>13. NbDrops'
  BY <1>1, <1>2 DEF NbDrops
<1> QED
  BY <1>10, <1>11, <1>12, <1>13 DEF NbInv

(* A refused buffer is one drop and at most MaxBatch lines. *)
LEMMA OneMoreDrop ==
    \A d, c, n \in Nat : n >= 1 /\ n <= MaxBatch /\ d <= c /\ c <= d * MaxBatch =>
        d + 1 <= c + n /\ c + n <= (d + 1) * MaxBatch
<1>1. MaxBatch \in Nat
  BY NonBlockingAssumption
<1> SUFFICES ASSUME NEW d \in Nat, NEW c \in Nat, NEW n \in Nat,
                    n >= 1, n <= MaxBatch, d <= c, c <= d * MaxBatch
             PROVE  d + 1 <= c + n /\ c + n <= (d + 1) * MaxBatch
  OBVIOUS
<1>2. (d + 1) * MaxBatch = d * MaxBatch + MaxBatch /\ d * MaxBatch \in Nat
  BY <1>1
<1> QED
  BY <1>1, <1>2

LEMMA FlushHandleKeeps ==
    ASSUME NbInv, NEW h \in Handle, FlushHandle(h)
    PROVE  NbInv'
<1> DEFINE s == buf[h]
           fits == Len(chan) < NbCapacity /\ thread # "done"
<1>1. /\ NbData /\ NbPhases /\ NbDrops
      /\ Parted(1..lines, Range(output), unwritten, Range(hand), Lines(chan), refused, stranded, Bufs)
  BY DEF NbInv, NbParted
<1>2. /\ buf \in [Handle -> Buffers] /\ chan \in Seq(Buffers) /\ Disjoint(chan)
      /\ s # <<>> /\ buf' = [buf EXCEPT ![h] = <<>>]
      /\ UNCHANGED <<thread, hand, guard, lines, output, unwritten, stranded, mark>>
  BY <1>1 DEF NbData, FlushHandle
<1>3. /\ chan' = IF fits THEN Append(chan, s) ELSE chan
      /\ drops' = IF fits THEN drops ELSE drops + 1
      /\ refused' = IF fits THEN refused ELSE refused \union Range(s)
  BY DEF FlushHandle
<1>4. s \in Buffers /\ s \in Seq(Nat) /\ IsInjective(s) /\ Bufs[h] = Range(s) /\ Len(s) <= MaxBatch
  BY <1>2 DEF Buffers, Bufs
<1>5. /\ IsFiniteSet(Range(s)) /\ Cardinality(Range(s)) = Len(s) /\ Len(s) \in Nat /\ Len(s) >= 1
      /\ Range(s) # {}
  <2>1. IsFiniteSet(Range(s)) /\ Cardinality(Range(s)) = Len(s)
    BY <1>4, InjectiveCount, ToSetIsRange
  <2>2. Len(s) \in Nat /\ Len(s) >= 1
    BY <1>2, <1>4
  <2>3. Head(s) \in Range(s)
    BY <1>2, <1>4, RangeOf
  <2> QED
    BY <2>1, <2>2, <2>3
<1>6. <<>> \in Buffers /\ Range(<<>>) = {}
  BY NonBlockingAssumption, RangeEmpty DEF Buffers, IsInjective
<1>f. fits => thread # "done"
  OBVIOUS
<1> HIDE DEF s, fits
<1>7. /\ buf' \in [Handle -> Buffers] /\ Bufs'[h] = {}
      /\ \A g \in Handle : g # h => Bufs'[g] = Bufs[g]
  BY <1>2, <1>6 DEF Bufs
<1>8. \A e \in Range(s) : e \notin Lines(chan) /\ e \notin refused
  BY ONLY <1>1, <1>4, h \in Handle DEF Parted
<1>9. /\ Parted(1..lines, Range(output), unwritten, Range(hand), Lines(chan) \cup Range(s), refused, stranded, Bufs')
      /\ Parted(1..lines, Range(output), unwritten, Range(hand), Lines(chan), refused \cup Range(s), stranded, Bufs')
  <2> DEFINE A == Bufs'
  <2>1. /\ Parted(1..lines, Range(output), unwritten, Range(hand), Lines(chan), refused, stranded, Bufs)
        /\ \A g \in Handle : g # h => A[g] = Bufs[g]
        /\ A[h] = {} /\ h \in Handle
    BY <1>1, <1>7
  <2> HIDE DEF A
  <2>2. /\ Parted(1..lines, Range(output), unwritten, Range(hand), Lines(chan) \cup Bufs[h], refused, stranded, A)
        /\ Parted(1..lines, Range(output), unwritten, Range(hand), Lines(chan), refused \cup Bufs[h], stranded, A)
    BY ONLY <2>1, PartedMoves
  <2> QED
    BY <1>4, <2>2 DEF A
<1>10. CASE fits
  <2>1. chan' = Append(chan, s) /\ drops' = drops /\ refused' = refused
    BY <1>3, <1>10
  <2>2. chan' \in Seq(Buffers) /\ Disjoint(chan') /\ Lines(chan') = Lines(chan) \cup Range(s)
    BY <1>2, <1>4, <1>8, <2>1, LinesAppend
  <2>3. NbParted'
    BY <1>2, <1>9, <2>1, <2>2 DEF NbParted
  <2>4. NbData'
    BY <1>1, <1>2, <1>7, <2>1, <2>2 DEF NbData
  <2>5. NbPhases'
    BY <1>1, <1>2, <2>2 DEF NbPhases
  <2>6. NbDrops'
    BY <1>1, <2>1 DEF NbDrops
  <2> QED
    BY <2>3, <2>4, <2>5, <2>6 DEF NbInv
<1>11. CASE ~fits
  <2>1. chan' = chan /\ drops' = drops + 1 /\ refused' = refused \union Range(s)
    BY <1>3, <1>11
  <2>2. /\ drops \in Nat /\ IsFiniteSet(refused) /\ Cardinality(refused) \in Nat
        /\ drops <= Cardinality(refused) /\ Cardinality(refused) <= drops * MaxBatch
    BY <1>1, FS_CardinalityType DEF NbData, NbDrops
  <2>3. IsFiniteSet(refused') /\ Cardinality(refused') = Cardinality(refused) + Len(s)
    <3>1. IsFiniteSet(refused \cup Range(s))
          /\ Cardinality(refused \cup Range(s))
               = Cardinality(refused) + Cardinality(Range(s)) - Cardinality(refused \cap Range(s))
      BY <1>5, <2>2, FS_Union
    <3>2. refused \cap Range(s) = {} /\ Cardinality({}) = 0
      BY <1>8, FS_EmptySet
    <3>3. Cardinality(refused \cup Range(s)) = Cardinality(refused) + Len(s)
      <4>1. Cardinality(refused \cup Range(s)) = Cardinality(refused) + Len(s) - 0
        BY ONLY <1>5, <3>1, <3>2
      <4>2. Cardinality(refused) \in Nat /\ Len(s) \in Nat
        BY <1>5, <2>2
      <4> QED
        BY ONLY <4>1, <4>2
    <3> QED
      BY <2>1, <3>1, <3>3
  <2>4. /\ drops + 1 <= Cardinality(refused) + Len(s)
        /\ Cardinality(refused) + Len(s) <= (drops + 1) * MaxBatch
    BY ONLY <1>4, <1>5, <2>2, OneMoreDrop
  <2>5. NbDrops'
    <3>1. drops' > 0 /\ refused' # {}
      BY <1>5, <2>1, <2>2
    <3> QED
      BY <2>1, <2>3, <2>4, <3>1 DEF NbDrops
  <2>6. NbParted'
    BY <1>2, <1>9, <2>1 DEF NbParted
  <2>7. NbData'
    BY <1>1, <1>2, <1>7, <2>1, <2>2, <2>3 DEF NbData
  <2>8. NbPhases'
    BY <1>1, <1>2, <2>1 DEF NbPhases
  <2> QED
    BY <2>5, <2>6, <2>7, <2>8 DEF NbInv
<1> QED
  BY <1>10, <1>11

LEMMA TakeKeeps ==
    ASSUME NbInv, NEW at \in {"write", "rewrite"}, thread \in {"recv", "drain"}, Take(at)
    PROVE  NbInv'
<1> DEFINE M == Range(Head(chan))
<1>1. /\ NbData /\ NbPhases /\ NbDrops
      /\ Parted(1..lines, Range(output), unwritten, Range(hand), Lines(chan), refused, stranded, Bufs)
  BY DEF NbInv, NbParted
<1>2. /\ chan \in Seq(Buffers) /\ Disjoint(chan) /\ chan # <<>>
      /\ hand' = Head(chan) /\ chan' = Tail(chan) /\ thread' = at
      /\ UNCHANGED <<buf, guard, drops, lines, output, unwritten, refused, stranded, mark>>
  BY <1>1 DEF NbData, Take
<1>3. /\ hand' \in Buffers /\ chan' \in Seq(Buffers) /\ Disjoint(chan')
      /\ Lines(chan') = Lines(chan) \ M /\ M \subseteq Lines(chan)
  BY <1>2, LinesTail
<1>4. Range(hand) = {} /\ Range(hand') = M
  BY <1>1, <1>2, RangeEmpty DEF NbPhases
<1> HIDE DEF M
<1>5. Parted(1..lines, Range(output), unwritten, M, Lines(chan) \ M, refused, stranded, Bufs)
  BY ONLY <1>1, <1>3, <1>4, PartedMoves
<1>6. NbParted'
  <2>1. Bufs' = Bufs
    BY <1>2 DEF Bufs
  <2> QED
    BY <1>2, <1>3, <1>4, <1>5, <2>1 DEF NbParted
<1>7. NbData'
  BY <1>1, <1>2, <1>3 DEF NbData
<1>8. NbPhases'
  <2>1. Range(hand) \cup Lines(chan) = Range(hand') \cup Lines(chan')
    BY <1>3, <1>4
  <2>2. thread' \in {"write", "rewrite"}
    BY <1>2
  <2> QED
    BY <1>1, <1>2, <2>1, <2>2 DEF NbPhases
<1>9. NbDrops'
  BY <1>1, <1>2 DEF NbDrops
<1> QED
  BY <1>6, <1>7, <1>8, <1>9 DEF NbInv

LEMMA InnerWriteKeeps ==
    ASSUME NbInv, thread \in {"write", "rewrite"}, thread' \in {"recv", "drain"}, InnerWrite,
           UNCHANGED <<buf, chan, guard, drops, lines, refused, stranded, mark>>
    PROVE  NbInv'
<1>1. /\ NbData /\ NbPhases /\ NbDrops
      /\ Parted(1..lines, Range(output), unwritten, Range(hand), Lines(chan), refused, stranded, Bufs)
  BY DEF NbInv, NbParted
<1>2. Bufs' = Bufs /\ hand' = <<>> /\ Range(hand') = {}
  BY RangeEmpty DEF Bufs, InnerWrite
<1>3. /\ Parted(1..lines, Range(output) \cup Range(hand), unwritten, {}, Lines(chan), refused, stranded, Bufs)
      /\ Parted(1..lines, Range(output), unwritten \cup Range(hand), {}, Lines(chan), refused, stranded, Bufs)
  BY ONLY <1>1, PartedMoves
<1>4. <<>> \in Buffers
  BY NonBlockingAssumption DEF Buffers, IsInjective
<1>5. /\ output' \in Seq(Nat) /\ IsInjective(output')
      /\ \/ Range(output') = Range(output) \cup Range(hand) /\ unwritten' = unwritten
         \/ Range(output') = Range(output) /\ unwritten' = unwritten \cup Range(hand)
  <2>1. output \in Seq(Nat) /\ IsInjective(output) /\ hand \in Seq(Nat) /\ IsInjective(hand)
    BY <1>1 DEF NbData, Buffers
  <2>2. Range(output) \cap Range(hand) = {}
    BY <1>1 DEF Parted
  <2>3. output \o hand \in Seq(Nat) /\ Range(output \o hand) = Range(output) \cup Range(hand)
        /\ IsInjective(output \o hand)
    BY ONLY <2>1, <2>2, ConcatKeeps
  <2> QED
    BY <2>1, <2>3 DEF InnerWrite
<1>6. NbParted'
  BY <1>2, <1>3, <1>5 DEF NbParted
<1>7. NbData'
  BY <1>1, <1>2, <1>4, <1>5 DEF NbData
<1>8. NbPhases'
  <2>1. Range(output) \cup unwritten \cup Range(hand) \cup Lines(chan)
          \subseteq Range(output') \cup unwritten' \cup Range(hand') \cup Lines(chan')
    BY <1>5
  <2> QED
    BY <1>1, <1>2, <2>1 DEF NbPhases
<1>9. NbDrops'
  BY <1>1 DEF NbDrops
<1> QED
  BY <1>6, <1>7, <1>8, <1>9 DEF NbInv

(* The thread ends: what is left in the channel is stranded. *)
LEMMA ReceiverDropped ==
    ASSUME NbInv, Leave
    PROVE  NbInv'
<1>1. /\ NbData /\ NbPhases /\ NbDrops
      /\ Parted(1..lines, Range(output), unwritten, Range(hand), Lines(chan), refused, stranded, Bufs)
  BY DEF NbInv, NbParted
<1>2. /\ thread = "leave" /\ thread' = "done" /\ stranded' = Lines(chan) /\ chan' = <<>>
      /\ UNCHANGED <<buf, hand, guard, drops, lines, output, unwritten, refused, mark>>
  BY DEF Leave
<1>3. Bufs' = Bufs /\ Lines(chan') = {} /\ Disjoint(chan') /\ chan' \in Seq(Buffers) /\ stranded = {}
  BY <1>1, <1>2, LinesNone DEF Bufs, NbPhases
<1>4. Parted(1..lines, Range(output), unwritten, Range(hand), {}, refused, Lines(chan), Bufs)
  BY ONLY <1>1, <1>3, PartedMoves
<1>5. NbParted'
  BY <1>2, <1>3, <1>4 DEF NbParted
<1>6. NbData'
  BY <1>1, <1>2, <1>3 DEF NbData
<1>7. NbPhases'
  BY <1>1, <1>2, <1>3 DEF NbPhases
<1>8. NbDrops'
  BY <1>1, <1>2 DEF NbDrops
<1> QED
  BY <1>5, <1>6, <1>7, <1>8 DEF NbInv

LEMMA NbStep == NbInv /\ [NbNext]_nbVars => NbInv'
<1> SUFFICES ASSUME NbInv, [NbNext]_nbVars PROVE NbInv'
  OBVIOUS
<1>1. CASE \E h \in Handle : BufferLine(h) \/ FlushHandle(h)
  BY <1>1, BufferLineKeeps, FlushHandleKeeps
<1>2. CASE RecvBuffer \/ Drain
  BY <1>2, TakeKeeps DEF RecvBuffer, Drain
<1>3. CASE BufferWritten \/ Rewritten
  <2>1. /\ thread \in {"write", "rewrite"} /\ thread' \in {"recv", "drain"} /\ InnerWrite
        /\ UNCHANGED <<buf, chan, guard, drops, lines, refused, stranded, mark>>
    BY <1>3 DEF BufferWritten, Rewritten
  <2> QED
    BY ONLY <2>1, NbInv, InnerWriteKeeps
<1>4. CASE Leave
  BY <1>4, ReceiverDropped
<1>5. CASE UNCHANGED <<buf, chan, hand, drops, lines, output, unwritten, refused, stranded>> /\ NbPhases'
  <2>1. Bufs' = Bufs
    BY <1>5 DEF Bufs
  <2> QED
    BY <1>5, <2>1 DEF NbInv, NbData, NbParted, NbDrops
<1>n. NbPhases
  BY DEF NbInv
<1>6. CASE RecvTimeout
  <2>1. NbPhases'
    BY <1>6, <1>n DEF RecvTimeout, NbPhases
  <2> QED
    BY <1>5, <1>6, <2>1 DEF RecvTimeout
<1>7. CASE Empty
  <2>1. NbPhases'
    BY <1>7, <1>n, LinesNone, RangeEmpty DEF Empty, NbPhases
  <2> QED
    BY <1>5, <1>7, <2>1 DEF Empty
<1>8. CASE DropWorkerGuard
  <2>1. NbPhases'
    BY <1>8, <1>n DEF DropWorkerGuard, NbPhases
  <2> QED
    BY <1>5, <1>8, <2>1 DEF DropWorkerGuard
<1>9. CASE Joined
  <2>1. NbPhases'
    BY <1>9, <1>n DEF Joined, NbPhases
  <2> QED
    BY <1>5, <1>9, <2>1 DEF Joined
<1>10. CASE UNCHANGED nbVars
  <2>1. NbPhases'
    BY <1>10, <1>n DEF nbVars, NbPhases
  <2> QED
    BY <1>5, <1>10, <2>1 DEF nbVars
<1> QED
  BY <1>1, <1>2, <1>3, <1>4, <1>6, <1>7, <1>8, <1>9, <1>10 DEF NbNext, WriterThread

-------------------------------------------------------------------------------
(* The rolling writer. *)

Piece == Nat \X Nat
FileName == Seq(Nat)
Current == [name : FileName, bytes : Nat, opened : Nat, reused : BOOLEAN, entry : {"own", "evicted", "lost"}]

(* d: the disk of a RollingInner, w: the pieces written. *)
DiskType(d) ==
    /\ d \in [cur : Current, roll_counter : Nat, text : [DOMAIN d.text -> Seq(Piece)],
              modified : [DOMAIN d.text -> Nat], deleted : SUBSET Piece, outlived : SUBSET Nat]
    /\ IsFiniteSet(DOMAIN d.text)
    /\ d.cur.entry = "own" => d.cur.name \in DOMAIN d.text

DiskKeeps(d, w) ==
    /\ ListedIn(d) \cup d.deleted = Range(w) /\ ListedIn(d) \cap d.deleted = {}
    /\ \A m, n \in DOMAIN d.text : m # n => Range(d.text[m]) \cap Range(d.text[n]) = {}
    /\ \A n \in DOMAIN d.text : \A i, j \in DOMAIN d.text[n] : i < j => Before(w, d.text[n][i], d.text[n][j])

(* A time of modification is not in the future; what retention says of it. *)
DiskTimes(d) ==
    /\ \A n \in DOMAIN d.text : d.modified[n] <= clock
    /\ \A t \in d.outlived : t <= clock /\ \A n \in DOMAIN d.text : t <= d.modified[n]
    /\ d.cur.entry = "evicted" =>
         cfg.keep = 0 \/ d.cur.reused \/ \E n \in DOMAIN d.text : d.modified[n] >= d.cur.opened

LineFresh(x) ==
    /\ x.at # "idle" => x.line \in 1..begun
    /\ \A q \in Range(writes) :
         /\ x.at = "write" /\ q[1] = x.line => q[2] < x.next
         /\ x.at = "note" /\ q[1] = x.line => q[2] <= x.next

DiskOk(d, w) == DiskType(d) /\ DiskKeeps(d, w) /\ DiskTimes(d)

RollType ==
    /\ cfg \in RollConfigs /\ clock \in Nat /\ begun \in Nat /\ procs \in Nat \ {0}
    /\ writes \in Seq(Piece)
    /\ ndjson \in [Writers -> [at : {"idle", "write", "note", "flush"}, line : Nat, next : Nat]]

LinesFresh ==
    /\ \A s \in Writers : LineFresh(ndjson[s])
    /\ \A s, r \in Writers : s # r /\ ndjson[s].at # "idle" /\ ndjson[r].at # "idle"
                               => ndjson[s].line # ndjson[r].line
    /\ \A q \in Range(writes) : q[1] <= begun

RollInv == RollType /\ LinesFresh /\ DiskOk(Disk, writes)

LEMMA ListedIs ==
    \A d, p : p \in ListedIn(d) <=> \E n \in DOMAIN d.text : p \in Range(d.text[n])
BY DEF ListedIn

(* The order of the writes, after one more. *)
LEMMA BeforeGrows ==
    ASSUME NEW S, NEW w \in Seq(S), NEW p \in S, p \notin Range(w)
    PROVE  /\ \A q, r \in Range(w) : Before(w, q, r) => Before(Append(w, p), q, r)
           /\ \A q \in Range(w) : Before(Append(w, p), q, p)
<1> DEFINE v == Append(w, p)
           n == Len(w)
<1>1. /\ n \in Nat /\ Range(w) = {w[i] : i \in 1..n} /\ DOMAIN w = 1..n
      /\ v[n + 1] = p /\ DOMAIN v = 1..(n + 1) /\ \A i \in 1..n : v[i] = w[i]
      /\ \A i \in 1..(n + 1) : i = n + 1 \/ i \in 1..n
  <2>1. v \in Seq(S) /\ Len(v) = n + 1 /\ v[n + 1] = p /\ \A i \in 1..n : v[i] = w[i]
    BY AppendIs
  <2>2. n \in Nat /\ \A i \in 1..(n + 1) : i = n + 1 \/ i \in 1..n
    BY AppendIs
  <2> QED
    BY <2>1, <2>2, RangeOf
<1> HIDE DEF v, n
<1>2. ASSUME NEW q \in Range(w), NEW i \in DOMAIN v, v[i] = q PROVE i \in 1..n /\ w[i] = q
  BY <1>1, <1>2
<1>3. \A i \in 1..n : i < n + 1
  BY <1>1
<1>4. \A q, r \in Range(w) : Before(w, q, r) => Before(v, q, r)
  BY <1>1, <1>2 DEF Before
<1>5. ASSUME NEW q \in Range(w) PROVE Before(v, q, p)
  <2>1. ASSUME NEW i \in DOMAIN v, NEW j \in DOMAIN v, v[i] = q, v[j] = p PROVE i < j
    <3>1. i \in 1..n
      BY <1>2, <2>1
    <3>2. j = n + 1
      BY <1>1, <2>1
    <3> QED
      BY <1>3, <3>1, <3>2
  <2> QED
    BY <2>1 DEF Before
<1> QED
  BY <1>4, <1>5 DEF v

LEMMA StampIs ==
    ASSUME NEW n \in Nat, clock \in Nat, cfg \in RollConfigs
    PROVE  Stamp(n) \in FileName
<1>1. cfg.policy \in {"Never", "SizeBased", "Periodic", "SizeOrAge"}
  BY RollingAssumption
<1>2. clock \div Period \in Nat
  BY RollingAssumption
<1> DEFINE k == clock \div Period
<1> HIDE DEF k
<1>3. <<k>> \in Seq(Nat) /\ <<n>> \in Seq(Nat) /\ <<clock, n>> \in Seq(Nat)
  BY <1>2 DEF k
<1>4. /\ cfg.policy = "Periodic" => Stamp(n) = <<k>>
      /\ cfg.policy = "SizeBased" => Stamp(n) = <<n>>
      /\ cfg.policy \in {"Never", "SizeOrAge"} => Stamp(n) = <<clock, n>>
  BY DEF Stamp, k
<1> QED
  BY <1>1, <1>3, <1>4 DEF FileName

(* open_new: its file is in the directory, new or as it was. *)
LEMMA OpenNewIs ==
    ASSUME NEW d, DiskType(d), clock \in Nat, cfg \in RollConfigs
    PROVE  LET e == OpenNew(d) IN
           /\ DiskType(e) /\ e.deleted = d.deleted /\ e.outlived = d.outlived
           /\ e.cur.entry = "own" /\ e.cur.opened = clock /\ e.cur.name \in DOMAIN e.text
           /\ ~e.cur.reused => e.modified[e.cur.name] = clock
           /\ \A n \in DOMAIN d.text : n \in DOMAIN e.text /\ e.text[n] = d.text[n] /\ e.modified[n] = d.modified[n]
           /\ \A n \in DOMAIN e.text : n \in DOMAIN d.text \/ (e.text[n] = <<>> /\ e.modified[n] = clock)
<1> DEFINE name == Stamp(d.roll_counter)
           e == OpenNew(d)
           old == name \in DOMAIN d.text
           c == [name |-> name, bytes |-> 0, opened |-> clock, reused |-> old, entry |-> "own"]
           k == IF cfg.policy = "Periodic" THEN d.roll_counter ELSE d.roll_counter + 1
           tt == IF old THEN d.text ELSE With(d.text, name, <<>>)
           mm == IF old THEN d.modified ELSE With(d.modified, name, clock)
           D == DOMAIN d.text
<1>1. /\ IsFiniteSet(D) /\ d.text \in [D -> Seq(Piece)] /\ d.modified \in [D -> Nat] /\ d.roll_counter \in Nat
  BY DEF DiskType
<1>0. d \in [cur : Current, roll_counter : Nat, text : [D -> Seq(Piece)], modified : [D -> Nat],
             deleted : SUBSET Piece, outlived : SUBSET Nat]
  BY DEF DiskType
<1>2. name \in FileName
  BY <1>1, StampIs
<1>3. e = [d EXCEPT !.cur = c, !.roll_counter = k, !.text = tt, !.modified = mm]
  BY <1>0 DEF OpenNew
<1>o. old \in BOOLEAN
  OBVIOUS
<1>4. old => name \in D /\ tt = d.text /\ mm = d.modified
  OBVIOUS
<1>5. ~old => name \notin D /\ tt = With(d.text, name, <<>>) /\ mm = With(d.modified, name, clock)
  OBVIOUS
<1>6. c \in Current /\ c.name = name /\ c.entry = "own" /\ c.opened = clock /\ c.reused = old
  BY <1>2, <1>o DEF Current
<1>7. k \in Nat
  BY <1>1
<1> HIDE DEF name, e, old, c, k, tt, mm, D
<1>8. PICK E : E = D \cup {name}
  OBVIOUS
<1>9. /\ IsFiniteSet(E) /\ name \in E
      /\ tt \in [E -> Seq(Piece)] /\ mm \in [E -> Nat]
      /\ \A n \in D : tt[n] = d.text[n] /\ mm[n] = d.modified[n]
      /\ ~old => tt[name] = <<>> /\ mm[name] = clock
  <2>1. IsFiniteSet(E) /\ name \in E
    BY <1>1, <1>8, FS_AddElement
  <2>2. CASE old
    <3>1. E = D
      BY <1>4, <1>8, <2>2
    <3> QED
      BY <1>1, <1>4, <2>1, <2>2, <3>1
  <2>3. CASE ~old
    <3>1. <<>> \in Seq(Piece)
      OBVIOUS
    <3>2. PICK a, b : a = With(d.text, name, <<>>) /\ b = With(d.modified, name, clock)
      OBVIOUS
    <3>3. /\ a \in [D \cup {name} -> Seq(Piece)] /\ a[name] = <<>>
          /\ \A n \in D : n # name => a[n] = d.text[n]
      BY <1>1, <3>1, <3>2 DEF With
    <3>4. /\ b \in [D \cup {name} -> Nat] /\ b[name] = clock
          /\ \A n \in D : n # name => b[n] = d.modified[n]
      BY <1>1, <3>2 DEF With
    <3>5. tt = a /\ mm = b /\ name \notin D
      BY <1>5, <2>3, <3>2
    <3> QED
      BY <1>8, <2>1, <2>3, <3>3, <3>4, <3>5
  <2> QED
    BY <2>2, <2>3
<1>10. /\ e.cur = c /\ e.roll_counter = k /\ e.text = tt /\ e.modified = mm
       /\ e.deleted = d.deleted /\ e.outlived = d.outlived
       /\ e \in [cur : Current, roll_counter : Nat, text : [E -> Seq(Piece)], modified : [E -> Nat],
                 deleted : SUBSET Piece, outlived : SUBSET Nat]
  BY ONLY <1>0, <1>3, <1>6, <1>7, <1>9
<1>11. DOMAIN e.text = E
  BY <1>9, <1>10
<1>12. DiskType(e)
  BY <1>6, <1>9, <1>10, <1>11 DEF DiskType
<1>13. \A n \in E : n \in D \/ (~old /\ n = name)
  BY <1>4, <1>8
<1>14. /\ \A n \in D : n \in DOMAIN e.text /\ e.text[n] = d.text[n] /\ e.modified[n] = d.modified[n]
       /\ \A n \in DOMAIN e.text : n \in D \/ (e.text[n] = <<>> /\ e.modified[n] = clock)
       /\ ~old => e.modified[name] = clock
  BY <1>8, <1>9, <1>10, <1>11, <1>13
<1>15. e.cur.entry = "own" /\ e.cur.opened = clock /\ e.cur.name \in DOMAIN e.text /\ (~e.cur.reused => e.modified[e.cur.name] = clock)
  BY <1>6, <1>9, <1>10, <1>11, <1>14
<1> QED
  BY <1>10, <1>12, <1>14, <1>15 DEF e, D

LEMMA OpenNewOk ==
    ASSUME NEW d, NEW w, DiskOk(d, w), clock \in Nat, cfg \in RollConfigs
    PROVE  DiskOk(OpenNew(d), w)
<1>0. PICK e : e = OpenNew(d)
  OBVIOUS
<1>1. /\ DiskType(e) /\ e.deleted = d.deleted /\ e.outlived = d.outlived /\ e.cur.entry = "own"
      /\ \A n \in DOMAIN d.text : n \in DOMAIN e.text /\ e.text[n] = d.text[n] /\ e.modified[n] = d.modified[n]
      /\ \A n \in DOMAIN e.text : n \in DOMAIN d.text \/ (e.text[n] = <<>> /\ e.modified[n] = clock)
  BY <1>0, OpenNewIs DEF DiskOk
<1>2. DiskKeeps(d, w) /\ DiskTimes(d)
  BY DEF DiskOk
<1>3. Range(<<>>) = {} /\ DOMAIN <<>> = {}
  BY RangeEmpty
<1>4. ListedIn(e) = ListedIn(d)
  <2>1. ASSUME NEW p \in ListedIn(e) PROVE p \in ListedIn(d)
    <3>1. PICK n \in DOMAIN e.text : p \in Range(e.text[n])
      BY <2>1, ListedIs
    <3>2. n \in DOMAIN d.text
      BY <1>1, <1>3, <3>1
    <3> QED
      BY <1>1, <3>1, <3>2, ListedIs
  <2>2. ASSUME NEW p \in ListedIn(d) PROVE p \in ListedIn(e)
    <3>1. PICK n \in DOMAIN d.text : p \in Range(d.text[n])
      BY <2>2, ListedIs
    <3> QED
      BY <1>1, <3>1, ListedIs
  <2> QED
    BY <2>1, <2>2
<1>5. \A m, n \in DOMAIN e.text : m # n => Range(e.text[m]) \cap Range(e.text[n]) = {}
  BY <1>1, <1>2, <1>3 DEF DiskKeeps
<1>6. \A n \in DOMAIN e.text : \A i, j \in DOMAIN e.text[n] : i < j => Before(w, e.text[n][i], e.text[n][j])
  BY <1>1, <1>2, <1>3 DEF DiskKeeps
<1>7. DiskKeeps(e, w)
  BY <1>1, <1>2, <1>4, <1>5, <1>6 DEF DiskKeeps
<1>8. \A n \in DOMAIN e.text : e.modified[n] <= clock
  BY <1>1, <1>2 DEF DiskTimes
<1>9. \A t \in e.outlived : t <= clock /\ \A n \in DOMAIN e.text : t <= e.modified[n]
  BY <1>1, <1>2 DEF DiskTimes
<1> QED
  BY <1>0, <1>1, <1>7, <1>8, <1>9 DEF DiskOk, DiskTimes

(* The files in out leave the directory. *)
LEMMA RemovedIs ==
    ASSUME NEW d, DiskType(d), NEW out \in SUBSET DOMAIN d.text, NEW entry \in {"evicted", "lost"}
    PROVE  LET e == Removed(d, out, entry) IN
           /\ DiskType(e) /\ DOMAIN e.text = DOMAIN d.text \ out
           /\ \A n \in DOMAIN e.text : e.text[n] = d.text[n] /\ e.modified[n] = d.modified[n]
           /\ e.cur.name = d.cur.name /\ e.cur.opened = d.cur.opened /\ e.cur.reused = d.cur.reused
           /\ e.cur.entry = IF d.cur.name \in out THEN entry ELSE d.cur.entry
           /\ \A p : p \in e.deleted <=> p \in d.deleted \/ \E n \in out : p \in Range(d.text[n])
           /\ \A t : t \in e.outlived <=> t \in d.outlived \/ (entry = "evicted" /\ \E n \in out : t = d.modified[n])
<1> DEFINE e == Removed(d, out, entry)
           D == DOMAIN d.text
           E == D \ out
           tt == [n \in E |-> d.text[n]]
           mm == [n \in E |-> d.modified[n]]
           ee == IF d.cur.name \in out THEN entry ELSE d.cur.entry
           gg == d.deleted \cup UNION {Range(d.text[n]) : n \in out}
           oo == IF entry = "evicted" THEN d.outlived \cup {d.modified[n] : n \in out} ELSE d.outlived
           c == [d.cur EXCEPT !.entry = ee]
<1>0. d \in [cur : Current, roll_counter : Nat, text : [D -> Seq(Piece)], modified : [D -> Nat],
             deleted : SUBSET Piece, outlived : SUBSET Nat]
  BY DEF DiskType
<1>1. /\ IsFiniteSet(D) /\ d.text \in [D -> Seq(Piece)] /\ d.modified \in [D -> Nat] /\ d.cur \in Current
      /\ d.deleted \subseteq Piece /\ d.outlived \subseteq Nat /\ DOMAIN d.modified = D
      /\ d.cur.entry = "own" => d.cur.name \in D
  BY <1>0 DEF DiskType
<1>2. IsFiniteSet(E)
  BY <1>1, FS_Subset
<1>3. tt \in [E -> Seq(Piece)] /\ \A n \in E : tt[n] = d.text[n]
  BY <1>1
<1>4. mm \in [E -> Nat] /\ \A n \in E : mm[n] = d.modified[n]
  BY <1>1
<1>5. gg \in SUBSET Piece
  <2> SUFFICES ASSUME NEW p \in gg PROVE p \in Piece
    OBVIOUS
  <2>1. CASE p \in d.deleted
    BY <1>1, <2>1
  <2>2. CASE \E n \in out : p \in Range(d.text[n])
    <3>1. PICK n \in out : p \in Range(d.text[n])
      BY <2>2
    <3>2. d.text[n] \in Seq(Piece)
      BY <1>1
    <3> QED
      BY <3>1, <3>2, RangeOf
  <2> QED
    BY <2>1, <2>2
<1>6. oo \in SUBSET Nat
  BY <1>1
<1>7. ee \in {"own", "evicted", "lost"} /\ d.cur.entry \in {"own", "evicted", "lost"}
  BY <1>1 DEF Current
<1>8. e = [d EXCEPT !.text = tt, !.modified = mm, !.cur = c, !.deleted = gg, !.outlived = oo]
  BY <1>0, <1>1 DEF Removed
<1>g. \A p : p \in gg <=> p \in d.deleted \/ \E n \in out : p \in Range(d.text[n])
  OBVIOUS
<1>h. \A t : t \in oo <=> t \in d.outlived \/ (entry = "evicted" /\ \E n \in out : t = d.modified[n])
  OBVIOUS
<1>i. ee = "own" => d.cur.entry = "own" /\ d.cur.name \notin out
  OBVIOUS
<1>j. ee = IF d.cur.name \in out THEN entry ELSE d.cur.entry
  OBVIOUS
<1>k. E = D \ out
  OBVIOUS
<1> HIDE DEF e, D, E, tt, mm, gg, oo, ee
<1>9. c \in Current /\ c.name = d.cur.name /\ c.opened = d.cur.opened /\ c.reused = d.cur.reused /\ c.entry = ee
  BY <1>1, <1>7 DEF Current
<1> HIDE DEF c
<1>10. /\ e.cur = c /\ e.text = tt /\ e.modified = mm /\ e.deleted = gg /\ e.outlived = oo
       /\ e \in [cur : Current, roll_counter : Nat, text : [E -> Seq(Piece)], modified : [E -> Nat],
                 deleted : SUBSET Piece, outlived : SUBSET Nat]
  BY ONLY <1>0, <1>3, <1>4, <1>5, <1>6, <1>8, <1>9
<1>11. DOMAIN e.text = E
  BY <1>3, <1>10
<1>12. ee = "own" => d.cur.name \in E
  BY <1>1, <1>i, <1>k
<1>13. DiskType(e)
  BY <1>2, <1>9, <1>10, <1>11, <1>12 DEF DiskType
<1>14. \A n \in E : e.text[n] = d.text[n] /\ e.modified[n] = d.modified[n]
  BY <1>3, <1>4, <1>10
<1>15. /\ e.cur.name = d.cur.name /\ e.cur.opened = d.cur.opened /\ e.cur.reused = d.cur.reused
       /\ e.cur.entry = IF d.cur.name \in out THEN entry ELSE d.cur.entry
  BY <1>9, <1>10, <1>j
<1> QED
  BY <1>10, <1>11, <1>13, <1>14, <1>15, <1>g, <1>h, <1>k DEF e, D

LEMMA RemovedKeeps ==
    ASSUME NEW d, NEW w, DiskType(d), DiskKeeps(d, w), NEW out \in SUBSET DOMAIN d.text,
           NEW entry \in {"evicted", "lost"}
    PROVE  DiskKeeps(Removed(d, out, entry), w)
<1>0. PICK e : e = Removed(d, out, entry)
  OBVIOUS
<1>1. /\ DOMAIN e.text = DOMAIN d.text \ out
      /\ \A n \in DOMAIN e.text : e.text[n] = d.text[n]
      /\ \A p : p \in e.deleted <=> p \in d.deleted \/ \E n \in out : p \in Range(d.text[n])
  BY <1>0, RemovedIs
<1>2. /\ ListedIn(d) \cup d.deleted = Range(w) /\ ListedIn(d) \cap d.deleted = {}
      /\ \A m, n \in DOMAIN d.text : m # n => Range(d.text[m]) \cap Range(d.text[n]) = {}
      /\ \A n \in DOMAIN d.text : \A i, j \in DOMAIN d.text[n] : i < j => Before(w, d.text[n][i], d.text[n][j])
  BY DEF DiskKeeps
<1>3. ListedIn(e) \cup e.deleted = Range(w)
  <2>1. ASSUME NEW p \in ListedIn(d) PROVE p \in ListedIn(e) \/ p \in e.deleted
    <3>1. PICK n \in DOMAIN d.text : p \in Range(d.text[n])
      BY ListedIs
    <3> QED
      BY <1>1, <3>1, ListedIs
  <2>2. ASSUME NEW p, p \in ListedIn(e) \/ p \in e.deleted PROVE p \in ListedIn(d) \/ p \in d.deleted
    <3>1. CASE p \in ListedIn(e)
      <4>1. PICK n \in DOMAIN e.text : p \in Range(e.text[n])
        BY <3>1, ListedIs
      <4> QED
        BY <1>1, <4>1, ListedIs
    <3>2. CASE p \in e.deleted
      BY <1>1, <3>2, ListedIs
    <3> QED
      BY <2>2, <3>1, <3>2
  <2>3. \A p \in d.deleted : p \in e.deleted
    BY <1>1
  <2> QED
    BY <1>2, <2>1, <2>2, <2>3
<1>4. ListedIn(e) \cap e.deleted = {}
  <2> SUFFICES ASSUME NEW p, p \in ListedIn(e), p \in e.deleted PROVE FALSE
    OBVIOUS
  <2>1. PICK n \in DOMAIN e.text : p \in Range(e.text[n])
    BY ListedIs
  <2>2. n \in DOMAIN d.text /\ n \notin out /\ p \in Range(d.text[n])
    BY <1>1, <2>1
  <2>3. p \notin d.deleted
    BY <1>2, <2>2, ListedIs
  <2>4. PICK k \in out : p \in Range(d.text[k])
    BY <1>1, <2>3
  <2> QED
    BY <1>2, <2>2, <2>4
<1>5. \A m, n \in DOMAIN e.text : m # n => Range(e.text[m]) \cap Range(e.text[n]) = {}
  BY <1>1, <1>2
<1>6. \A n \in DOMAIN e.text : \A i, j \in DOMAIN e.text[n] : i < j => Before(w, e.text[n][i], e.text[n][j])
  BY <1>1, <1>2
<1> QED
  BY <1>0, <1>3, <1>4, <1>5, <1>6 DEF DiskKeeps

(* maybe_evict_old after open_new, with and without an I/O error. *)
LEMMA EvictOk ==
    ASSUME NEW d, NEW w, DiskOk(d, w), cfg \in RollConfigs, clock \in Nat, d.cur.entry = "own",
           d.cur.reused \/ d.modified[d.cur.name] >= d.cur.opened,
           NEW e \in Evict(d)
    PROVE  DiskOk(e, w)
<1>1. /\ DiskType(d) /\ DiskKeeps(d, w) /\ DiskTimes(d) /\ d.cur.name \in DOMAIN d.text
      /\ IsFiniteSet(DOMAIN d.text) /\ d.modified \in [DOMAIN d.text -> Nat] /\ d.cur.opened \in Nat
      /\ d.outlived \subseteq Nat
  <2>1. DiskType(d) /\ DiskKeeps(d, w) /\ DiskTimes(d)
    BY DEF DiskOk
  <2>2. d.cur \in Current /\ d.modified \in [DOMAIN d.text -> Nat] /\ IsFiniteSet(DOMAIN d.text)
    BY <2>1 DEF DiskType
  <2> QED
    BY <2>1, <2>2 DEF DiskType, Current
<1>2. cfg.keep \in Nat \cup {-1}
  BY RollingAssumption
<1>3. CASE cfg.keep = -1 \/ Extras(d) <= 0
  BY <1>3 DEF Evict
<1>4. CASE ~(cfg.keep = -1 \/ Extras(d) <= 0)
  <2>1. PICK out, entry :
          /\ out \in SUBSET DOMAIN d.text /\ e = Removed(d, out, entry)
          /\ \/ entry = "lost"
             \/ /\ entry = "evicted" /\ Cardinality(out) = Extras(d)
                /\ \A m \in out, n \in DOMAIN d.text \ out : d.modified[m] <= d.modified[n]
    BY <1>4 DEF Evict
  <2>2. entry \in {"evicted", "lost"}
    BY <2>1
  <2>3. /\ DiskType(e) /\ DOMAIN e.text = DOMAIN d.text \ out
        /\ \A n \in DOMAIN e.text : e.text[n] = d.text[n] /\ e.modified[n] = d.modified[n]
        /\ e.cur.name = d.cur.name /\ e.cur.opened = d.cur.opened /\ e.cur.reused = d.cur.reused
        /\ e.cur.entry = IF d.cur.name \in out THEN entry ELSE d.cur.entry
        /\ \A t : t \in e.outlived <=> t \in d.outlived \/ (entry = "evicted" /\ \E n \in out : t = d.modified[n])
    BY <1>1, <2>1, <2>2, RemovedIs
  <2>4. DiskKeeps(e, w)
    BY <1>1, <2>1, <2>2, RemovedKeeps
  <2>5. \A n \in DOMAIN e.text : e.modified[n] <= clock
    BY <1>1, <2>3 DEF DiskTimes
  <2>6. ASSUME NEW t \in e.outlived PROVE t <= clock /\ \A n \in DOMAIN e.text : t <= e.modified[n]
    <3>1. CASE t \in d.outlived
      BY <1>1, <2>3, <3>1 DEF DiskTimes
    <3>2. CASE entry = "evicted" /\ \E n \in out : t = d.modified[n]
      <4>1. PICK m \in out : t = d.modified[m]
        BY <3>2
      <4>2. t <= clock
        BY <1>1, <2>1, <4>1 DEF DiskTimes
      <4>3. \A n \in DOMAIN d.text \ out : t <= d.modified[n]
        BY <2>1, <3>2, <4>1
      <4> QED
        BY <2>3, <4>2, <4>3
    <3> QED
      BY <2>3, <3>1, <3>2
  <2>7. ASSUME e.cur.entry = "evicted"
        PROVE  cfg.keep = 0 \/ e.cur.reused \/ \E n \in DOMAIN e.text : e.modified[n] >= e.cur.opened
    <3>1. entry = "evicted" /\ d.cur.name \in out
      BY <2>1, <2>3, <2>7
    <3> SUFFICES ASSUME cfg.keep # 0, ~d.cur.reused PROVE \E n \in DOMAIN e.text : e.modified[n] >= e.cur.opened
      BY <2>3
    <3>2. d.modified[d.cur.name] >= d.cur.opened
      OBVIOUS
    <3>3. PICK n : n \in DOMAIN d.text \ out
      <4>1. Cardinality(out) = Cardinality(DOMAIN d.text) - cfg.keep /\ cfg.keep \in Nat \ {0}
        BY <1>2, <1>4, <2>1, <3>1 DEF Extras
      <4>2. Cardinality(DOMAIN d.text) \in Nat
        BY <1>1, FS_CardinalityType
      <4>3. out # DOMAIN d.text
        BY <4>1, <4>2
      <4> QED
        BY <2>1, <4>3
    <3>4. d.modified[d.cur.name] <= d.modified[n]
      BY <2>1, <3>1, <3>3
    <3>5. d.modified[n] \in Nat /\ d.modified[d.cur.name] \in Nat
      BY <1>1, <3>3
    <3>6. d.modified[n] >= d.cur.opened
      BY <1>1, <3>2, <3>4, <3>5
    <3> QED
      BY <2>3, <3>3, <3>6
  <2> QED
    BY <2>3, <2>4, <2>5, <2>6, <2>7 DEF DiskOk, DiskTimes
<1> QED
  BY <1>3, <1>4

LEMMA WithStateOk ==
    ASSUME DiskOk(Disk, writes), clock \in Nat, cfg \in RollConfigs, NEW f \in WithState
    PROVE  DiskOk(f, writes)
<1>1. PICK w, d : w = writes /\ d = IF cur = Closed THEN OpenNew(Disk) ELSE Disk
  OBVIOUS
<1>2. DiskOk(d, w)
  BY <1>1, OpenNewOk
<1>3. WithState = IF ShouldRotate(d.cur) THEN Evict(OpenNew(d)) ELSE {d}
  BY <1>1 DEF WithState
<1>4. CASE ~ShouldRotate(d.cur)
  BY <1>1, <1>2, <1>3, <1>4
<1>5. CASE ShouldRotate(d.cur)
  <2>1. PICK e : e = OpenNew(d)
    OBVIOUS
  <2>2. DiskOk(e, w)
    BY <1>2, <2>1, OpenNewOk
  <2>3. e.cur.entry = "own" /\ (e.cur.reused \/ (e.modified[e.cur.name] = clock /\ e.cur.opened = clock))
    BY <1>2, <2>1, OpenNewIs DEF DiskOk
  <2>4. e.cur.reused \/ e.modified[e.cur.name] >= e.cur.opened
    BY <2>3
  <2>5. f \in Evict(e)
    BY <1>3, <1>5, <2>1
  <2>6. DiskOk(f, w)
    BY <2>2, <2>3, <2>4, <2>5, EvictOk
  <2> QED
    BY <1>1, <2>6
<1> QED
  BY <1>4, <1>5

(* A piece is appended to the file that is open. *)
LEMMA AppendedOk ==
    ASSUME NEW d, NEW w \in Seq(Piece), DiskOk(d, w), clock \in Nat,
           NEW p \in Piece, p \notin Range(w)
    PROVE  DiskOk(Appended(d, p), Append(w, p))
<1> DEFINE v == Append(w, p)
           e == Appended(d, p)
           name == d.cur.name
           D == DOMAIN d.text
<1>0. d \in [cur : Current, roll_counter : Nat, text : [D -> Seq(Piece)], modified : [D -> Nat],
             deleted : SUBSET Piece, outlived : SUBSET Nat]
  BY DEF DiskOk, DiskType
<1>1. /\ IsFiniteSet(D) /\ d.text \in [D -> Seq(Piece)] /\ d.modified \in [D -> Nat]
      /\ d.deleted \subseteq Piece /\ d.outlived \subseteq Nat /\ DOMAIN d.modified = D
      /\ d.cur.entry = "own" => name \in D
      /\ \A n \in D : d.text[n] \in Seq(Piece) /\ d.modified[n] \in Nat
  BY <1>0 DEF DiskOk, DiskType
<1>2. Range(v) = Range(w) \cup {p} /\ v \in Seq(Piece)
  BY RangeOf
<1>3. DiskKeeps(d, w) /\ ListedIn(d) \cup d.deleted = Range(w) /\ ListedIn(d) \cap d.deleted = {}
  BY DEF DiskOk, DiskKeeps
<1>4. /\ \A q, r \in Range(w) : Before(w, q, r) => Before(v, q, r)
      /\ \A q \in Range(w) : Before(v, q, p)
  BY BeforeGrows
<1>5. p \notin ListedIn(d) /\ p \notin d.deleted
  BY <1>3
<1>g. \A n \in D : \A q \in Range(d.text[n]) : q \in Range(w)
  BY <1>3, ListedIs
<1>t. ASSUME NEW n \in D, NEW i \in DOMAIN d.text[n] PROVE d.text[n][i] \in Range(w)
  <2>1. d.text[n][i] \in Range(d.text[n])
    BY DEF Range
  <2> QED
    BY <1>g, <2>1
<1>a. DiskTimes(d)
  BY DEF DiskOk
<1> HIDE DEF v, D
<1>6. CASE d.cur.entry # "own"
  <2>1. e = [d EXCEPT !.deleted = @ \cup {p}]
    BY <1>6 DEF Appended
  <2>2. /\ e.cur = d.cur /\ e.text = d.text /\ e.modified = d.modified /\ e.outlived = d.outlived
        /\ e.deleted = d.deleted \cup {p} /\ d.deleted \cup {p} \in SUBSET Piece
    BY <1>0, <1>1, <2>1
  <2>3. e \in [cur : Current, roll_counter : Nat, text : [D -> Seq(Piece)], modified : [D -> Nat],
               deleted : SUBSET Piece, outlived : SUBSET Nat]
    BY ONLY <1>0, <2>1, <2>2
  <2> HIDE DEF e
  <2>4. DOMAIN e.text = D
    BY <1>1, <2>2
  <2>5. DiskType(e)
    BY <1>1, <2>2, <2>3, <2>4 DEF DiskType
  <2>6. ListedIn(e) = ListedIn(d)
    BY <2>2 DEF ListedIn
  <2>7. \A n \in D : \A i, j \in DOMAIN d.text[n] : i < j => Before(v, d.text[n][i], d.text[n][j])
    BY <1>3, <1>4, <1>t DEF DiskKeeps, D
  <2>8. DiskKeeps(e, v)
    <3>1. ListedIn(e) \cup e.deleted = Range(v) /\ ListedIn(e) \cap e.deleted = {}
      BY <1>2, <1>3, <1>5, <2>2, <2>6
    <3>2. \A m, n \in DOMAIN e.text : m # n => Range(e.text[m]) \cap Range(e.text[n]) = {}
      BY <1>3, <2>2 DEF DiskKeeps
    <3> QED
      BY <2>2, <2>4, <2>7, <3>1, <3>2 DEF DiskKeeps
  <2>9. DiskTimes(e)
    BY <1>a, <2>2 DEF DiskTimes
  <2> QED
    BY <2>5, <2>8, <2>9 DEF DiskOk, e, v
<1>7. CASE d.cur.entry = "own"
  <2> DEFINE tt == [d.text EXCEPT ![name] = Append(@, p)]
             mm == [d.modified EXCEPT ![name] = clock]
  <2>1. e = [d EXCEPT !.text = tt, !.modified = mm]
    BY <1>0, <1>7 DEF Appended
  <2>2. name \in D /\ d.text[name] \in Seq(Piece)
    BY <1>1, <1>7
  <2>4. Append(d.text[name], p) \in Seq(Piece) /\ Range(Append(d.text[name], p)) = Range(d.text[name]) \cup {p}
    BY <2>2, RangeOf
  <2>5. /\ tt \in [D -> Seq(Piece)] /\ tt[name] = Append(d.text[name], p)
        /\ \A n \in D : n # name => tt[n] = d.text[n]
    BY <1>1, <2>2, <2>4
  <2>3. /\ mm \in [D -> Nat] /\ mm[name] = clock
        /\ \A n \in D : n # name => mm[n] = d.modified[n]
    BY <1>1, <2>2
  <2> HIDE DEF tt, mm, e
  <2>6. /\ e.cur = d.cur /\ e.text = tt /\ e.modified = mm /\ e.deleted = d.deleted /\ e.outlived = d.outlived
        /\ e \in [cur : Current, roll_counter : Nat, text : [D -> Seq(Piece)], modified : [D -> Nat],
                  deleted : SUBSET Piece, outlived : SUBSET Nat]
    BY ONLY <1>0, <2>1, <2>3, <2>5
  <2>d. DOMAIN e.text = D
    BY <2>5, <2>6
  <2>7. DiskType(e)
    BY <1>1, <2>6, <2>d DEF DiskType
  <2>8. /\ Range(e.text[name]) = Range(d.text[name]) \cup {p}
        /\ \A n \in D : n # name => e.text[n] = d.text[n]
    BY <2>4, <2>5, <2>6
  <2>9. ListedIn(e) = ListedIn(d) \cup {p}
    <3>1. ASSUME NEW q \in ListedIn(e) PROVE q \in ListedIn(d) \cup {p}
      <4>1. PICK n \in D : q \in Range(e.text[n])
        BY <2>d, <3>1, ListedIs
      <4> QED
        BY <2>8, <4>1, ListedIs DEF D
    <3>2. ASSUME NEW q \in ListedIn(d) PROVE q \in ListedIn(e)
      <4>1. PICK n \in D : q \in Range(d.text[n])
        BY <3>2, ListedIs DEF D
      <4>2. q \in Range(e.text[n])
        BY <2>8, <4>1
      <4> QED
        BY <2>d, <4>2, ListedIs
    <3>3. p \in ListedIn(e)
      BY <2>2, <2>8, <2>d, ListedIs
    <3> QED
      BY <3>1, <3>2, <3>3
  <2>10. \A m, n \in DOMAIN e.text : m # n => Range(e.text[m]) \cap Range(e.text[n]) = {}
    <3>1. \A n \in D : p \notin Range(d.text[n])
      BY <1>5, ListedIs DEF D
    <3>2. \A m, n \in D : m # n => Range(d.text[m]) \cap Range(d.text[n]) = {}
      BY <1>3 DEF DiskKeeps, D
    <3>3. \A n \in D : Range(e.text[n]) = Range(d.text[n]) \cup (IF n = name THEN {p} ELSE {})
      BY <2>8
    <3>4. ASSUME NEW m \in D, NEW n \in D, m # n
          PROVE  Range(e.text[m]) \cap Range(e.text[n]) = {}
      <4>1. Range(d.text[m]) \cap Range(d.text[n]) = {} /\ p \notin Range(d.text[m]) /\ p \notin Range(d.text[n])
        BY <3>1, <3>2, <3>4
      <4>2. /\ Range(e.text[m]) = Range(d.text[m]) \cup (IF m = name THEN {p} ELSE {})
            /\ Range(e.text[n]) = Range(d.text[n]) \cup (IF n = name THEN {p} ELSE {})
        BY <3>3
      <4> QED
        BY <3>4, <4>1, <4>2
    <3> QED
      BY <2>d, <3>4
  <2>11. ASSUME NEW n \in DOMAIN e.text, NEW i \in DOMAIN e.text[n], NEW j \in DOMAIN e.text[n], i < j
         PROVE  Before(v, e.text[n][i], e.text[n][j])
    <3>1. CASE n # name
      <4>1. e.text[n] = d.text[n] /\ n \in D
        BY <2>8, <2>d, <3>1
      <4> QED
        BY <1>3, <1>4, <1>t, <2>11, <4>1 DEF DiskKeeps, D
    <3>2. CASE n = name
      <4> DEFINE f == d.text[name]
                 k == Len(f)
      <4>1. f \in Seq(Piece) /\ e.text[n] = Append(f, p)
        BY <2>2, <2>5, <2>6, <3>2
      <4>x. \A x, y \in DOMAIN f : x < y => Before(w, f[x], f[y])
        BY <1>3, <2>2 DEF DiskKeeps, D
      <4>y. \A x \in DOMAIN f : f[x] \in Range(w)
        BY <1>t, <2>2
      <4> HIDE DEF f
      <4>2. /\ k \in Nat /\ DOMAIN f = 1..k /\ DOMAIN Append(f, p) = 1..(k + 1)
            /\ Append(f, p)[k + 1] = p /\ \A x \in 1..k : Append(f, p)[x] = f[x]
            /\ \A x \in 1..(k + 1) : x = k + 1 \/ x \in 1..k
        <5>1. /\ Append(f, p) \in Seq(Piece) /\ Len(Append(f, p)) = k + 1
          BY <4>1, AppendIs
        <5> QED
          BY <4>1, <5>1, AppendIs
      <4>3. i \in 1..k /\ Append(f, p)[i] = f[i]
        BY <2>11, <4>1, <4>2
      <4>4. CASE j = k + 1
        BY <1>4, <4>1, <4>2, <4>3, <4>4, <4>y
      <4>5. CASE j \in 1..k
        BY <1>4, <2>11, <4>1, <4>2, <4>3, <4>5, <4>x, <4>y
      <4> QED
        BY <2>11, <4>1, <4>2, <4>4, <4>5
    <3> QED
      BY <3>1, <3>2
  <2>12. DiskKeeps(e, v)
    BY <1>2, <1>3, <1>5, <2>6, <2>9, <2>10, <2>11 DEF DiskKeeps
  <2>13. DiskTimes(e)
    <3>1. ASSUME NEW n \in D PROVE e.modified[n] <= clock
      <4>1. e.modified[n] = mm[n] /\ clock <= clock
        BY <2>6
      <4>2. n # name => d.modified[n] <= clock
        BY <1>a DEF DiskTimes, D
      <4> QED
        BY <2>3, <4>1, <4>2
    <3>2. \A t \in e.outlived : t <= clock /\ \A n \in D : t <= e.modified[n]
      BY <1>a, <2>3, <2>6 DEF DiskTimes, D
    <3>3. e.cur.entry # "evicted"
      BY <1>7, <2>6
    <3> QED
      BY <2>d, <3>1, <3>2, <3>3 DEF DiskTimes
  <2> QED
    BY <2>7, <2>12, <2>13 DEF DiskOk, e, v
<1> QED
  BY <1>6, <1>7

LEMMA BecomesIs ==
    /\ \A d : DiskType(d) /\ Becomes(d) => Disk' = d
    /\ UNCHANGED diskVars => Disk' = Disk
<1>1. ASSUME NEW d, DiskType(d), Becomes(d) PROVE Disk' = d
  <2>1. d \in [cur : Current, roll_counter : Nat, text : [DOMAIN d.text -> Seq(Piece)],
               modified : [DOMAIN d.text -> Nat], deleted : SUBSET Piece, outlived : SUBSET Nat]
    BY <1>1 DEF DiskType
  <2>2. d = [cur |-> d.cur, roll_counter |-> d.roll_counter, text |-> d.text, modified |-> d.modified,
             deleted |-> d.deleted, outlived |-> d.outlived]
    BY ONLY <2>1
  <2>3. Disk' = [cur |-> cur', roll_counter |-> roll_counter', text |-> text', modified |-> modified',
                 deleted |-> deleted', outlived |-> outlived']
    BY DEF Disk
  <2>4. /\ cur' = d.cur /\ roll_counter' = d.roll_counter /\ text' = d.text /\ modified' = d.modified
        /\ deleted' = d.deleted /\ outlived' = d.outlived
    BY <1>1 DEF Becomes
  <2> QED
    BY ONLY <2>2, <2>3, <2>4
<1>2. UNCHANGED diskVars => Disk' = Disk
  BY DEF Disk, diskVars
<1> QED
  BY <1>1, <1>2

(* The disk after a step that leaves the clock alone. *)
LEMMA DiskStays ==
    ASSUME cfg' = cfg, clock' = clock, NEW d, NEW w, Disk' = d, writes' = w, DiskOk(d, w)
    PROVE  DiskOk(Disk, writes)'
<1>1. DiskType(Disk') /\ DiskKeeps(Disk', writes')
  BY DEF DiskOk
<1>2. DiskTimes(Disk)'
  <2>1. DiskTimes(d)
    BY DEF DiskOk
  <2> QED
    BY <2>1 DEF DiskTimes
<1> QED
  BY <1>1, <1>2 DEF DiskOk

LEMMA ClosedIs == Closed \in Current /\ Closed.entry = "lost"
<1>1. <<>> \in Seq(Nat)
  OBVIOUS
<1> QED
  BY <1>1 DEF Closed, Current, FileName

LEMMA RollStart == RollInit => RollInv
<1> SUFFICES ASSUME RollInit PROVE RollInv
  OBVIOUS
<1>1. /\ cfg \in RollConfigs /\ cur = Closed /\ roll_counter = 0 /\ text = <<>> /\ modified = <<>>
      /\ ndjson = [s \in Writers |-> AtRest] /\ begun = 0 /\ clock = 0 /\ procs = 1
      /\ writes = <<>> /\ deleted = {} /\ outlived = {}
  BY DEF RollInit
<1>2. RollType
  <2>1. AtRest \in [at : {"idle", "write", "note", "flush"}, line : Nat, next : Nat]
    BY DEF AtRest
  <2>2. <<>> \in Seq(Piece)
    OBVIOUS
  <2> QED
    BY <1>1, <2>1, <2>2 DEF RollType
<1>3. Range(<<>>) = {} /\ DOMAIN <<>> = {}
  BY RangeEmpty
<1>4. LinesFresh
  BY <1>1, <1>3 DEF LinesFresh, LineFresh, AtRest
<1>5. PICK d : d = Disk
  OBVIOUS
<1>6. d = [cur |-> Closed, roll_counter |-> 0, text |-> <<>>, modified |-> <<>>, deleted |-> {}, outlived |-> {}]
  BY <1>1, <1>5 DEF Disk
<1>7. /\ d.cur = Closed /\ d.text = <<>> /\ d.modified = <<>> /\ d.deleted = {} /\ d.outlived = {}
      /\ DOMAIN d.text = {}
  BY <1>3, <1>6
<1>8. DiskType(d)
  <2>1. <<>> \in [{} -> Seq(Piece)] /\ <<>> \in [{} -> Nat]
    <3>1. <<>> = [x \in {} |-> 0]
      OBVIOUS
    <3> QED
      BY <3>1
  <2>2. Closed \in Current /\ Closed.entry # "own"
    BY ClosedIs
  <2>3. d \in [cur : Current, roll_counter : Nat, text : [DOMAIN d.text -> Seq(Piece)],
               modified : [DOMAIN d.text -> Nat], deleted : SUBSET Piece, outlived : SUBSET Nat]
    BY <1>6, <1>7, <2>1, <2>2
  <2>4. IsFiniteSet(DOMAIN d.text)
    BY <1>7, FS_EmptySet
  <2> QED
    BY <1>7, <2>2, <2>3, <2>4 DEF DiskType
<1>9. DiskKeeps(d, writes)
  BY <1>1, <1>3, <1>7 DEF DiskKeeps, ListedIn
<1>10. DiskTimes(d)
  BY <1>7, ClosedIs DEF DiskTimes
<1> QED
  BY <1>2, <1>4, <1>5, <1>8, <1>9, <1>10 DEF RollInv, DiskOk

RollStates == [at : {"idle", "write", "note", "flush"}, line : Nat, next : Nat]

(* A sink that stops writing its line, or stays as it is, disturbs no one. *)
LEMMA LinesStill ==
    ASSUME RollInv, NEW s \in Writers, NEW x \in RollStates,
           x.at \in {"idle", "flush"}, x.at = "flush" => ndjson[s].at # "idle" /\ x.line = ndjson[s].line,
           ndjson' = [ndjson EXCEPT ![s] = x],
           UNCHANGED <<cfg, begun, clock, procs, writes>>
    PROVE  RollType' /\ LinesFresh'
<1>1. /\ RollType /\ ndjson \in [Writers -> RollStates] /\ ndjson' \in [Writers -> RollStates]
      /\ ndjson'[s] = x /\ \A r \in Writers : r # s => ndjson'[r] = ndjson[r]
  BY DEF RollInv, RollType, RollStates
<1>2. RollType'
  BY <1>1 DEF RollType, RollStates
<1>3. ASSUME NEW r \in Writers PROVE LineFresh(ndjson[r])'
  BY <1>1 DEF RollInv, LinesFresh, LineFresh
<1>4. LinesFresh'
  BY <1>1, <1>3 DEF RollInv, LinesFresh
<1> QED
  BY <1>2, <1>4

LEMMA DeliverLineKeeps == RollInv /\ (\E s \in Writers : DeliverLine(s)) => RollInv'
<1> SUFFICES ASSUME RollInv, NEW s \in Writers, DeliverLine(s) PROVE RollInv'
  OBVIOUS
<1> DEFINE x == [AtRest EXCEPT !.at = "write", !.line = begun + 1]
<1>1. /\ ndjson[s].at = "idle" /\ begun' = begun + 1 /\ ndjson' = [ndjson EXCEPT ![s] = x]
      /\ UNCHANGED <<cfg, diskVars, clock, procs, fails, written, writes>>
  BY DEF DeliverLine
<1>2. x \in RollStates /\ x.at = "write" /\ x.line = begun + 1 /\ x.next = 1
  <2>1. PICK r, k : r = AtRest /\ k = begun + 1
    OBVIOUS
  <2>2. r \in RollStates /\ r.next = 1 /\ k \in Nat
    BY <2>1 DEF RollInv, RollType, RollStates, AtRest
  <2>3. x = [r EXCEPT !.at = "write", !.line = k]
    BY <2>1
  <2> HIDE DEF x
  <2>4. x \in RollStates /\ x.at = "write" /\ x.line = k /\ x.next = 1
    BY ONLY <2>2, <2>3 DEF RollStates
  <2> QED
    BY <2>1, <2>4
<1>3. begun \in Nat /\ begun + 1 \in Nat /\ begun + 1 \in 1..(begun + 1) /\ begun < begun + 1
      /\ (\A k \in 1..begun : k \in 1..(begun + 1) /\ k # begun + 1) /\ \A k \in Nat : k <= begun => k <= begun + 1 /\ k # begun + 1
  BY DEF RollInv, RollType
<1> HIDE DEF x
<1>4. /\ ndjson \in [Writers -> RollStates] /\ x \in RollStates /\ ndjson'[s] = x
      /\ \A r \in Writers : r # s => ndjson'[r] = ndjson[r]
  BY <1>1, <1>2 DEF RollInv, RollType, RollStates
<1>5. RollType'
  BY <1>1, <1>3, <1>4 DEF RollInv, RollType, RollStates
<1>6. \A q \in Range(writes) : q \in Piece /\ q[1] \in Nat /\ q[1] <= begun
  BY RangeOf DEF RollInv, RollType, LinesFresh, Piece
<1>7. LinesFresh'
  <2>1. LineFresh(ndjson[s])'
    BY <1>1, <1>2, <1>3, <1>4, <1>6 DEF LineFresh
  <2>2. ASSUME NEW r \in Writers, r # s PROVE LineFresh(ndjson[r])'
    BY <1>1, <1>3, <1>4, <2>2 DEF LineFresh, RollInv, LinesFresh
  <2>3. \A r \in Writers : r # s /\ ndjson[r].at # "idle" => ndjson[r].line # begun + 1
    BY <1>3 DEF RollInv, LinesFresh, LineFresh
  <2>4. ASSUME NEW r \in Writers, NEW q \in Writers, r # q, ndjson'[r].at # "idle", ndjson'[q].at # "idle"
        PROVE  ndjson'[r].line # ndjson'[q].line
    BY <1>2, <1>4, <2>3, <2>4 DEF RollInv, LinesFresh
  <2> QED
    BY <1>1, <1>3, <1>6, <2>1, <2>2, <2>4 DEF LinesFresh
<1>8. DiskOk(Disk, writes)'
  BY <1>1, BecomesIs, DiskStays DEF RollInv
<1> QED
  BY <1>5, <1>7, <1>8 DEF RollInv

LEMMA WritePieceKeeps == RollInv /\ (\E s \in Writers : WritePiece(s)) => RollInv'
<1> SUFFICES ASSUME RollInv, NEW s \in Writers, WritePiece(s) PROVE RollInv'
  OBVIOUS
<1>1. PICK p : p = <<ndjson[s].line, ndjson[s].next>>
  OBVIOUS
<1>2. /\ ndjson[s].at = "write" /\ (\E d \in WithState : Becomes(Appended(d, p))) /\ writes' = Append(writes, p)
      /\ ndjson' = [ndjson EXCEPT ![s].at = "note"]
      /\ UNCHANGED <<cfg, begun, clock, procs, fails, written>>
  BY <1>1 DEF WritePiece
<1>3. ndjson \in [Writers -> RollStates] /\ writes \in Seq(Piece) /\ clock \in Nat /\ cfg \in RollConfigs /\ begun \in Nat
  BY DEF RollInv, RollType, RollStates
<1>4. p \in Piece /\ p[1] = ndjson[s].line /\ p[2] = ndjson[s].next
  BY <1>1, <1>3 DEF Piece, RollStates
<1>5. p \notin Range(writes) /\ p[1] \in 1..begun
  <2>1. LineFresh(ndjson[s])
    BY DEF RollInv, LinesFresh
  <2>2. ndjson[s].next \in Nat
    BY <1>3 DEF RollStates
  <2> QED
    BY <1>2, <1>4, <2>1, <2>2 DEF LineFresh
<1>6. PICK d \in WithState : Becomes(Appended(d, p))
  BY <1>2
<1>7. PICK w : w = writes
  OBVIOUS
<1>8. DiskOk(d, w)
  BY <1>3, <1>7, WithStateOk DEF RollInv
<1>9. PICK e : e = Appended(d, p)
  OBVIOUS
<1>10. DiskOk(e, Append(w, p))
  BY <1>3, <1>4, <1>5, <1>7, <1>8, <1>9, AppendedOk
<1>11. Disk' = e /\ writes' = Append(w, p)
  <2>1. Becomes(e) /\ DiskType(e)
    BY <1>6, <1>9, <1>10 DEF DiskOk
  <2> QED
    BY <1>2, <1>7, <2>1, BecomesIs
<1>12. DiskOk(Disk, writes)'
  BY <1>2, <1>10, <1>11, DiskStays
<1>13. Range(writes') = Range(writes) \cup {p} /\ writes' \in Seq(Piece)
  BY <1>2, <1>3, <1>4, RangeOf
<1>14. /\ ndjson'[s] \in RollStates /\ ndjson'[s].at = "note" /\ ndjson'[s].line = ndjson[s].line
       /\ ndjson'[s].next = ndjson[s].next
       /\ ndjson' \in [Writers -> RollStates] /\ \A r \in Writers : r # s => ndjson'[r] = ndjson[r]
  BY <1>2, <1>3 DEF RollStates
<1>15. RollType'
  BY <1>2, <1>3, <1>13, <1>14 DEF RollInv, RollType, RollStates
<1>16. LinesFresh'
  <2>1. \A r \in Writers : LineFresh(ndjson[r]) /\ ndjson[r] \in RollStates
    BY <1>3 DEF RollInv, LinesFresh
  <2>2. \A q \in Range(writes) : q[1] \in Nat /\ q[2] \in Nat /\ q[1] <= begun
    BY <1>3, RangeOf DEF RollInv, LinesFresh, Piece
  <2>3. LineFresh(ndjson[s])'
    <3>1. \A q \in Range(writes) : q[1] = ndjson[s].line => q[2] <= ndjson[s].next
      BY <1>2, <2>1, <2>2 DEF LineFresh, RollStates
    <3>2. ndjson[s].line \in 1..begun /\ ndjson[s].next \in Nat
      BY <1>2, <2>1 DEF LineFresh, RollStates
    <3> QED
      BY <1>2, <1>4, <1>13, <1>14, <3>1, <3>2 DEF LineFresh
  <2>4. ASSUME NEW r \in Writers, r # s PROVE LineFresh(ndjson[r])'
    <3>1. ndjson[r].at # "idle" => ndjson[r].line # p[1]
      BY <1>2, <1>4, <2>4 DEF RollInv, LinesFresh
    <3> QED
      BY <1>2, <1>13, <1>14, <2>1, <2>4, <3>1 DEF LineFresh
  <2>5. ASSUME NEW r \in Writers, NEW q \in Writers, r # q, ndjson'[r].at # "idle", ndjson'[q].at # "idle"
        PROVE  ndjson'[r].line # ndjson'[q].line
    <3>1. \A a \in Writers : ndjson'[a].line = ndjson[a].line /\ (ndjson'[a].at # "idle" => ndjson[a].at # "idle")
      BY <1>2, <1>14
    <3> QED
      BY <2>5, <3>1 DEF RollInv, LinesFresh
  <2>6. \A q \in Range(writes') : q[1] <= begun'
    BY <1>2, <1>5, <1>13, <2>2
  <2> QED
    BY <2>3, <2>4, <2>5, <2>6 DEF LinesFresh
<1> QED
  BY <1>12, <1>15, <1>16 DEF RollInv

(* with_state, in a step that writes nothing. *)
LEMMA StateTaken ==
    ASSUME RollInv, cfg' = cfg, clock' = clock, writes' = writes,
           UNCHANGED diskVars \/ \E d \in WithState : Becomes(d)
    PROVE  DiskOk(Disk, writes)'
<1>1. CASE UNCHANGED diskVars
  BY <1>1, BecomesIs, DiskStays DEF RollInv
<1>2. CASE \E d \in WithState : Becomes(d)
  <2>1. PICK d \in WithState : Becomes(d)
    BY <1>2
  <2>2. PICK w : w = writes
    OBVIOUS
  <2>3. DiskOk(d, w)
    BY <2>2, WithStateOk DEF RollInv, RollType
  <2>4. Disk' = d
    BY <2>1, <2>3, BecomesIs DEF DiskOk
  <2> QED
    BY <2>2, <2>3, <2>4, DiskStays
<1> QED
  BY <1>1, <1>2

LEMMA QuietWriterKeeps ==
    RollInv /\ (\E s \in Writers : WritePieceFails(s) \/ FlushLine(s) \/ FlushLineFails(s)) => RollInv'
<1> SUFFICES ASSUME RollInv, NEW s \in Writers, WritePieceFails(s) \/ FlushLine(s) \/ FlushLineFails(s) PROVE RollInv'
  OBVIOUS
<1>1. ndjson[s] \in RollStates /\ ndjson \in [Writers -> RollStates]
  BY DEF RollInv, RollType, RollStates
<1>2. PICK x \in RollStates : /\ x.at \in {"idle", "flush"} /\ ndjson' = [ndjson EXCEPT ![s] = x]
                              /\ x.at = "flush" => ndjson[s].at # "idle" /\ x.line = ndjson[s].line
  <2>1. CASE WritePieceFails(s)
    <3> DEFINE y == [ndjson[s] EXCEPT !.at = "flush"]
    <3>1. ndjson[s].at = "write" /\ ndjson' = [ndjson EXCEPT ![s] = y]
      BY <1>1, <2>1 DEF WritePieceFails
    <3>2. y \in RollStates /\ y.at = "flush" /\ y.line = ndjson[s].line
      BY <1>1 DEF RollStates
    <3> HIDE DEF y
    <3> QED
      BY <3>1, <3>2
  <2>2. CASE FlushLine(s) \/ FlushLineFails(s)
    <3>1. ndjson' = [ndjson EXCEPT ![s] = AtRest]
      BY <2>2 DEF FlushLine, FlushLineFails, Finish
    <3>2. AtRest \in RollStates /\ AtRest.at = "idle"
      BY DEF AtRest, RollStates
    <3> QED
      BY <3>1, <3>2
  <2> QED
    BY <2>1, <2>2
<1>3. UNCHANGED <<cfg, begun, clock, procs, writes>> /\ (UNCHANGED diskVars \/ \E d \in WithState : Becomes(d))
  BY DEF WritePieceFails, FlushLine, FlushLineFails
<1>4. RollType' /\ LinesFresh'
  BY <1>2, <1>3, LinesStill
<1>5. DiskOk(Disk, writes)'
  BY <1>3, StateTaken
<1> QED
  BY <1>4, <1>5 DEF RollInv

(* Counting the bytes leaves the file, its name and its place. *)
LEMMA NoteBytesKeeps == RollInv /\ (\E s \in Writers : NoteBytes(s)) => RollInv'
<1> SUFFICES ASSUME RollInv, NEW s \in Writers, NoteBytes(s) PROVE RollInv'
  OBVIOUS
<1> DEFINE x == [ndjson[s] EXCEPT !.next = @ + 1, !.at = IF ndjson[s].next = Pieces THEN "flush" ELSE "write"]
<1>1. /\ ndjson[s].at = "note" /\ cur' = [cur EXCEPT !.bytes = @ + 1]
      /\ UNCHANGED <<cfg, begun, roll_counter, text, modified, deleted, outlived, clock, procs, fails, written, writes>>
  BY DEF NoteBytes
<1>2. ndjson[s] \in RollStates /\ ndjson \in [Writers -> RollStates]
  BY DEF RollInv, RollType, RollStates
<1>3. ndjson' = [ndjson EXCEPT ![s] = x]
  BY <1>2 DEF NoteBytes
<1>4. /\ x \in RollStates /\ x.line = ndjson[s].line /\ x.next = ndjson[s].next + 1 /\ x.at \in {"write", "flush"}
  <2> DEFINE a == IF ndjson[s].next = Pieces THEN "flush" ELSE "write"
             k == ndjson[s].next + 1
  <2>1. a \in {"write", "flush"} /\ k \in Nat
    BY <1>2 DEF RollStates
  <2>2. x = [ndjson[s] EXCEPT !.next = k, !.at = a]
    BY <1>2 DEF RollStates
  <2>3. k = ndjson[s].next + 1
    OBVIOUS
  <2> HIDE DEF x, a, k
  <2>4. x \in RollStates /\ x.line = ndjson[s].line /\ x.next = k /\ x.at = a
    BY ONLY <1>2, <2>1, <2>2 DEF RollStates
  <2> QED
    BY <2>1, <2>3, <2>4
<1> HIDE DEF x
<1>5. /\ ndjson' \in [Writers -> RollStates] /\ ndjson'[s] = x
      /\ \A r \in Writers : r # s => ndjson'[r] = ndjson[r]
  BY <1>2, <1>3, <1>4
<1>6. RollType'
  BY <1>1, <1>5 DEF RollInv, RollType, RollStates
<1>7. LinesFresh'
  <2>1. \A q \in Range(writes) : q[2] \in Nat
    BY RangeOf DEF RollInv, RollType, Piece
  <2>2. LineFresh(ndjson[s])'
    <3>1. ndjson[s].next \in Nat /\ LineFresh(ndjson[s])
      BY <1>2 DEF RollInv, LinesFresh, RollStates
    <3> QED
      BY <1>1, <1>4, <1>5, <2>1, <3>1 DEF LineFresh
  <2>3. ASSUME NEW r \in Writers, r # s PROVE LineFresh(ndjson[r])'
    BY <1>1, <1>5, <2>3 DEF LineFresh, RollInv, LinesFresh
  <2>4. \A r \in Writers : ndjson'[r].line = ndjson[r].line /\ (ndjson'[r].at # "idle" => ndjson[r].at # "idle")
    BY <1>1, <1>4, <1>5
  <2> QED
    BY <1>1, <2>2, <2>3, <2>4 DEF LinesFresh, RollInv
<1>8. PICK o, w : o = Disk /\ w = writes
  OBVIOUS
<1>9. /\ DiskType(o) /\ DiskKeeps(o, w) /\ DiskTimes(o) /\ o.cur = cur
      /\ o \in [cur : Current, roll_counter : Nat, text : [DOMAIN o.text -> Seq(Piece)],
                modified : [DOMAIN o.text -> Nat], deleted : SUBSET Piece, outlived : SUBSET Nat]
  BY <1>8 DEF RollInv, DiskOk, DiskType, Disk
<1>10. PICK k : k = o.cur.bytes + 1
  OBVIOUS
<1>11. PICK c : c = [o.cur EXCEPT !.bytes = k]
  OBVIOUS
<1>12. /\ c \in Current /\ c.name = o.cur.name /\ c.opened = o.cur.opened /\ c.reused = o.cur.reused
       /\ c.entry = o.cur.entry
  <2>1. o.cur \in Current
    BY ONLY <1>9
  <2>2. k \in Nat
    BY ONLY <1>10, <2>1 DEF Current
  <2> QED
    BY ONLY <1>11, <2>1, <2>2 DEF Current
<1>13. PICK d : d = [o EXCEPT !.cur = c]
  OBVIOUS
<1>14. /\ d.cur = c /\ d.roll_counter = o.roll_counter /\ d.text = o.text /\ d.modified = o.modified
       /\ d.deleted = o.deleted /\ d.outlived = o.outlived
       /\ d \in [cur : Current, roll_counter : Nat, text : [DOMAIN o.text -> Seq(Piece)],
                 modified : [DOMAIN o.text -> Nat], deleted : SUBSET Piece, outlived : SUBSET Nat]
  BY ONLY <1>9, <1>12, <1>13
<1>15. Disk' = d
  <2>1. Disk' = [cur |-> cur', roll_counter |-> roll_counter', text |-> text', modified |-> modified',
                 deleted |-> deleted', outlived |-> outlived']
    BY DEF Disk
  <2>2. /\ o.roll_counter = roll_counter' /\ o.text = text' /\ o.modified = modified'
        /\ o.deleted = deleted' /\ o.outlived = outlived'
    BY <1>1, <1>8 DEF Disk
  <2>3. cur' = c
    BY <1>1, <1>9, <1>10, <1>11
  <2>4. d = [cur |-> d.cur, roll_counter |-> d.roll_counter, text |-> d.text, modified |-> d.modified,
             deleted |-> d.deleted, outlived |-> d.outlived]
    BY ONLY <1>14
  <2> QED
    BY ONLY <1>14, <2>1, <2>2, <2>3, <2>4
<1>16. DiskType(d)
  BY <1>9, <1>12, <1>14 DEF DiskType
<1>17. DiskKeeps(d, w)
  <2>1. ListedIn(d) = ListedIn(o)
    BY <1>14 DEF ListedIn
  <2> QED
    BY <1>9, <1>14, <2>1 DEF DiskKeeps
<1>18. DiskTimes(d)
  BY <1>9, <1>12, <1>14 DEF DiskTimes
<1>19. DiskOk(Disk, writes)'
  BY <1>1, <1>8, <1>15, <1>16, <1>17, <1>18, DiskStays DEF DiskOk
<1> QED
  BY <1>6, <1>7, <1>19 DEF RollInv

(* Time goes by, and the process ends and starts again. *)
LEMMA TickKeeps == RollInv /\ Tick => RollInv'
<1> SUFFICES ASSUME RollInv, Tick PROVE RollInv'
  OBVIOUS
<1>1. clock' = clock + 1 /\ UNCHANGED <<cfg, begun, diskVars, ndjson, procs, fails, written, writes>> /\ clock \in Nat
  BY DEF Tick, RollInv, RollType
<1>2. RollType' /\ LinesFresh' /\ Disk' = Disk
  BY <1>1, BecomesIs DEF RollInv, RollType, LinesFresh, LineFresh, diskVars
<1>3. PICK d, w : d = Disk /\ w = writes
  OBVIOUS
<1>4. DiskType(d) /\ DiskKeeps(d, w) /\ DiskTimes(d) /\ Disk' = d /\ writes' = w
  BY <1>1, <1>2, <1>3 DEF RollInv, DiskOk
<1>5. \A n \in DOMAIN d.text : d.modified[n] \in Nat
  BY <1>4 DEF DiskType
<1>6. d.outlived \subseteq Nat
  BY <1>4 DEF DiskType
<1>7. DiskTimes(Disk)'
  <2>1. \A k \in Nat : k <= clock => k <= clock'
    BY <1>1
  <2>2. \A n \in DOMAIN d.text : d.modified[n] <= clock'
    BY <1>4, <1>5, <2>1 DEF DiskTimes
  <2>3. \A u \in d.outlived : u <= clock' /\ \A n \in DOMAIN d.text : u <= d.modified[n]
    BY <1>4, <1>6, <2>1 DEF DiskTimes
  <2>4. cfg' = cfg
    BY <1>1
  <2> QED
    BY <1>4, <2>2, <2>3, <2>4 DEF DiskTimes
<1>8. DiskOk(Disk, writes)'
  BY <1>4, <1>7 DEF DiskOk
<1> QED
  BY <1>2, <1>8 DEF RollInv

LEMMA RestartWriterKeeps == RollInv /\ RestartWriter => RollInv'
<1> SUFFICES ASSUME RollInv, RestartWriter PROVE RollInv'
  OBVIOUS
<1>1. /\ procs' = procs + 1 /\ cur' = Closed /\ roll_counter' = 0
      /\ ndjson' = [s \in Writers |-> AtRest]
      /\ UNCHANGED <<cfg, begun, text, modified, deleted, outlived, clock, fails, written, writes>>
  BY DEF RestartWriter
<1>2. AtRest \in RollStates /\ AtRest.at = "idle"
  BY DEF AtRest, RollStates
<1>3. RollType'
  BY <1>1, <1>2 DEF RollInv, RollType, RollStates
<1>4. LinesFresh'
  BY <1>1, <1>2 DEF RollInv, LinesFresh, LineFresh
<1>5. PICK o, w : o = Disk /\ w = writes
  OBVIOUS
<1>6. PICK d : d = [cur |-> Closed, roll_counter |-> 0, text |-> text, modified |-> modified,
                    deleted |-> deleted, outlived |-> outlived]
  OBVIOUS
<1>7. Disk' = d /\ writes' = w
  BY <1>1, <1>5, <1>6 DEF Disk
<1>8. DiskType(o) /\ DiskKeeps(o, w) /\ DiskTimes(o)
  BY <1>5 DEF RollInv, DiskOk
<1>9. /\ d.cur = Closed /\ d.roll_counter = 0 /\ d.text = o.text /\ d.modified = o.modified
      /\ d.deleted = o.deleted /\ d.outlived = o.outlived
  BY <1>5, <1>6 DEF Disk
<1>10. Closed \in Current /\ Closed.entry = "lost"
  BY ClosedIs
<1>11. DiskType(d)
  <2>1. /\ o.text \in [DOMAIN o.text -> Seq(Piece)] /\ o.modified \in [DOMAIN o.text -> Nat]
        /\ o.deleted \in SUBSET Piece /\ o.outlived \in SUBSET Nat /\ IsFiniteSet(DOMAIN o.text)
    BY <1>8 DEF DiskType
  <2>2. /\ o.text = text /\ o.modified = modified /\ o.deleted = deleted /\ o.outlived = outlived
    BY <1>5 DEF Disk
  <2>3. d \in [cur : Current, roll_counter : Nat, text : [DOMAIN d.text -> Seq(Piece)],
               modified : [DOMAIN d.text -> Nat], deleted : SUBSET Piece, outlived : SUBSET Nat]
    BY <1>6, <1>10, <2>1, <2>2
  <2> QED
    BY <1>9, <1>10, <2>1, <2>3 DEF DiskType
<1>12. DiskKeeps(d, w)
  <2>1. ListedIn(d) = ListedIn(o)
    BY <1>9 DEF ListedIn
  <2> QED
    BY <1>8, <1>9, <2>1 DEF DiskKeeps
<1>13. DiskTimes(d)
  BY <1>8, <1>9, <1>10 DEF DiskTimes
<1>14. DiskOk(d, w)
  BY <1>11, <1>12, <1>13 DEF DiskOk
<1>15. DiskOk(Disk, writes)'
  BY <1>1, <1>7, <1>14, DiskStays
<1> QED
  BY <1>3, <1>4, <1>15 DEF RollInv

LEMMA RollStep == RollInv /\ [RollNext]_rollVars => RollInv'
<1> SUFFICES ASSUME RollInv, [RollNext]_rollVars PROVE RollInv'
  OBVIOUS
<1>1. CASE RollNext
  BY <1>1, DeliverLineKeeps, WritePieceKeeps, QuietWriterKeeps, NoteBytesKeeps, TickKeeps, RestartWriterKeeps DEF RollNext
<1>2. CASE UNCHANGED rollVars
  <2>1. /\ UNCHANGED diskVars
        /\ UNCHANGED <<cfg, begun, clock, procs, ndjson, writes>>
    BY <1>2 DEF rollVars, diskVars
  <2>2. RollType' /\ LinesFresh'
    BY <2>1 DEF RollInv, RollType, LinesFresh, LineFresh
  <2>3. DiskOk(Disk, writes)'
    BY <2>1, StateTaken
  <2> QED
    BY <2>1, <2>2, <2>3 DEF RollInv
<1> QED
  BY <1>1, <1>2

LEMMA RollFollows == RollInv => Kept
<1> SUFFICES ASSUME RollInv PROVE Kept
  OBVIOUS
<1>1. PICK d : d = Disk
  OBVIOUS
<1>2. /\ d.cur = cur /\ d.text = text /\ d.modified = modified /\ d.deleted = deleted /\ d.outlived = outlived
      /\ Listed = ListedIn(d)
  BY <1>1 DEF Disk, Listed
<1>3. DiskKeeps(d, writes) /\ DiskTimes(d)
  BY <1>1 DEF RollInv, DiskOk
<1>4. FilesAccounted
  BY <1>2, <1>3 DEF FilesAccounted, DiskKeeps
<1>5. \A u \in outlived, n \in DOMAIN text : u <= modified[n]
  BY <1>2, <1>3 DEF DiskTimes
<1>6. cur.entry = "evicted" =>
        cfg.keep = 0 \/ cur.reused \/ \E n \in DOMAIN text : modified[n] >= cur.opened
  BY <1>2, <1>3 DEF DiskTimes
<1> QED
  BY <1>4, <1>5, <1>6 DEF Kept

-------------------------------------------------------------------------------
(* The composition: a step is of one sink, and leaves the others alone. *)

SinksInv ==
    OtlpInv /\ ClickHouseInv /\ ParquetInv /\ PromInv /\ TailInv /\ TailLine /\ RollInv /\ NbInv

LEMMA SinksStart == Init => SinksInv
BY OtlpStart, ClickHouseStart, ParquetStart, PromStart, TailStart, TailLineStart, RollStart, NbStart
DEF Init, SinksInv

LEMMA PartSteps ==
    ASSUME [Next]_vars
    PROVE  /\ [OtlpNext]_oVars /\ [ClickHouseNext]_cVars /\ [ParquetNext]_pVars
           /\ [PromNext]_promVars /\ [TailNext]_tailVars /\ [RollNext]_rollVars /\ [NbNext]_nbVars /\ sink' = sink
<1>1. CASE sink = "otlp" /\ OtlpNext /\ UNCHANGED <<sink, cVars, pVars, promVars, tailVars, rollVars, nbVars>>
  BY <1>1
<1>2. CASE sink = "clickhouse" /\ ClickHouseNext
           /\ UNCHANGED <<sink, oVars, pVars, promVars, tailVars, rollVars, nbVars>>
  BY <1>2
<1>3. CASE sink = "parquet" /\ ParquetNext
           /\ UNCHANGED <<sink, oVars, cVars, promVars, tailVars, rollVars, nbVars>>
  BY <1>3
<1>4. CASE sink = "prom" /\ PromNext /\ UNCHANGED <<sink, exportVars, tailVars, rollVars, nbVars>>
  BY <1>4 DEF exportVars
<1>5. CASE sink = "tail" /\ TailNext /\ UNCHANGED <<sink, exportVars, promVars, rollVars, nbVars>>
  BY <1>5 DEF exportVars
<1>6. CASE UNCHANGED <<sink, exportVars, promVars, tailVars>> /\ [RollNext]_rollVars /\ [NbNext]_nbVars
  BY <1>6 DEF exportVars
<1>7. CASE UNCHANGED vars
  BY <1>6, <1>7 DEF vars
<1> QED
  BY <1>1, <1>2, <1>3, <1>4, <1>5, <1>6, <1>7 DEF Next

LEMMA SinksStep == SinksInv /\ [Next]_vars => SinksInv'
BY PartSteps, OtlpStep, ClickHouseStep, ParquetStep, PromStep, TailStep, TailLineStep, RollStep, NbStep
DEF SinksInv

(* An envelope handed to a sink is exported, given up, or can still be found *)
(* in the place its code keeps it, whatever the order of calls, failures,    *)
(* panics and crashes.                                                       *)
THEOREM TrackedHolds == Spec => []Tracked
<1>1. SinksInv => Tracked
  BY OtlpFollows, ClickHouseFollows, ParquetFollows DEF SinksInv, Tracked
<1> QED
  BY <1>1, SinksStart, SinksStep, PTL DEF Spec

(* No sink exports an envelope twice, except where an answer was lost.       *)
THEOREM ExportedOnceHolds == Spec => []ExportedOnce
<1>1. SinksInv => ExportedOnce
  BY OtlpFollows, ParquetFollows DEF SinksInv, ClickHouseInv, ExportedOnce
<1> QED
  BY <1>1, SinksStart, SinksStep, PTL DEF Spec

(* An undisturbed OTLP shutdown leaves neither batch nor payload, a Parquet  *)
(* partition over its roll size is attended to or failed to roll, and        *)
(* ClickHouse's drop_count() is right where its calls do not panic.          *)
THEOREM NothingLeftHolds == Spec => []NothingLeft
<1>1. SinksInv => NothingLeft
  BY OtlpFollows DEF SinksInv, ParquetInv, ClickHouseInv, NothingLeft
<1> QED
  BY <1>1, SinksStart, SinksStep, PTL DEF Spec

(* The series cap and the two subscriber caps are exceeded by no more than   *)
(* the callers that passed the check together.                               *)
THEOREM CapsHoldAlways == Spec => []CapsHold
<1>1. SinksInv => CapsHold
  BY CapsFollow DEF SinksInv
<1> QED
  BY <1>1, SinksStart, SinksStep, PTL DEF Spec

(* A live-tail subscriber reads each matching message once, in the order of  *)
(* delivery, and while its entry is in the map every message that matched    *)
(* since it came is delivered or counted as missed, never both.              *)
THEOREM TailInOrderHolds == Spec => []TailInOrder
<1>1. SinksInv => TailInOrder
  BY LinesFollow DEF SinksInv
<1> QED
  BY <1>1, SinksStart, SinksStep, PTL DEF Spec

(* Rotation, restarts and I/O errors neither lose a piece that write()        *)
(* acknowledged nor repeat one, whatever the policy and the number of files  *)
(* kept: it is in one listed file, or went with one, and each file holds its *)
(* pieces in the order of the writes.  An eviction without I/O errors takes  *)
(* no file written later than one it leaves, and the file that is being      *)
(* written only if nothing is kept, if it is one of an earlier process, or   *)
(* if another file was written in the tick in which it was opened, or since. *)
THEOREM KeptHolds == Spec => []Kept
<1>1. SinksInv => Kept
  BY RollFollows DEF SinksInv
<1> QED
  BY <1>1, SinksStart, SinksStep, PTL DEF Spec

(* Every line that left a handle of the non-blocking writer is written, its   *)
(* write failed, or it is in hand, queued, refused or stranded, and once only; *)
(* drops count refused buffers, and a guard's drop waits for the lines it saw. *)
THEOREM LinesAccountedHolds == Spec => []LinesAccounted
<1>1. SinksInv => LinesAccounted
  BY NbFollows DEF SinksInv
<1> QED
  BY <1>1, SinksStart, SinksStep, PTL DEF Spec

(* A scrape shows less for a series than the scrape before only when the     *)
(* series was evicted in between.                                            *)
THEOREM PromMonotoneHolds == Spec => PromMonotone
<1>1. SinksInv /\ [Next]_vars => [PromDown]_promVars
  BY PartSteps, PromStep DEF SinksInv
<1> QED
  BY <1>1, SinksStart, SinksStep, PTL DEF Spec, PromMonotone, PromDown

(* The export sinks implement DeliveryLedger: what is held is exported or    *)
(* given up, and neither is taken back.                                      *)
THEOREM LedgerHoldsAlways == Spec => LedgerHolds
<1> DEFINE l == IF sink = "otlp" THEN OtlpLedger
                ELSE IF sink = "clickhouse" THEN ClickHouseLedger ELSE ParquetLedger
<1>1. Init => Ledger!Init
  <2> SUFFICES ASSUME Init PROVE l = [e \in Envs |-> "new"]
    BY DEF Ledger!Init
  <2>1. /\ oDelivered = {} /\ cDelivered = {} /\ pDelivered = {}
    BY DEF Init, OtlpInit, ClickHouseInit, ParquetInit
  <2> QED
    BY <2>1 DEF OtlpLedger, ClickHouseLedger, ParquetLedger
<1>2. SinksInv /\ [Next]_vars => LedgerMoves(l, l')
  <2> SUFFICES ASSUME SinksInv, [Next]_vars PROVE LedgerMoves(l, l')
    OBVIOUS
  <2>1. /\ LedgerMoves(OtlpLedger, OtlpLedger') /\ LedgerMoves(ClickHouseLedger, ClickHouseLedger')
        /\ LedgerMoves(ParquetLedger, ParquetLedger') /\ sink' = sink
    BY PartSteps, OtlpStep, ClickHouseMoves, ParquetMoves DEF SinksInv
  <2> QED
    BY <2>1
<1>3. LedgerMoves(l, l') => [Ledger!Next]_l
  <2> SUFFICES ASSUME LedgerMoves(l, l'), l' # l PROVE Ledger!Next
    OBVIOUS
  <2> USE DEF Ledger!Next, Ledger!Accept, Ledger!Export, Ledger!Lose, Ledger!Move
  <2>1. l = [e \in Envs |-> l[e]]
    BY DEF OtlpLedger, ClickHouseLedger, ParquetLedger
  <2> HIDE DEF l
  <2>2. ASSUME NEW e \in Envs, l[e] = "new", l' = [f \in Envs |-> IF f = e THEN "held" ELSE l[f]]
        PROVE  Ledger!Next
    <3>1. l' = [f \in Envs |-> IF f \in {e} THEN "held" ELSE l[f]]
      BY <2>2
    <3> QED
      BY <2>2, <3>1 DEF l
  <2>3. ASSUME NEW S \in SUBSET Envs, \A e \in S : l[e] = "held",
               \/ l' = [f \in Envs |-> IF f \in S THEN "sent" ELSE l[f]]
               \/ l' = [f \in Envs |-> IF f \in S THEN "lost" ELSE l[f]]
        PROVE  Ledger!Next
    <3>1. S # {}
      BY <2>1, <2>3
    <3> QED
      BY <2>3, <3>1 DEF l
  <2> QED
    BY <2>2, <2>3 DEF LedgerMoves
<1> QED
  BY <1>1, <1>2, <1>3, SinksStart, SinksStep, PTL DEF Spec, LedgerHolds, Ledger!Spec
===============================================================================
