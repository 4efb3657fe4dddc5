---------------------------- MODULE RetryProofs ----------------------------
(***************************************************************************)
(* Proofs about the resilience end of the chain.  First CircuitBreaker     *)
(* alone, for any number of concurrent calls, any thresholds and any       *)
(* OpenTimeout; then Retry around it, for any number of invocations and    *)
(* any policy.                                                             *)
(***************************************************************************)
EXTENDS Retry, TLAPS

(* The breaker *)

\* The breaker starts in the invariant.
LEMMA InitIInv == Init => IInv
<1> SUFFICES ASSUME Init PROVE IInv
  OBVIOUS
<1>1. Inside = {} /\ LiveProbes = {}
  BY DEF Init, Inside, LiveProbes
<1>2. TypeOK
  <2>1. probing \in BOOLEAN
    BY Zenon DEF Init
  <2>2. tok \in [Calls -> Tokens]
    BY DEF Init, Tokens
  <2> QED
    BY <2>1, <2>2 DEF Init, TypeOK, States, CallState
<1> QED
  BY <1>1, <1>2, ConfigAssumption DEF Init, IInv, SlotHeldByOneProbe,
     StaleCallsPowerless, ProbeSpacing, GaugeConverges, CountersBounded, Stamps,
     StaleProbesOld, ReportsPending

-----------------------------------------------------------------------------
(* Admission *)

\* A call that is turned away touches nothing the invariant is about.
LEMMA TurnAwayIInv ==
    ASSUME IInv, NEW c \in Calls, pc[c] = "new", TurnAway(c),
           seen' = [seen EXCEPT ![c] = state'],
           UNCHANGED <<failures, openedAt, now, observer>>
    PROVE  IInv'
<1> USE DEF IInv, TurnAway, Goto, observer
<1>1. Inside' = Inside /\ LiveProbes' = LiveProbes
  BY DEF Inside, LiveProbes, Current, TypeOK
<1>2. TypeOK'
  BY DEF TypeOK, CallState, States
<1>3. SlotHeldByOneProbe' /\ StaleCallsPowerless' /\ ProbeSpacing'
  BY <1>1 DEF SlotHeldByOneProbe, StaleCallsPowerless, ProbeSpacing, Current
<1>4. GaugeConverges' /\ CountersBounded'
  BY DEF GaugeConverges, CountersBounded
<1>5. Stamps' /\ StaleProbesOld'
  BY <1>1 DEF Stamps, StaleProbesOld, Current
<1>6. ReportsPending'
  BY DEF ReportsPending, TypeOK
<1> QED
  BY <1>2, <1>3, <1>4, <1>5, <1>6

\* What letting a call in changes: it is inside with a token of the new
\* generation and the present time, and nobody else's token or time changes.
LEMMA LetInInside ==
    ASSUME TypeOK, NEW c \in Calls, pc[c] = "new", NEW b \in BOOLEAN,
           gen' \in Nat, LetIn(c, b)
    PROVE  /\ pc' \in [Calls -> CallState]
           /\ tok' \in [Calls -> Tokens]
           /\ at' \in [Calls -> Nat]
           /\ Inside' = Inside \cup {c} /\ c \notin Inside
           /\ tok'[c].gen = gen' /\ tok'[c].probe = b /\ at'[c] = now
           /\ \A d \in Calls : d # c => /\ tok'[d] = tok[d] /\ at'[d] = at[d]
                                        /\ pc'[d] = pc[d]
           /\ pc'[c] = "entering"
<1>1. [gen |-> gen', probe |-> b] \in Tokens
  BY DEF Tokens
<1>2. /\ tok' \in [Calls -> Tokens] /\ tok'[c] = [gen |-> gen', probe |-> b]
      /\ \A d \in Calls : d # c => tok'[d] = tok[d]
  BY <1>1 DEF LetIn, TypeOK
<1>3. /\ pc' \in [Calls -> CallState] /\ pc'[c] = "entering"
      /\ \A d \in Calls : d # c => pc'[d] = pc[d]
  BY DEF LetIn, Goto, TypeOK, CallState
<1>4. /\ at' \in [Calls -> Nat] /\ at'[c] = now
      /\ \A d \in Calls : d # c => at'[d] = at[d]
  BY DEF LetIn, TypeOK
<1>5. Inside' = Inside \cup {c} /\ c \notin Inside
  BY <1>3 DEF Inside
<1> QED
  BY <1>2, <1>3, <1>4, <1>5

\* What a transition changes.
LEMMA MoveTransition ==
    ASSUME TypeOK, NEW c \in Calls, NEW s \in States, Move(c, s)
    PROVE  /\ state' = s /\ gen' = gen + 1 /\ seq' = seq + 1
           /\ gen' \in Nat /\ seq' \in Nat
           /\ tr' \in [Calls -> Transitions \cup {NoTransition}]
           /\ tr'[c] # NoTransition /\ tr'[c].seq = seq' /\ tr'[c].to = s
           /\ \A d \in Calls : d # c => tr'[d] = tr[d]
<1>1. [from |-> state, to |-> s, seq |-> seq + 1] \in Transitions
  BY DEF TypeOK, Transitions
<1>2. [from |-> state, to |-> s, seq |-> seq + 1] # NoTransition
  BY <1>1, NoTransitionAssumption
<1> QED
  BY <1>1, <1>2 DEF Move, TypeOK

\* admit keeps it, in each state of the breaker: a call that is let in joins
\* those inside, with the slot when it is a probe.
LEMMA AdmitIInv ==
    ASSUME IInv, NEW c \in Calls, Admit(c)
    PROVE  IInv'
<1> USE DEF IInv
<1>1. /\ pc[c] = "new" /\ tr[c] = NoTransition
      /\ UNCHANGED <<failures, openedAt, now, observer>>
      /\ seen' = [seen EXCEPT ![c] = state']
  BY DEF Admit, ReportsPending
<1> USE ConfigAssumption
<1>2. CASE AdmitClosed(c)
  <2>1. /\ state = "closed" /\ LetIn(c, FALSE)
        /\ UNCHANGED <<successes, gen, probing, probeAt, state, seq, tr>>
    BY <1>2 DEF AdmitClosed, Stay
  <2>2. /\ TypeOK /\ gen' \in Nat
    BY <2>1 DEF TypeOK
  <2>3. /\ pc' \in [Calls -> CallState]
        /\ tok' \in [Calls -> Tokens]
        /\ at' \in [Calls -> Nat]
        /\ Inside' = Inside \cup {c} /\ c \notin Inside
        /\ tok'[c].gen = gen' /\ tok'[c].probe = FALSE /\ at'[c] = now
        /\ \A d \in Calls : d # c => /\ tok'[d] = tok[d] /\ at'[d] = at[d]
                                     /\ pc'[d] = pc[d]
        /\ pc'[c] = "entering"
    BY <1>1, <2>1, <2>2, LetInInside
  <2>4. TypeOK'
    BY <1>1, <2>1, <2>3 DEF TypeOK, observer
  <2>5. LiveProbes' = LiveProbes /\ LiveProbes \subseteq Inside /\ Inside \subseteq Calls
    BY <2>1, <2>3 DEF LiveProbes, Inside, Current
  <2>6. SlotHeldByOneProbe'
    BY <2>1, <2>5 DEF SlotHeldByOneProbe
  <2>7. StaleCallsPowerless'
    BY <2>1, <2>2, <2>3, <2>5 DEF StaleCallsPowerless, Current, TypeOK
  <2>8. ProbeSpacing' /\ StaleProbesOld'
    BY <1>1, <2>1, <2>3, <2>5 DEF ProbeSpacing, StaleProbesOld, Current
  <2>9. Stamps'
    BY <1>1, <2>1, <2>2, <2>3, <2>5 DEF Stamps, TypeOK
  <2>10. GaugeConverges' /\ CountersBounded' /\ ReportsPending'
    BY <1>1, <2>1, <2>3 DEF GaugeConverges, CountersBounded, ReportsPending, observer
  <2> QED
    BY <2>4, <2>6, <2>7, <2>8, <2>9, <2>10
<1>3. CASE TurnAway(c)
  BY <1>1, <1>3, TurnAwayIInv
<1>4. CASE AdmitOpen(c) /\ ~TurnAway(c)
  <2>1. /\ state = "open" /\ now - openedAt >= OpenTimeout
        /\ successes' = 0 /\ Move(c, "half_open")
        /\ probing' = TRUE /\ probeAt' = now /\ LetIn(c, TRUE)
    BY <1>4 DEF AdmitOpen, TakeSlot
  <2>2. /\ state' = "half_open" /\ gen' = gen + 1 /\ seq' = seq + 1
        /\ gen' \in Nat /\ seq' \in Nat
        /\ tr' \in [Calls -> Transitions \cup {NoTransition}]
        /\ tr'[c] # NoTransition /\ tr'[c].seq = seq' /\ tr'[c].to = "half_open"
        /\ \A d \in Calls : d # c => tr'[d] = tr[d]
    BY <2>1, MoveTransition DEF States
  <2>3. /\ pc' \in [Calls -> CallState]
        /\ tok' \in [Calls -> Tokens]
        /\ at' \in [Calls -> Nat]
        /\ Inside' = Inside \cup {c} /\ c \notin Inside
        /\ tok'[c].gen = gen' /\ tok'[c].probe = TRUE /\ at'[c] = now
        /\ \A d \in Calls : d # c => /\ tok'[d] = tok[d] /\ at'[d] = at[d]
                                     /\ pc'[d] = pc[d]
        /\ pc'[c] = "entering"
    BY <1>1, <2>1, <2>2, LetInInside
  <2>4. TypeOK'
    BY <1>1, <2>1, <2>2, <2>3 DEF TypeOK, observer, States
  <2>5. /\ \A d \in Inside : d \in Calls /\ d # c /\ tok[d].gen \in Nat /\ at[d] \in Nat
        /\ \A d \in Inside : tok[d].gen < gen
    BY <2>1, <2>3 DEF StaleCallsPowerless, Inside, Current, TypeOK, Tokens
  <2>6. LiveProbes' = {c}
    BY <2>2, <2>3, <2>5 DEF LiveProbes, Current, TypeOK
  <2>7. SlotHeldByOneProbe'
    BY <2>1, <2>2, <2>6 DEF SlotHeldByOneProbe
  <2>8. StaleCallsPowerless'
    BY <2>2, <2>3, <2>5 DEF StaleCallsPowerless, Current, TypeOK
  <2>9. \A d \in Inside : tok[d].probe => OpenTimeout > 0 /\ now - at[d] >= OpenTimeout
    BY <2>5 DEF StaleProbesOld, Current, TypeOK
  <2>10. ProbeSpacing' /\ StaleProbesOld'
    BY <1>1, <2>2, <2>3, <2>5, <2>9 DEF ProbeSpacing, StaleProbesOld, Current, TypeOK
  <2>11. Stamps'
    BY <1>1, <2>1, <2>3, <2>5, <2>6 DEF Stamps, TypeOK
  <2>12. GaugeConverges' /\ CountersBounded' /\ ReportsPending'
    BY <1>1, <2>1, <2>2, <2>3 DEF GaugeConverges, CountersBounded, ReportsPending,
       observer, TypeOK, Transitions
  <2> QED
    BY <2>4, <2>7, <2>8, <2>10, <2>11, <2>12
<1>5. CASE AdmitHalfOpen(c) /\ ~TurnAway(c)
  <2>1. /\ state = "half_open"
        /\ \/ ~probing /\ gen' = gen
           \/ OpenTimeout > 0 /\ now - probeAt >= OpenTimeout /\ gen' = gen + 1
        /\ probing' = TRUE /\ probeAt' = now /\ LetIn(c, TRUE)
        /\ UNCHANGED <<state, seq, tr, successes>>
    BY <1>5 DEF AdmitHalfOpen, TakeSlot, Stay, LeaseExpired
  <2>2. gen' \in Nat /\ gen' >= gen
    BY <2>1 DEF TypeOK
  <2>3. /\ pc' \in [Calls -> CallState]
        /\ tok' \in [Calls -> Tokens]
        /\ at' \in [Calls -> Nat]
        /\ Inside' = Inside \cup {c} /\ c \notin Inside
        /\ tok'[c].gen = gen' /\ tok'[c].probe = TRUE /\ at'[c] = now
        /\ \A d \in Calls : d # c => /\ tok'[d] = tok[d] /\ at'[d] = at[d]
                                     /\ pc'[d] = pc[d]
        /\ pc'[c] = "entering"
    BY <1>1, <2>1, <2>2, LetInInside
  <2>4. TypeOK'
    BY <1>1, <2>1, <2>2, <2>3 DEF TypeOK, observer
  <2>5. \A d \in Inside : d \in Calls /\ d # c /\ tok[d].gen \in Nat /\ at[d] \in Nat
    BY <2>3 DEF Inside, TypeOK, Tokens
  <2>6. \A d \in Inside : tok[d].gen < gen'
    <3> SUFFICES ASSUME NEW d \in Inside PROVE tok[d].gen < gen'
      OBVIOUS
    <3>1. tok[d].gen <= gen /\ (Current(d) => tok[d].probe)
      BY <2>1 DEF StaleCallsPowerless
    <3>2. Current(d) => d \in LiveProbes /\ probing
      BY <2>1, <3>1 DEF LiveProbes, SlotHeldByOneProbe
    <3> QED
      BY <2>1, <2>2, <2>5, <3>1, <3>2 DEF Current, TypeOK
  <2>7. LiveProbes' = {c}
    BY <2>3, <2>5, <2>6 DEF LiveProbes, Current, TypeOK
  <2>8. SlotHeldByOneProbe'
    BY <2>1, <2>7 DEF SlotHeldByOneProbe
  <2>9. StaleCallsPowerless'
    BY <2>1, <2>2, <2>3, <2>5, <2>6 DEF StaleCallsPowerless, Current, TypeOK
  <2>10. \A d \in Inside : tok[d].probe => OpenTimeout > 0 /\ now - at[d] >= OpenTimeout
    <3> SUFFICES ASSUME NEW d \in Inside, tok[d].probe
                 PROVE  OpenTimeout > 0 /\ now - at[d] >= OpenTimeout
      OBVIOUS
    <3>1. CASE Current(d)
      <4>1. d \in LiveProbes /\ probing /\ probeAt = at[d]
        BY <2>1, <3>1 DEF LiveProbes, SlotHeldByOneProbe, Stamps
      <4> QED
        BY <2>1, <4>1
    <3> QED
      BY <3>1 DEF StaleProbesOld
  <2>11. ProbeSpacing' /\ StaleProbesOld'
    BY <1>1, <2>2, <2>3, <2>5, <2>10 DEF ProbeSpacing, StaleProbesOld, Current, TypeOK
  <2>12. Stamps'
    BY <1>1, <2>1, <2>3, <2>5, <2>7 DEF Stamps, TypeOK
  <2>13. GaugeConverges' /\ CountersBounded' /\ ReportsPending'
    BY <1>1, <2>1, <2>3 DEF GaugeConverges, CountersBounded, ReportsPending, observer
  <2> QED
    BY <2>4, <2>8, <2>9, <2>11, <2>12, <2>13
<1> QED
  BY <1>2, <1>3, <1>4, <1>5 DEF Admit

-----------------------------------------------------------------------------
(* Completion *)

\* A completed call is not inside any more, and nobody else is disturbed.
LEMMA LeaveInside ==
    ASSUME TypeOK, NEW c \in Calls, pc[c] = "running", Goto(c, "leaving"),
           UNCHANGED <<tok, at>>
    PROVE  /\ pc' \in [Calls -> CallState]
           /\ Inside' = Inside \ {c} /\ c \in Inside
           /\ Inside \subseteq Calls
           /\ pc'[c] = "leaving"
           /\ \A d \in Calls : d # c => pc'[d] = pc[d]
           /\ \A d \in Inside : tok[d].gen \in Nat /\ at[d] \in Nat
BY DEF Goto, TypeOK, CallState, Inside, Tokens

\* record keeps it: the outcome of a current call counts, that of any other is
\* ignored, and the slot goes with the probe that held it.
LEMMA RecordIInv ==
    ASSUME IInv, NEW c \in Calls, NEW out \in Outcomes, Record(c, out)
    PROVE  IInv'
<1> USE ConfigAssumption DEF IInv
<1>1. /\ pc[c] = "running" /\ Goto(c, "leaving") /\ tr[c] = NoTransition
      /\ seen' = [seen EXCEPT ![c] = state']
      /\ UNCHANGED <<probeAt, now, tok, at, observer>>
  BY DEF Record, ReportsPending
<1>2. /\ pc' \in [Calls -> CallState]
      /\ Inside' = Inside \ {c} /\ c \in Inside
      /\ Inside \subseteq Calls
      /\ pc'[c] = "leaving"
      /\ \A d \in Calls : d # c => pc'[d] = pc[d]
      /\ \A d \in Inside : tok[d].gen \in Nat /\ at[d] \in Nat
  BY <1>1, LeaveInside
<1>3. ProbeSpacing'
  BY <1>1, <1>2 DEF ProbeSpacing
<1>0. failures' \in Nat /\ successes' \in Nat /\ openedAt' \in Nat /\ openedAt' <= now
  <2>1. CASE RecordClosed(c, out)
    BY <2>1 DEF RecordClosed, Stamps, TypeOK, Outcomes
  <2>2. CASE RecordHalfOpen(c, out)
    <3>1. /\ failures' = failures \/ failures' = 0
          /\ successes' = successes \/ successes' = 0 \/ successes' = successes + 1
          /\ openedAt' = openedAt \/ openedAt' = now
      BY <2>2 DEF RecordHalfOpen
    <3> QED
      BY <3>1 DEF Stamps, TypeOK
  <2>3. CASE RecordIgnored(c)
    BY <2>3 DEF RecordIgnored, Stamps, TypeOK
  <2> QED
    BY <2>1, <2>2, <2>3 DEF Record
\* No transition: the generation stays.
<1>4. ASSUME Stay, UNCHANGED <<openedAt, gen>>, CountersBounded',
             \/ probing' = probing /\ c \notin LiveProbes
             \/ probing' = FALSE /\ c \in LiveProbes
      PROVE  IInv'
  <2>1. UNCHANGED <<state, seq, tr>>
    BY <1>4 DEF Stay
  <2>2. TypeOK'
    BY <1>0, <1>1, <1>2, <1>4, <2>1 DEF TypeOK, observer
  <2>3. LiveProbes' = LiveProbes \ {c}
    BY <1>1, <1>2, <1>4 DEF LiveProbes, Current
  <2>4. SlotHeldByOneProbe'
    BY <1>4, <2>1, <2>3 DEF SlotHeldByOneProbe
  <2>5. StaleCallsPowerless' /\ StaleProbesOld'
    BY <1>1, <1>2, <1>4, <2>1 DEF StaleCallsPowerless, StaleProbesOld, Current
  <2>6. Stamps'
    BY <1>1, <1>2, <1>4, <2>3 DEF Stamps
  <2>7. GaugeConverges' /\ ReportsPending'
    BY <1>1, <1>2, <2>1 DEF GaugeConverges, ReportsPending, observer
  <2> QED
    BY <1>3, <1>4, <2>2, <2>4, <2>5, <2>6, <2>7
\* A transition: every other call inside is of an older generation.
<1>5. ASSUME state' \in States, state' # "half_open", Move(c, state'),
             CountersBounded',
             probing' = FALSE, Current(c),
             state = "closed" \/ c \in LiveProbes
      PROVE  IInv'
  <2>1. /\ gen' = gen + 1 /\ seq' = seq + 1
        /\ gen' \in Nat /\ seq' \in Nat
        /\ tr' \in [Calls -> Transitions \cup {NoTransition}]
        /\ tr'[c] # NoTransition /\ tr'[c].seq = seq' /\ tr'[c].to = state'
        /\ \A d \in Calls : d # c => tr'[d] = tr[d]
    BY <1>5, MoveTransition
  <2>2. TypeOK'
    BY <1>0, <1>1, <1>2, <1>5, <2>1 DEF TypeOK, observer
  <2>3. \A d \in Inside : tok[d].gen < gen'
    BY <1>2, <2>1 DEF StaleCallsPowerless, TypeOK
  <2>4. LiveProbes' = {}
    BY <1>1, <1>2, <2>1, <2>3 DEF LiveProbes, Current, TypeOK
  <2>5. SlotHeldByOneProbe'
    BY <1>5, <2>4 DEF SlotHeldByOneProbe
  <2>6. StaleCallsPowerless'
    BY <1>1, <1>2, <2>1, <2>3 DEF StaleCallsPowerless, Current, TypeOK
  <2>7. \A d \in Inside : d # c /\ tok[d].probe => ~Current(d)
    BY <1>5, <1>2 DEF SlotHeldByOneProbe, LiveProbes, StaleCallsPowerless
  <2>8. StaleProbesOld'
    BY <1>1, <1>2, <2>7 DEF StaleProbesOld, Current
  <2>9. Stamps'
    BY <1>0, <1>1, <1>2, <1>5, <2>4 DEF Stamps, TypeOK
  <2>10. GaugeConverges' /\ ReportsPending'
    BY <1>1, <1>2, <2>1 DEF GaugeConverges, ReportsPending, observer, TypeOK, Transitions
  <2> QED
    BY <1>3, <1>5, <2>2, <2>5, <2>6, <2>8, <2>9, <2>10
<1>6. CASE Current(c) /\ RecordClosed(c, out)
  <2>1. state = "closed" /\ UNCHANGED <<successes, probing>> /\ c \notin LiveProbes
        /\ probing = FALSE
    BY <1>2, <1>6 DEF RecordClosed, LiveProbes, StaleCallsPowerless, SlotHeldByOneProbe, TypeOK
  <2>3. CASE out = "failure" /\ failures' >= FailureThreshold
    <3>1. Move(c, "open") /\ openedAt' = now /\ state' = "open"
      BY <1>6, <2>3 DEF RecordClosed, Move
    <3>2. CountersBounded'
      BY <1>6, <1>0, <2>1, <2>3, <3>1 DEF CountersBounded, RecordClosed, TypeOK
    <3>3. state' \in States /\ state' # "half_open" /\ Move(c, state')
      BY <3>1 DEF States
    <3> QED
      BY <1>5, <1>6, <2>1, <3>2, <3>3
  <2>4. CASE ~(out = "failure" /\ failures' >= FailureThreshold)
    <3>1. Stay /\ UNCHANGED <<openedAt, gen>>
      BY <1>6, <2>4 DEF RecordClosed
    <3>2. CountersBounded'
      BY <1>6, <1>0, <2>1, <2>4, <3>1 DEF CountersBounded, RecordClosed, TypeOK, Stay, Outcomes
    <3> QED
      BY <1>4, <2>1, <3>1, <3>2
  <2> QED
    BY <2>3, <2>4
<1>7. CASE Current(c) /\ tok[c].probe /\ RecordHalfOpen(c, out)
  <2>1. state = "half_open" /\ probing' = FALSE /\ c \in LiveProbes /\ Current(c)
    BY <1>2, <1>7 DEF RecordHalfOpen, LiveProbes
  <2>2. CASE out = "failure"
    <3>1. Move(c, "open") /\ openedAt' = now /\ UNCHANGED <<failures, successes>> /\ state' = "open"
      BY <1>7, <2>2 DEF RecordHalfOpen, Move
    <3>2. CountersBounded'
      BY <2>1, <3>1 DEF CountersBounded, TypeOK
    <3>3. state' \in States /\ state' # "half_open" /\ Move(c, state')
      BY <3>1 DEF States
    <3> QED
      BY <1>5, <2>1, <3>2, <3>3
  <2>3. CASE out = "success" /\ successes + 1 >= SuccessThreshold
    <3>1. Move(c, "closed") /\ failures' = 0 /\ successes' = 0 /\ openedAt' = openedAt /\ state' = "closed"
      BY <1>7, <2>3 DEF RecordHalfOpen, Move, TypeOK
    <3>2. CountersBounded'
      BY <3>1 DEF CountersBounded
    <3>3. state' \in States /\ state' # "half_open" /\ Move(c, state')
      BY <3>1 DEF States
    <3> QED
      BY <1>5, <2>1, <3>2, <3>3
  <2>4. CASE out = "success" /\ successes + 1 < SuccessThreshold
    <3>1. successes' = successes + 1 /\ Stay /\ UNCHANGED <<failures, openedAt, gen>>
      BY <1>7, <2>4 DEF RecordHalfOpen, TypeOK
    <3>2. CountersBounded'
      BY <2>1, <2>4, <3>1 DEF CountersBounded, TypeOK, Stay
    <3> QED
      BY <1>4, <2>1, <3>1, <3>2
  <2>5. CASE out = "neutral"
    <3>1. Stay /\ UNCHANGED <<failures, successes, openedAt, gen>>
      BY <1>7, <2>5 DEF RecordHalfOpen
    <3>2. CountersBounded'
      BY <3>1 DEF CountersBounded, TypeOK, Stay
    <3> QED
      BY <1>4, <2>1, <3>1, <3>2
  <2>6. successes \in Nat /\ SuccessThreshold \in Nat
    BY DEF TypeOK
  <2> QED
    BY <2>2, <2>3, <2>4, <2>5, <2>6 DEF Outcomes
<1>8. CASE RecordIgnored(c)
  <2>1. Stay /\ UNCHANGED <<failures, successes, openedAt, gen, probing>>
    BY <1>8 DEF RecordIgnored
  <2>2. c \notin LiveProbes
    BY <1>2, <1>8 DEF RecordIgnored, LiveProbes, StaleCallsPowerless
  <2>3. CountersBounded'
    BY <2>1 DEF CountersBounded, TypeOK, Stay
  <2> QED
    BY <1>4, <2>1, <2>2, <2>3
<1> QED
  BY <1>6, <1>7, <1>8 DEF Record

\* report keeps it: the transition delivered is the newest the gauge has seen, or
\* the gauge stays.
LEMMA ReportIInv ==
    ASSUME IInv, NEW c \in Calls, Report(c)
    PROVE  IInv'
<1> USE DEF IInv
<1>1. /\ UNCHANGED <<breaker, now, tok, at, seen>>
      /\ pc[c] \in {"refusing", "entering", "leaving"}
      /\ pc' = [pc EXCEPT ![c] = IF pc[c] = "entering" THEN "running" ELSE "done"]
      /\ tr' = [tr EXCEPT ![c] = NoTransition]
  BY DEF Report, Goto
<1>2. pc' \in [Calls -> CallState] /\ tr' \in [Calls -> Transitions \cup {NoTransition}]
  BY <1>1 DEF TypeOK, CallState
<1>3. Inside' = Inside
  BY <1>1, <1>2 DEF Inside, TypeOK
<1>4. LiveProbes' = LiveProbes
  BY <1>1, <1>3 DEF LiveProbes, Current, breaker
<1>5. /\ gauge' \in States \cup {"absent"} /\ lastSeq' \in Nat
      /\ lastSeq <= seq => lastSeq' <= seq
      /\ \/ UNCHANGED observer /\ (tr[c] = NoTransition \/ tr[c].seq <= lastSeq)
         \/ tr[c] # NoTransition /\ tr[c].seq > lastSeq /\ gauge' = tr[c].to /\ lastSeq' = tr[c].seq
  <2>1. tr[c] # NoTransition => tr[c].seq \in Nat /\ tr[c].to \in States /\ tr[c].seq <= seq
    BY DEF TypeOK, Transitions, ReportsPending
  <2> QED
    BY <2>1 DEF Report, BreakerTransition, observer, TypeOK
<1>6. TypeOK'
  BY <1>1, <1>2, <1>5 DEF TypeOK, breaker
<1>7. SlotHeldByOneProbe' /\ StaleCallsPowerless' /\ ProbeSpacing' /\ CountersBounded'
  BY <1>1, <1>3, <1>4 DEF SlotHeldByOneProbe, StaleCallsPowerless, ProbeSpacing,
     CountersBounded, Current, breaker
<1>8. Stamps' /\ StaleProbesOld'
  BY <1>1, <1>3, <1>4 DEF Stamps, StaleProbesOld, Current, breaker
<1>9. ReportsPending'
  BY <1>1, <1>2, <1>5 DEF ReportsPending, breaker, TypeOK
<1>10. GaugeConverges'
  <2>1. CASE lastSeq = seq
    <3>1. UNCHANGED observer
      BY <1>5, <2>1 DEF ReportsPending, TypeOK, Transitions
    <3> QED
      BY <1>1, <2>1, <3>1 DEF GaugeConverges, observer, breaker
  <2>2. CASE lastSeq # seq
    <3>1. PICK d \in Calls : tr[d] # NoTransition /\ tr[d].seq = seq /\ tr[d].to = state
      BY <2>2 DEF GaugeConverges
    <3>2. CASE tr[c] # NoTransition /\ tr[c].seq = seq
      <4>1. tr[c].to = state /\ seq # 0 /\ lastSeq < seq
        BY <2>2, <3>2 DEF ReportsPending, TypeOK
      <4>2. gauge' = state /\ lastSeq' = seq
        BY <1>5, <3>2, <4>1 DEF TypeOK
      <4> QED
        BY <1>1, <4>1, <4>2 DEF GaugeConverges, breaker
    <3>3. CASE tr[c] = NoTransition \/ tr[c].seq # seq
      <4>1. d # c /\ tr'[d] = tr[d] /\ lastSeq' # seq
        BY <1>1, <1>5, <2>2, <3>1, <3>3 DEF TypeOK, observer
      <4> QED
        BY <1>1, <3>1, <4>1 DEF GaugeConverges, breaker
    <3> QED
      BY <3>2, <3>3
  <2> QED
    BY <2>1, <2>2
<1> QED
  BY <1>6, <1>7, <1>8, <1>9, <1>10

\* The clock only makes admissions older.
LEMMA TickIInv ==
    ASSUME IInv, Tick
    PROVE  IInv'
<1> USE DEF IInv, Tick, breaker, observer
<1>1. Inside' = Inside /\ LiveProbes' = LiveProbes /\ now' = now + 1
  BY DEF Inside, LiveProbes, Current
<1>2. \A c \in Inside : at[c] \in Nat
  BY DEF Inside, TypeOK
<1>3. TypeOK'
  BY DEF TypeOK
<1>4. Stamps' /\ StaleProbesOld'
  BY <1>1, <1>2, ConfigAssumption DEF Stamps, StaleProbesOld, Current, TypeOK
<1> QED
  BY <1>1, <1>3, <1>4 DEF SlotHeldByOneProbe, StaleCallsPowerless, ProbeSpacing,
     GaugeConverges, CountersBounded, ReportsPending, Current

\* A step that leaves the breaker alone keeps it.
LEMMA StutterIInv ==
    ASSUME IInv, UNCHANGED vars
    PROVE  IInv'
BY DEF vars, IInv, TypeOK, SlotHeldByOneProbe, StaleCallsPowerless, ProbeSpacing,
   GaugeConverges, CountersBounded, Stamps, StaleProbesOld, ReportsPending,
   Inside, LiveProbes, Current

-----------------------------------------------------------------------------
\* Every reachable state of the breaker satisfies the inductive invariant, its
\* type invariant included.
THEOREM Invariance == Spec => []IInv
<1>1. IInv /\ [Next]_vars => IInv'
  BY AdmitIInv, RecordIInv, ReportIInv, TickIInv, StutterIInv DEF Next
<1> QED
  BY <1>1, InitIInv, PTL DEF Spec

\* The half-open slot and the current probe belong together, for any number of
\* concurrent calls: the breaker admits one counting probe at a time.
THEOREM OneProbeHoldsTheSlot == Spec => []SlotHeldByOneProbe
<1>1. IInv => SlotHeldByOneProbe
  BY DEF IInv
<1> QED
  BY <1>1, Invariance, PTL

\* A call admitted before the last transition never changes the breaker.
THEOREM StaleCallsAreIgnored == Spec => []StaleCallsPowerless
<1>1. IInv => StaleCallsPowerless
  BY DEF IInv
<1> QED
  BY <1>1, Invariance, PTL

\* Overlapping probes are an OpenTimeout apart, for every OpenTimeout.
THEOREM ProbesAreSpaced == Spec => []ProbeSpacing
<1>1. IInv => ProbeSpacing
  BY DEF IInv
<1> QED
  BY <1>1, Invariance, PTL

\* The gauge follows the breaker, whatever the order of delivery.
THEOREM GaugeFollowsBreaker == Spec => []GaugeConverges
<1>1. IInv => GaugeConverges
  BY DEF IInv
<1> QED
  BY <1>1, Invariance, PTL

-----------------------------------------------------------------------------
(* Retry: the inductive invariant *)

\* An entry of the attempt ring.
Attempts == [n : Nat, delay : Int]

\* The numbers of the attempts in a history.
Numbers(h) == [k \in DOMAIN h |-> h[k].n]

\* The types of the retry state.
RTypes ==
    /\ RTypeOK
    /\ err \in [Invocations -> HandlerResults \cup {Nil}]
    /\ ended \in [Invocations -> {"no", "canceled", "timeout"}]
    /\ hist \in [Invocations -> Seq(Attempts)]
    /\ result \in [Invocations ->
                     [kind : Results, attempts : Nat, history : Seq(Attempts)]]

\* The calls of invocation i up to the present attempt were made, those before
\* it are over, and those after it are not begun.
Places(i) ==
    /\ \A n \in 1 .. MaxAttempts :
          /\ n < attempt[i] => pc[<<i, n>>] = "done"
          /\ n > attempt[i] => pc[<<i, n>>] = "new"
    /\ phase[i] = "idle" => pc[Call(i)] = "new"
    /\ phase[i] = "calling" =>
          pc[Call(i)] \in {"refusing", "entering", "running", "leaving"}
    /\ phase[i] \in {"waiting", "returned"} => pc[Call(i)] = "done"

\* The run that has just ended failed on its own.
JustFailed(i) ==
    pc[Call(i)] = "leaving" /\ Classify(err[i]) \in {"terminal", "retry"}

\* The loop variable, the history and the runs that failed keep in step.
Account(i) ==
    /\ phase[i] = "idle" =>
          attempt[i] = 1 /\ failed[i] = 0 /\ Numbers(hist[i]) = LastRuns(0)
    /\ phase[i] = "calling" =>
          /\ Numbers(hist[i]) = LastRuns(attempt[i] - 1)
          /\ failed[i] = IF JustFailed(i) THEN attempt[i] ELSE attempt[i] - 1
    /\ phase[i] = "waiting" =>
          /\ attempt[i] < MaxAttempts /\ failed[i] = attempt[i]
          /\ Numbers(hist[i]) = LastRuns(attempt[i])
    /\ phase[i] # "returned" => result[i] = Plain("none")

\* FailureTruthful of one invocation.
Truthful(i) ==
    result[i].kind \in {"terminal", "circuit_open", "retries_exhausted"} =>
        /\ result[i].attempts = failed[i] /\ failed[i] > 0
        /\ Numbers(result[i].history) = LastRuns(failed[i])

\* A backoff that runs, and one that is over, are counted from the admission of
\* the attempt before.
Distance(i) ==
    /\ phase[i] = "waiting" => until[i] >= at[Call(i)] + Backoff(attempt[i])
    /\ attempt[i] > 1 /\ pc[Call(i)] \in {"entering", "running"} =>
          at[Call(i)] >= at[<<i, attempt[i] - 1>>] + Backoff(attempt[i] - 1)

\* What holds of one invocation, whatever the others do.
One(i) == Places(i) /\ Account(i) /\ Truthful(i) /\ Distance(i)

\* The inductive invariant, next to that of the breaker: the types, what holds of
\* each invocation, and no admission in the future.
RInv ==
    /\ RTypes
    /\ \A i \in Invocations : One(i)
    /\ \A c \in Calls : at[c] <= now

-----------------------------------------------------------------------------
(* The operators of Retry *)

\* The backoff is a number, whatever its bits make of the product.
LEMMA BackoffType ==
    ASSUME NEW n \in 1 .. MaxAttempts
    PROVE  Backoff(n) \in Int
<1> DEFINE x == 2 ^ (n - 1) * BaseDelay
           w == 2 ^ Width
           v == 2 ^ (Width - 1)
<1>1. x \in Int /\ w \in Nat \ {0} /\ v \in Nat
  BY PolicyAssumption, PowersAssumption
<1>2. x % w \in Int
  <2> HIDE DEF x, w
  <2> QED
    BY <1>1
<1>3. Signed(x) \in Int
  <2>1. Signed(x) = IF x % w >= v THEN (x % w) - w ELSE x % w
    BY DEF Signed
  <2> HIDE DEF x, w, v
  <2> QED
    BY <1>1, <1>2, <2>1
<1> HIDE DEF x
<1>4. Backoff(n) = IF Signed(x) > MaxDelay THEN MaxDelay ELSE Signed(x)
  BY DEF Backoff, x
<1> QED
  BY <1>3, <1>4, PolicyAssumption

\* As long as the product fits a Duration it is what the policy says.
LEMMA BackoffExact ==
    ASSUME NEW n \in 1 .. MaxAttempts,
           2 ^ (n - 1) * BaseDelay < 2 ^ (Width - 1)
    PROVE  Backoff(n) = Lesser(2 ^ (n - 1) * BaseDelay, MaxDelay)
<1> DEFINE p == 2 ^ (n - 1)
           x == p * BaseDelay
           w == 2 ^ Width
           v == 2 ^ (Width - 1)
<1>1. x \in Nat /\ v \in Nat /\ x < v /\ w = 2 * v
  <2>1. p \in Nat
    BY PowersAssumption
  <2> HIDE DEF p
  <2>2. p * BaseDelay \in Nat
    BY <2>1, PolicyAssumption
  <2> QED
    BY <2>2, PowersAssumption DEF p
<1>2. Signed(x) = IF x % w >= v THEN (x % w) - w ELSE x % w
  BY DEF Signed
<1>3. Backoff(n) = IF Signed(x) > MaxDelay THEN MaxDelay ELSE Signed(x)
  BY DEF Backoff
<1>4. Lesser(x, MaxDelay) = IF x < MaxDelay THEN x ELSE MaxDelay
  BY DEF Lesser
<1> HIDE DEF x, w, v
<1>5. x % w = x
  BY <1>1
<1> QED
  BY <1>1, <1>2, <1>3, <1>4, <1>5, PolicyAssumption DEF x, p

\* attemptRing.add: a ring with the last of n - 1 attempts becomes one with the
\* last of n.
LEMMA RingAddNumbers ==
    ASSUME NEW h \in Seq(Attempts), NEW n \in Nat \ {0}, NEW a \in Attempts,
           a.n = n, Numbers(h) = LastRuns(n - 1)
    PROVE  /\ RingAdd(h, a) \in Seq(Attempts)
           /\ Len(RingAdd(h, a)) <= HistorySize
           /\ Numbers(RingAdd(h, a)) = LastRuns(n)
<1> DEFINE k == Lesser(n - 1, HistorySize)
           r == RingAdd(h, a)
<1>1. HistorySize \in Nat
  BY PolicyAssumption
<1>2. k \in Nat /\ k = (IF n - 1 < HistorySize THEN n - 1 ELSE HistorySize)
  BY <1>1 DEF Lesser
<1>3. Len(h) = k /\ \A j \in 1 .. k : h[j].n = n - 1 - k + j
  <2>1. DOMAIN h = 1 .. Len(h) /\ Len(h) \in Nat
    OBVIOUS
  <2>2. DOMAIN Numbers(h) = DOMAIN h /\ \A j \in DOMAIN h : Numbers(h)[j] = h[j].n
    BY DEF Numbers
  <2>3. /\ DOMAIN LastRuns(n - 1) = 1 .. k
        /\ \A j \in 1 .. k : LastRuns(n - 1)[j] = n - 1 - k + j
    BY DEF LastRuns
  <2>4. 1 .. Len(h) = 1 .. k
    BY <2>1, <2>2, <2>3
  <2>5. Len(h) = k
    BY <1>2, <2>1, <2>4
  <2> QED
    BY <2>1, <2>2, <2>3, <2>5
<1> DEFINE m == Lesser(n, HistorySize)
<1>4. m \in Nat /\ m = (IF n < HistorySize THEN n ELSE HistorySize)
  BY <1>1 DEF Lesser
<1>5. /\ r \in Seq(Attempts) /\ Len(r) = m
      /\ \A j \in 1 .. m : r[j].n = n - m + j
  <2>1. CASE HistorySize = 0
    BY <1>2, <1>3, <1>4, <2>1 DEF RingAdd
  <2>2. CASE HistorySize # 0 /\ Len(h) = HistorySize
    <3>1. r = Append(Tail(h), a) /\ k = HistorySize /\ m = HistorySize /\ h # <<>>
      BY <1>1, <1>2, <1>3, <1>4, <2>2 DEF RingAdd
    <3>2. /\ Tail(h) \in Seq(Attempts) /\ Len(Tail(h)) = HistorySize - 1
          /\ \A j \in 1 .. HistorySize - 1 : Tail(h)[j] = h[j + 1]
      BY <1>1, <2>2, <3>1
    <3>3. /\ r \in Seq(Attempts) /\ Len(r) = HistorySize /\ r[HistorySize] = a
          /\ \A j \in 1 .. HistorySize - 1 : r[j] = h[j + 1]
      BY <1>1, <2>2, <3>1, <3>2
    <3>4. ASSUME NEW j \in 1 .. m PROVE r[j].n = n - m + j
      <4>1. CASE j = HistorySize
        BY <1>1, <3>1, <3>3, <4>1
      <4>2. CASE j # HistorySize
        <5>1. j \in 1 .. HistorySize - 1 /\ j + 1 \in 1 .. k
          BY <1>1, <3>1, <4>2
        <5>2. r[j] = h[j + 1] /\ h[j + 1].n = n - 1 - k + (j + 1)
          BY <1>3, <3>3, <5>1
        <5>3. n - 1 - k + (j + 1) = n - m + j
          BY <1>1, <3>1, <5>1
        <5> QED
          BY <5>2, <5>3
      <4> QED
        BY <4>1, <4>2
    <3> QED
      BY <3>1, <3>3, <3>4
  <2>3. CASE HistorySize # 0 /\ Len(h) # HistorySize
    <3>1. r = Append(h, a) /\ k = n - 1 /\ m = n
      BY <1>1, <1>2, <1>3, <1>4, <2>3 DEF RingAdd
    <3>2. /\ r \in Seq(Attempts) /\ Len(r) = n /\ r[n] = a
          /\ \A j \in 1 .. n - 1 : r[j] = h[j]
      BY <1>3, <3>1
    <3>3. ASSUME NEW j \in 1 .. m PROVE r[j].n = n - m + j
      <4>1. CASE j = n
        BY <3>1, <3>2, <4>1
      <4>2. CASE j # n
        <5>1. j \in 1 .. n - 1 /\ j \in 1 .. k
          BY <3>1, <4>2
        <5>2. r[j] = h[j] /\ h[j].n = n - 1 - k + j
          BY <1>3, <3>2, <5>1
        <5> HIDE DEF r, k, m
        <5> QED
          BY <3>1, <5>1, <5>2
      <4> QED
        BY <4>1, <4>2
    <3> QED
      BY <3>1, <3>2, <3>3
  <2> QED
    BY <2>1, <2>2, <2>3
<1>6. Numbers(r) = LastRuns(n)
  <2> HIDE DEF r, m
  <2>1. Numbers(r) = [j \in 1 .. m |-> r[j].n]
    BY <1>5 DEF Numbers
  <2>2. LastRuns(n) = [j \in 1 .. m |-> n - m + j]
    BY DEF LastRuns, m
  <2> QED
    BY <1>5, <2>1, <2>2
<1> QED
  BY <1>1, <1>4, <1>5, <1>6

\* The class of an error is one of four, and the refusal of the breaker is one
\* that is returned at once.
LEMMA Classes ==
    /\ \A e : Classify(e) \in {"over", "stop", "terminal", "retry"}
    /\ Classify({"error", "circuit_open"}) = "stop"
    /\ Classify(Nil) = "over"
    /\ \A e : \A b \in BOOLEAN : BreakerOutcome(e, b) \in Outcomes
<1>1. \A e : Classify(e) \in {"over", "stop", "terminal", "retry"}
  BY DEF Classify
<1>2. Classify({"error", "circuit_open"}) = "stop"
  <2>1. {"error", "circuit_open"} \cap NeverRetried # {}
    BY DEF NeverRetried, FlowControl
  <2>2. {"error", "circuit_open"} \notin {Nil, Exit}
    BY DEF Nil, Exit
  <2> QED
    BY <2>1, <2>2 DEF Classify
<1>3. Classify(Nil) = "over"
  BY DEF Classify
<1>4. \A e : \A b \in BOOLEAN : BreakerOutcome(e, b) \in Outcomes
  BY DEF BreakerOutcome, Outcomes
<1> QED
  BY <1>1, <1>2, <1>3, <1>4

-----------------------------------------------------------------------------
(* What a call of the breaker changes *)

\* Attempt n of invocation i is a call of the breaker.
LEMMA CallsOfRetry ==
    /\ \A i \in Invocations : \A n \in 1 .. MaxAttempts : <<i, n>> \in Calls
    /\ RTypes => \A i \in Invocations : attempt[i] \in 1 .. MaxAttempts /\ Call(i) \in Calls
BY PolicyAssumption DEF RTypes, RTypeOK, Call

\* admit moves its own call, and stamps it when it lets it in.
LEMMA AdmitCall ==
    ASSUME TypeOK, NEW c \in Calls, Admit(c)
    PROVE  /\ pc[c] = "new" /\ pc'[c] \in {"refusing", "entering"} /\ now' = now
           /\ \A d \in Calls : d # c => pc'[d] = pc[d] /\ at'[d] = at[d]
           /\ at'[c] \in {at[c], now}
           /\ pc'[c] = "entering" => at'[c] = now
<1>1. CASE \E b \in BOOLEAN : LetIn(c, b)
  BY <1>1 DEF Admit, LetIn, Goto, TypeOK
<1>2. CASE TurnAway(c)
  BY <1>2 DEF Admit, TurnAway, Goto, TypeOK
<1>3. (\E b \in BOOLEAN : LetIn(c, b)) \/ TurnAway(c)
  BY DEF Admit, AdmitClosed, AdmitOpen, AdmitHalfOpen
<1> QED
  BY <1>1, <1>2, <1>3

\* record moves its own call.
LEMMA RecordCall ==
    ASSUME TypeOK, NEW c \in Calls, NEW out, Record(c, out)
    PROVE  /\ pc[c] = "running" /\ pc'[c] = "leaving"
           /\ UNCHANGED <<at, now>>
           /\ \A d \in Calls : d # c => pc'[d] = pc[d]
BY DEF Record, Goto, TypeOK

\* report moves its own call.
LEMMA ReportCall ==
    ASSUME TypeOK, NEW c \in Calls, Report(c)
    PROVE  /\ pc[c] \in {"refusing", "entering", "leaving"}
           /\ pc'[c] = IF pc[c] = "entering" THEN "running" ELSE "done"
           /\ UNCHANGED <<at, now>>
           /\ \A d \in Calls : d # c => pc'[d] = pc[d]
BY DEF Report, Goto, TypeOK

-----------------------------------------------------------------------------
(* Retry: each step keeps the invariant *)

\* A step is none of invocation j.
Same(j) ==
    /\ phase'[j] = phase[j] /\ attempt'[j] = attempt[j] /\ err'[j] = err[j]
    /\ until'[j] = until[j] /\ hist'[j] = hist[j]
    /\ result'[j] = result[j] /\ failed'[j] = failed[j]
    /\ \A n \in 1 .. MaxAttempts :
          pc'[<<j, n>>] = pc[<<j, n>>] /\ at'[<<j, n>>] = at[<<j, n>>]

\* An invocation that takes no step keeps its part.
LEMMA OthersKeep ==
    ASSUME RTypes, NEW j \in Invocations, Same(j), One(j)
    PROVE  One(j)'
<1>1. attempt[j] \in 1 .. MaxAttempts /\ MaxAttempts \in Nat
  BY PolicyAssumption DEF RTypes, RTypeOK
<1>2. Call(j)' = Call(j) /\ pc'[Call(j)] = pc[Call(j)] /\ at'[Call(j)] = at[Call(j)]
  BY <1>1 DEF Same, Call
<1>3. Places(j)'
  BY <1>2 DEF One, Places, Same
<1>4. Account(j)'
  BY <1>2 DEF One, Account, Same, JustFailed
<1>5. Truthful(j)'
  BY DEF One, Truthful, Same
<1>6. Distance(j)'
  <2>1. attempt[j] > 1 => at'[<<j, attempt[j] - 1>>] = at[<<j, attempt[j] - 1>>]
    BY <1>1 DEF Same
  <2> QED
    BY <1>2, <2>1 DEF One, Distance, Same
<1> QED
  BY <1>3, <1>4, <1>5, <1>6 DEF One

\* A step of invocation i, which is a step of at most one of its calls.
LEMMA StepOfOne ==
    ASSUME RInv, NEW i \in Invocations, RTypes', One(i)',
           \A j \in Invocations : j # i => Same(j),
           \A c \in Calls : at'[c] <= now'
    PROVE  RInv'
BY OthersKeep DEF RInv

\* The first attempt begins.
LEMMA StartRInv ==
    ASSUME IInv, RInv, NEW i \in Invocations, Start(i)
    PROVE  RInv'
<1> DEFINE c == Call(i)
<1>1. /\ phase[i] = "idle" /\ Admit(c)
      /\ phase' = [phase EXCEPT ![i] = "calling"]
      /\ UNCHANGED <<attempt, err, until, hist, ended, result, failed>>
  BY DEF Start
<1>2. /\ TypeOK /\ RTypes /\ c \in Calls /\ c = <<i, attempt[i]>> /\ One(i)
      /\ attempt[i] = 1 /\ failed[i] = 0 /\ attempt[i] \in 1 .. MaxAttempts
  BY <1>1, CallsOfRetry DEF IInv, RInv, One, Account, Call
<1>3. /\ pc[c] = "new" /\ pc'[c] \in {"refusing", "entering"} /\ now' = now
      /\ \A d \in Calls : d # c => pc'[d] = pc[d] /\ at'[d] = at[d]
      /\ at'[c] \in {at[c], now}
  BY <1>1, <1>2, AdmitCall
<1>4. RTypes' /\ phase'[i] = "calling"
  BY <1>1, <1>2 DEF RTypes, RTypeOK
<1>5. \A d \in Calls : at'[d] <= now'
  BY <1>2, <1>3 DEF RInv, TypeOK
<1>6. ASSUME NEW j \in Invocations, j # i PROVE Same(j)
  BY <1>1, <1>2, <1>3, <1>6, CallsOfRetry DEF Same, RTypes, RTypeOK
<1>7. One(i)'
  <2>1. Call(i)' = c
    BY <1>1 DEF Call
  <2>2. Places(i)'
    BY <1>1, <1>2, <1>3, <1>4, <2>1, CallsOfRetry DEF One, Places
  <2>3. Account(i)'
    BY <1>1, <1>2, <1>3, <1>4, <2>1 DEF One, Account, JustFailed
  <2>4. Truthful(i)' /\ Distance(i)'
    BY <1>1, <1>2, <1>4, <2>1 DEF One, Truthful, Distance
  <2> QED
    BY <2>2, <2>3, <2>4 DEF One
<1> QED
  BY <1>4, <1>5, <1>6, <1>7, StepOfOne

\* The breaker let the call in and reports.
LEMMA EnterRInv ==
    ASSUME IInv, RInv, NEW i \in Invocations, Enter(i)
    PROVE  RInv'
<1> DEFINE c == Call(i)
<1>1. phase[i] = "calling" /\ pc[c] = "entering" /\ Report(c) /\ UNCHANGED retry
  BY DEF Enter
<1>2. TypeOK /\ RTypes /\ c \in Calls /\ c = <<i, attempt[i]>> /\ One(i)
  BY CallsOfRetry DEF IInv, RInv, Call
<1>3. /\ pc'[c] = "running" /\ UNCHANGED <<at, now>>
      /\ \A d \in Calls : d # c => pc'[d] = pc[d]
  BY <1>1, <1>2, ReportCall
<1>4. RTypes'
  BY <1>1, <1>2 DEF RTypes, RTypeOK, retry
<1>5. \A d \in Calls : at'[d] <= now'
  BY <1>3 DEF RInv
<1>6. ASSUME NEW j \in Invocations, j # i PROVE Same(j)
  BY <1>1, <1>2, <1>3, <1>6, CallsOfRetry DEF Same, retry
<1>7. One(i)'
  <2>1. Call(i)' = c
    BY <1>1 DEF Call, retry
  <2>2. Places(i)'
    BY <1>1, <1>2, <1>3, <2>1, CallsOfRetry DEF One, Places, retry
  <2>3. Account(i)' /\ Truthful(i)' /\ Distance(i)'
    BY <1>1, <1>2, <1>3, <2>1 DEF One, Account, JustFailed, Truthful, Distance, retry
  <2> QED
    BY <2>2, <2>3 DEF One
<1> QED
  BY <1>4, <1>5, <1>6, <1>7, StepOfOne

\* The handler ends, and a run that failed on its own is counted.
LEMMA HandledRInv ==
    ASSUME IInv, RInv, NEW i \in Invocations, NEW e \in HandlerResults, Handled(i, e)
    PROVE  RInv'
<1> DEFINE c == Call(i)
           counts == Classify(e) \in {"terminal", "retry"}
<1>1. /\ phase[i] = "calling" /\ \E out : Record(c, out)
      /\ err' = [err EXCEPT ![i] = e]
      /\ failed' = [failed EXCEPT ![i] = IF counts THEN failed[i] + 1 ELSE failed[i]]
      /\ UNCHANGED <<phase, attempt, until, hist, ended, result>>
  BY DEF Handled
<1>2. /\ TypeOK /\ RTypes /\ c \in Calls /\ c = <<i, attempt[i]>> /\ One(i)
      /\ attempt[i] \in 1 .. MaxAttempts /\ MaxAttempts \in Nat
  BY CallsOfRetry, PolicyAssumption DEF IInv, RInv, Call
<1>3. /\ pc[c] = "running" /\ pc'[c] = "leaving" /\ UNCHANGED <<at, now>>
      /\ \A d \in Calls : d # c => pc'[d] = pc[d]
  BY <1>1, <1>2, RecordCall
<1>4. failed[i] = attempt[i] - 1
  BY <1>1, <1>2, <1>3 DEF One, Account, JustFailed
<1>5. /\ failed'[i] = IF counts THEN attempt[i] ELSE attempt[i] - 1
      /\ failed' \in [Invocations -> 0 .. MaxAttempts]
      /\ \A j \in Invocations : j # i => failed'[j] = failed[j] /\ err'[j] = err[j]
      /\ err'[i] = e /\ err' \in [Invocations -> HandlerResults \cup {Nil}]
  BY <1>1, <1>2, <1>4 DEF RTypes, RTypeOK
<1>6. RTypes'
  BY <1>1, <1>2, <1>5 DEF RTypes, RTypeOK
<1>7. \A d \in Calls : at'[d] <= now'
  BY <1>3 DEF RInv
<1>8. ASSUME NEW j \in Invocations, j # i PROVE Same(j)
  BY <1>1, <1>2, <1>3, <1>5, <1>8, CallsOfRetry DEF Same
<1>9. One(i)'
  <2>1. Call(i)' = c
    BY <1>1 DEF Call
  <2>2. Places(i)'
    BY <1>1, <1>2, <1>3, <2>1, CallsOfRetry DEF One, Places
  <2>3. Account(i)'
    BY <1>1, <1>2, <1>3, <1>5, <2>1 DEF One, Account, JustFailed
  <2>4. Truthful(i)' /\ Distance(i)'
    BY <1>1, <1>2, <1>3, <2>1 DEF One, Account, Plain, Truthful, Distance
  <2> QED
    BY <2>2, <2>3, <2>4 DEF One
<1> QED
  BY <1>6, <1>7, <1>8, <1>9, StepOfOne

\* Retry returns r, which tells the truth, and its last call is over.
LEMMA ReturnRInv ==
    ASSUME RInv, NEW i \in Invocations, NEW r, Return(i, r),
           r \in [kind : Results, attempts : Nat, history : Seq(Attempts)],
           r.kind \in {"terminal", "circuit_open", "retries_exhausted"} =>
               /\ r.attempts = failed[i] /\ failed[i] > 0
               /\ Numbers(r.history) = LastRuns(failed[i]),
           UNCHANGED <<ended, failed, at, now>>,
           hist' \in [Invocations -> Seq(Attempts)],
           \A j \in Invocations : Len(hist'[j]) <= HistorySize,
           \A j \in Invocations : j # i => hist'[j] = hist[j],
           phase[i] # "idle",
           pc'[Call(i)] = "done", \A d \in Calls : d # Call(i) => pc'[d] = pc[d]
    PROVE  RInv'
<1>1. /\ RTypes /\ One(i) /\ attempt[i] \in 1 .. MaxAttempts /\ Call(i) = <<i, attempt[i]>>
      /\ Nil \in HandlerResults \cup {Nil}
  BY CallsOfRetry DEF RInv, Call
<1>2. /\ phase'[i] = "returned" /\ result'[i] = r /\ attempt' = attempt
      /\ phase' \in [Invocations -> {"idle", "calling", "waiting", "returned"}]
      /\ result' \in [Invocations ->
                        [kind : Results, attempts : Nat, history : Seq(Attempts)]]
      /\ err' \in [Invocations -> HandlerResults \cup {Nil}]
      /\ until' \in [Invocations -> Int]
      /\ \A j \in Invocations : j # i => /\ phase'[j] = phase[j] /\ result'[j] = result[j]
                                         /\ err'[j] = err[j] /\ until'[j] = until[j]
  BY <1>1 DEF Return, RTypes, RTypeOK
<1>3. RTypes'
  <2>1. \A j \in Invocations : result'[j].kind \in Results
    BY <1>2
  <2> QED
    BY <1>1, <1>2, <2>1 DEF RTypes, RTypeOK
<1>4. \A d \in Calls : at'[d] <= now'
  BY DEF RInv
<1>5. ASSUME NEW j \in Invocations, j # i PROVE Same(j)
  BY <1>1, <1>2, <1>5, CallsOfRetry DEF Same
<1>6. One(i)'
  <2>1. Call(i)' = Call(i)
    BY <1>2 DEF Call
  <2>2. Places(i)'
    <3>1. ASSUME NEW k \in 1 .. MaxAttempts, k # attempt[i]
          PROVE  pc'[<<i, k>>] = pc[<<i, k>>]
      BY <1>1, <3>1, CallsOfRetry
    <3>2. ASSUME NEW k \in 1 .. MaxAttempts
          PROVE  /\ k < attempt[i] => pc'[<<i, k>>] = "done"
                 /\ k > attempt[i] => pc'[<<i, k>>] = "new"
      BY <1>1, <3>1 DEF One, Places
    <3> QED
      BY <1>2, <2>1, <3>2 DEF Places
  <2>3. Account(i)' /\ Distance(i)'
    BY <1>2, <2>1 DEF Account, Distance
  <2>4. Truthful(i)'
    BY <1>2 DEF Truthful
  <2> QED
    BY <2>2, <2>3, <2>4 DEF One
<1> QED
  BY <1>3, <1>4, <1>5, <1>6, StepOfOne

\* The breaker returned, and Retry returns or waits.
LEMMA ReturnedRInv ==
    ASSUME IInv, RInv, NEW i \in Invocations, Returned(i)
    PROVE  RInv'
<1> DEFINE c == Call(i)
           e == IF pc[c] = "refusing" THEN {"error", "circuit_open"} ELSE err[i]
           n == attempt[i]
           Ring(d) == RingAdd(hist[i], [n |-> n, delay |-> d])
<1>1. /\ phase[i] = "calling" /\ pc[c] \in {"refusing", "leaving"} /\ Report(c)
      /\ UNCHANGED <<ended, failed>>
  BY DEF Returned
<1>2. /\ TypeOK /\ RTypes /\ c \in Calls /\ c = <<i, n>> /\ One(i)
      /\ n \in 1 .. MaxAttempts /\ MaxAttempts \in Nat /\ now \in Nat
  BY CallsOfRetry, PolicyAssumption DEF IInv, TypeOK, RInv, Call
<1>3. /\ pc'[c] = "done" /\ UNCHANGED <<at, now>>
      /\ \A d \in Calls : d # c => pc'[d] = pc[d]
  BY <1>1, <1>2, ReportCall
<1>4. /\ failed[i] = IF Classify(e) \in {"terminal", "retry"} THEN n ELSE n - 1
      /\ hist[i] \in Seq(Attempts) /\ Numbers(hist[i]) = LastRuns(n - 1)
      /\ result[i] = Plain("none")
  <2>1. pc[c] = "refusing" => Classify(e) = "stop"
    BY Classes
  <2> QED
    BY <1>1, <1>2, <2>1 DEF One, Account, JustFailed, RTypes
<1>5. ASSUME NEW d \in Int
      PROVE  /\ Ring(d) \in Seq(Attempts) /\ Len(Ring(d)) <= HistorySize
             /\ Numbers(Ring(d)) = LastRuns(n)
  <2>1. [n |-> n, delay |-> d] \in Attempts /\ n \in Nat \ {0}
    BY <1>2 DEF Attempts
  <2> QED
    BY <1>4, <2>1, RingAddNumbers
<1>6. ASSUME NEW r, Return(i, r), UNCHANGED hist,
             r \in [kind : Results, attempts : Nat, history : Seq(Attempts)],
             r.kind \in {"terminal", "circuit_open", "retries_exhausted"} =>
                 /\ r.attempts = failed[i] /\ failed[i] > 0
                 /\ Numbers(r.history) = LastRuns(failed[i])
      PROVE  RInv'
  <2>1. /\ hist' \in [Invocations -> Seq(Attempts)]
        /\ \A j \in Invocations : Len(hist'[j]) <= HistorySize /\ hist'[j] = hist[j]
    BY <1>2, <1>6 DEF RTypes, RTypeOK
  <2> QED
    BY <1>1, <1>3, <1>6, <2>1, ReturnRInv
<1>7. ASSUME NEW reason \in {"terminal", "retries_exhausted"},
             Classify(e) \in {"terminal", "retry"},
             hist' = [hist EXCEPT ![i] = Ring(0)],
             Return(i, FailureError(reason, n, Ring(0)))
      PROVE  RInv'
  <2> DEFINE r == FailureError(reason, n, Ring(0))
  <2>1. /\ r \in [kind : Results, attempts : Nat, history : Seq(Attempts)]
        /\ r.attempts = failed[i] /\ failed[i] > 0
        /\ Numbers(r.history) = LastRuns(failed[i])
    BY <1>2, <1>4, <1>5, <1>7 DEF FailureError, Results
  <2>2. /\ hist' \in [Invocations -> Seq(Attempts)]
        /\ \A j \in Invocations : Len(hist'[j]) <= HistorySize
        /\ \A j \in Invocations : j # i => hist'[j] = hist[j]
    BY <1>2, <1>5, <1>7 DEF RTypes, RTypeOK
  <2> QED
    BY <1>1, <1>3, <1>7, <2>1, <2>2, ReturnRInv
<1>8. ASSUME NEW k \in {"nil", "exited", "bare"}
       PROVE  /\ Plain(k) \in [kind : Results, attempts : Nat, history : Seq(Attempts)]
              /\ Plain(k).kind \notin {"terminal", "circuit_open", "retries_exhausted"}
  BY DEF Plain, Results
<1>9. CASE Classify(e) = "over" /\ UNCHANGED hist
           /\ Return(i, Plain(IF e = Nil THEN "nil" ELSE "exited"))
  BY <1>6, <1>9, <1>8
<1>10. CASE Classify(e) = "stop" /\ Return(i, Rejected(i, e)) /\ UNCHANGED hist
  <2>1. CASE "circuit_open" \in e /\ n > 1
    <3>1. Rejected(i, e) = [kind |-> "circuit_open", attempts |-> n - 1, history |-> hist[i]]
      BY <2>1 DEF Rejected, FailureError
    <3> QED
      BY <1>2, <1>4, <1>6, <1>10, <2>1, <3>1 DEF Results
  <2>2. CASE ~("circuit_open" \in e /\ n > 1)
    <3>1. Rejected(i, e) = Plain("bare")
      BY <2>2 DEF Rejected
    <3> QED
      BY <1>6, <1>10, <1>8, <3>1
  <2> QED
    BY <2>1, <2>2
<1>11. CASE /\ Classify(e) = "retry" /\ n < MaxAttempts
            /\ hist' = [hist EXCEPT ![i] = Ring(Backoff(n))]
            /\ phase' = [phase EXCEPT ![i] = "waiting"]
            /\ until' = [until EXCEPT ![i] = now + Backoff(n)]
            /\ err' = [err EXCEPT ![i] = Nil]
            /\ UNCHANGED <<attempt, result>>
  <2>1. Backoff(n) \in Int
    BY <1>2, BackoffType
  <2>2. /\ Ring(Backoff(n)) \in Seq(Attempts) /\ Len(Ring(Backoff(n))) <= HistorySize
        /\ Numbers(Ring(Backoff(n))) = LastRuns(n)
    BY <1>5, <2>1
  <2> HIDE DEF Ring
  <2>3. /\ hist' \in [Invocations -> Seq(Attempts)] /\ hist'[i] = Ring(Backoff(n))
        /\ \A j \in Invocations : Len(hist'[j]) <= HistorySize
        /\ until' \in [Invocations -> Int] /\ until'[i] = now + Backoff(n)
        /\ phase'[i] = "waiting"
        /\ phase' \in [Invocations -> {"idle", "calling", "waiting", "returned"}]
        /\ err' \in [Invocations -> HandlerResults \cup {Nil}]
        /\ \A j \in Invocations : j # i => /\ hist'[j] = hist[j] /\ until'[j] = until[j]
                                           /\ phase'[j] = phase[j] /\ err'[j] = err[j]
    BY <1>2, <1>11, <2>1, <2>2 DEF RTypes, RTypeOK
  <2>4. RTypes'
    BY <1>1, <1>2, <1>11, <2>3 DEF RTypes, RTypeOK
  <2>5. \A d \in Calls : at'[d] <= now'
    BY <1>3 DEF RInv
  <2>6. ASSUME NEW j \in Invocations, j # i PROVE Same(j)
    BY <1>1, <1>2, <1>3, <1>11, <2>3, <2>6, CallsOfRetry DEF Same
  <2>7. One(i)'
    <3>1. Call(i)' = c /\ at[c] <= now /\ at[c] \in Nat
      BY <1>2, <1>11 DEF Call, RInv, TypeOK
    <3>2. Places(i)'
      BY <1>2, <1>3, <1>11, <2>3, <3>1, CallsOfRetry DEF One, Places
    <3>3. Account(i)'
      BY <1>1, <1>4, <1>11, <2>2, <2>3, <3>1 DEF Account
    <3>4. Truthful(i)'
      BY <1>4, <1>11 DEF Truthful, Plain
    <3>5. Distance(i)'
      BY <1>2, <1>3, <1>11, <2>1, <2>3, <3>1 DEF Distance
    <3> QED
      BY <3>2, <3>3, <3>4, <3>5 DEF One
  <2> QED
    BY <2>4, <2>5, <2>6, <2>7, StepOfOne
<1>12. Decide(i, e)
  BY DEF Returned
<1> QED
  BY <1>7, <1>9, <1>10, <1>11, <1>12 DEF Decide

\* The backoff is over and the next attempt is admitted.
LEMMA WaitOverRInv ==
    ASSUME IInv, RInv, NEW i \in Invocations, WaitOver(i)
    PROVE  RInv'
<1> DEFINE m == attempt[i]
           c == <<i, m + 1>>
<1>1. /\ phase[i] = "waiting" /\ now >= until[i] /\ Admit(c)
      /\ attempt' = [attempt EXCEPT ![i] = m + 1]
      /\ phase' = [phase EXCEPT ![i] = "calling"]
      /\ until' = [until EXCEPT ![i] = 0]
      /\ UNCHANGED <<err, hist, ended, result, failed>>
  BY DEF WaitOver
<1>2. /\ TypeOK /\ RTypes /\ One(i) /\ Call(i) = <<i, m>>
      /\ m \in 1 .. MaxAttempts /\ MaxAttempts \in Nat /\ now \in Nat
      /\ m + 1 \in 1 .. MaxAttempts /\ c \in Calls /\ <<i, m>> \in Calls
  <2>1. /\ TypeOK /\ RTypes /\ One(i) /\ Call(i) = <<i, m>>
        /\ m \in 1 .. MaxAttempts /\ MaxAttempts \in Nat /\ now \in Nat
    BY CallsOfRetry, PolicyAssumption DEF IInv, TypeOK, RInv, Call
  <2>2. m + 1 \in 1 .. MaxAttempts
    BY <1>1, <2>1 DEF One, Account
  <2> QED
    BY <2>1, <2>2, CallsOfRetry
<1>3. /\ pc[c] = "new" /\ pc'[c] \in {"refusing", "entering"} /\ now' = now
      /\ \A d \in Calls : d # c => pc'[d] = pc[d] /\ at'[d] = at[d]
      /\ at'[c] \in {at[c], now}
      /\ pc'[c] = "entering" => at'[c] = now
  BY <1>1, <1>2, AdmitCall
<1>4. /\ attempt'[i] = m + 1 /\ phase'[i] = "calling"
      /\ attempt' \in [Invocations -> 1 .. MaxAttempts]
      /\ phase' \in [Invocations -> {"idle", "calling", "waiting", "returned"}]
      /\ until' \in [Invocations -> Int]
      /\ \A j \in Invocations : j # i => /\ attempt'[j] = attempt[j]
                                         /\ phase'[j] = phase[j] /\ until'[j] = until[j]
  BY <1>1, <1>2 DEF RTypes, RTypeOK
<1>5. RTypes'
  BY <1>1, <1>2, <1>4 DEF RTypes, RTypeOK
<1>6. \A d \in Calls : at'[d] <= now'
  BY <1>2, <1>3 DEF RInv, TypeOK
<1>7. ASSUME NEW j \in Invocations, j # i PROVE Same(j)
  BY <1>1, <1>3, <1>4, <1>7, CallsOfRetry DEF Same
<1>8. One(i)'
  <2>1. Call(i)' = c
    BY <1>4 DEF Call
  <2>2. Places(i)'
    <3>1. ASSUME NEW k \in 1 .. MaxAttempts
          PROVE  /\ k < m + 1 => pc'[<<i, k>>] = "done"
                 /\ k > m + 1 => pc'[<<i, k>>] = "new"
      <4>1. k # m + 1 => pc'[<<i, k>>] = pc[<<i, k>>]
        BY <1>3, CallsOfRetry
      <4>2. pc[<<i, m>>] = "done"
        BY <1>1, <1>2 DEF One, Places
      <4>3. k < m + 1 => k < m \/ k = m
        BY <1>2
      <4> QED
        BY <1>2, <4>1, <4>2, <4>3 DEF One, Places
    <3> QED
      BY <1>3, <1>4, <2>1, <3>1 DEF Places
  <2>3. Account(i)'
    <3>1. m + 1 - 1 = m
      BY <1>2
    <3> QED
      BY <1>1, <1>2, <1>3, <1>4, <2>1, <3>1 DEF One, Account, JustFailed
  <2>4. Truthful(i)'
    BY <1>1, <1>2 DEF One, Truthful
  <2>5. Distance(i)'
    <3>1. Backoff(m) \in Int /\ at[<<i, m>>] \in Nat /\ until[i] \in Int
      BY <1>2, BackoffType DEF TypeOK, RTypes, RTypeOK
    <3>2. until[i] >= at[<<i, m>>] + Backoff(m)
      BY <1>1, <1>2 DEF One, Distance
    <3>3. at'[<<i, m>>] = at[<<i, m>>] /\ m + 1 - 1 = m
      BY <1>2, <1>3
    <3>4. pc'[c] \in {"entering", "running"} => at'[c] >= at'[<<i, m>>] + Backoff(m)
      BY <1>1, <1>2, <1>3, <3>1, <3>2, <3>3
    <3>5. attempt'[i] - 1 = m
      BY <1>2, <1>4
    <3>6. phase'[i] # "waiting"
      BY <1>4
    <3> QED
      BY <2>1, <3>4, <3>5, <3>6 DEF Distance
  <2> QED
    BY <2>2, <2>3, <2>4, <2>5 DEF One
<1> QED
  BY <1>5, <1>6, <1>7, <1>8, StepOfOne

\* The context ends in the wait.
LEMMA WaitEndsRInv ==
    ASSUME IInv, RInv, NEW i \in Invocations, WaitEnds(i)
    PROVE  RInv'
<1>1. /\ phase[i] = "waiting" /\ Return(i, Plain("ctx"))
      /\ UNCHANGED <<hist, ended, failed, pc, at, now>>
  BY DEF WaitEnds, vars
<1>2. RTypes /\ One(i) /\ Call(i) \in Calls
  BY CallsOfRetry DEF RInv
<1>3. /\ Plain("ctx") \in [kind : Results, attempts : Nat, history : Seq(Attempts)]
      /\ Plain("ctx").kind = "ctx"
  BY DEF Plain, Results
<1>4. pc[Call(i)] = "done"
  BY <1>1, <1>2 DEF One, Places
<1>5. /\ hist' \in [Invocations -> Seq(Attempts)]
      /\ \A j \in Invocations : Len(hist'[j]) <= HistorySize /\ hist'[j] = hist[j]
  BY <1>1, <1>2 DEF RTypes, RTypeOK
<1> QED
  BY <1>1, <1>3, <1>4, <1>5, ReturnRInv

\* A step that only ends a context, moves the clock on or changes nothing.
LEMMA QuietRInv ==
    ASSUME RInv, now \in Nat, at \in [Calls -> Nat],
           UNCHANGED <<phase, attempt, err, until, hist, result, failed, pc, at>>,
           ended' \in [Invocations -> {"no", "canceled", "timeout"}],
           now' = now \/ now' = now + 1
    PROVE  RInv'
<1>1. RTypes'
  BY DEF RInv, RTypes, RTypeOK
<1>2. \A i \in Invocations : Same(i)
  BY DEF Same
<1>3. \A c \in Calls : at'[c] <= now'
  BY DEF RInv
<1> QED
  BY <1>1, <1>2, <1>3, OthersKeep DEF RInv

-----------------------------------------------------------------------------
(* Theorems *)

\* No invocation has begun.
LEMMA InitRInv == RInit => RInv
<1> SUFFICES ASSUME RInit PROVE RInv
  OBVIOUS
<1>1. <<>> \in Seq(Attempts) /\ Len(<<>>) = 0 /\ HistorySize \in Nat /\ MaxAttempts \in Nat \ {0}
  BY PolicyAssumption
<1>2. RTypes
  <2>1. Plain("none") \in [kind : Results, attempts : Nat, history : Seq(Attempts)]
    BY DEF Plain, Results
  <2> QED
    BY <1>1, <2>1 DEF RInit, RTypes, RTypeOK, Results, Plain
<1>3. Numbers(<<>>) = LastRuns(0)
  <2>1. Lesser(0, HistorySize) = 0
    BY <1>1 DEF Lesser
  <2> QED
    BY <2>1 DEF Numbers, LastRuns
<1>4. ASSUME NEW i \in Invocations PROVE One(i)
  <2>1. \A n \in 1 .. MaxAttempts : pc[<<i, n>>] = "new"
    BY CallsOfRetry DEF RInit, Init
  <2> QED
    BY <1>1, <1>3, <2>1 DEF RInit, One, Places, Account, Truthful, Distance, Plain, Call
<1>5. \A c \in Calls : at[c] <= now
  BY DEF RInit, Init
<1> QED
  BY <1>2, <1>4, <1>5 DEF RInv

\* Every step of the composition is a step of the breaker or none.
LEMMA RetryStepIsBreakerStep == RInv /\ [RNext]_rvars => [Next]_vars
<1> SUFFICES ASSUME RInv, [RNext]_rvars PROVE [Next]_vars
  OBVIOUS
<1>1. RTypes /\ \A i \in Invocations : Call(i) \in Calls /\ attempt[i] \in 1 .. MaxAttempts
  BY CallsOfRetry DEF RInv
<1>2. ASSUME NEW i \in Invocations, Start(i) \/ Enter(i) \/ Returned(i) PROVE Next
  BY <1>1, <1>2 DEF Start, Enter, Returned, Next
<1>3. ASSUME NEW i \in Invocations, NEW e \in HandlerResults, Handled(i, e) PROVE Next
  <2>1. BreakerOutcome(e, ended[i] = "timeout") \in Outcomes
    BY DEF BreakerOutcome, Outcomes
  <2> QED
    BY <1>1, <1>3, <2>1 DEF Handled, Next
<1>4. ASSUME NEW i \in Invocations, WaitOver(i) PROVE Next
  <2>1. attempt[i] + 1 \in 1 .. MaxAttempts
    BY <1>1, <1>4, PolicyAssumption DEF RInv, One, Account, WaitOver
  <2> QED
    BY <1>4, <2>1, CallsOfRetry DEF WaitOver, Next
<1>5. ASSUME NEW i \in Invocations, WaitEnds(i) PROVE UNCHANGED vars
  BY <1>5 DEF WaitEnds
<1>6. ASSUME NEW i \in Invocations, NEW why, ContextEnds(i, why) PROVE UNCHANGED vars
  BY <1>6 DEF ContextEnds
<1>7. CASE Tick
  BY <1>7 DEF Next
<1>8. CASE UNCHANGED rvars
  BY <1>8 DEF rvars
<1> QED
  BY <1>2, <1>3, <1>4, <1>5, <1>6, <1>7, <1>8 DEF RNext

\* Each step keeps the invariant of the retries.
LEMMA StepRInv == IInv /\ RInv /\ [RNext]_rvars => RInv'
<1> SUFFICES ASSUME IInv, RInv, [RNext]_rvars PROVE RInv'
  OBVIOUS
<1>1. /\ now \in Nat /\ at \in [Calls -> Nat]
      /\ ended \in [Invocations -> {"no", "canceled", "timeout"}]
  BY DEF IInv, TypeOK, RInv, RTypes
<1>2. ASSUME NEW i \in Invocations, NEW why \in {"canceled", "timeout"}, ContextEnds(i, why)
      PROVE  RInv'
  BY <1>1, <1>2, QuietRInv DEF ContextEnds, vars
<1>3. CASE Tick /\ UNCHANGED retry
  BY <1>1, <1>3, QuietRInv DEF Tick, retry
<1>4. CASE UNCHANGED rvars
  BY <1>1, <1>4, QuietRInv DEF rvars, vars
<1> QED
  BY <1>2, <1>3, <1>4, StartRInv, EnterRInv, HandledRInv, ReturnedRInv, WaitOverRInv,
     WaitEndsRInv DEF RNext

\* Every reachable state of the chain satisfies the inductive invariants of the
\* breaker and of the retries around it.
THEOREM RetryInvariant == RSpec => [](IInv /\ RInv)
<1>1. RInit => IInv /\ RInv
  BY InitIInv, InitRInv DEF RInit
<1>2. IInv /\ [Next]_vars => IInv'
  BY AdmitIInv, RecordIInv, ReportIInv, TickIInv, StutterIInv DEF Next
<1>3. (IInv /\ RInv) /\ [RNext]_rvars => (IInv /\ RInv)'
  BY <1>2, RetryStepIsBreakerStep, StepRInv
<1> QED
  BY <1>1, <1>3, PTL DEF RSpec

\* Retry uses the breaker as its specification says: whatever is proved of the
\* breaker alone holds of the breaker inside the chain.
THEOREM ChainImplementsBreaker == RSpec => Spec
<1>1. RInit => Init
  BY DEF RInit
<1> QED
  BY <1>1, RetryInvariant, RetryStepIsBreakerStep, PTL DEF RSpec, Spec

\* The count and the history in a FailureError are those of the runs that really
\* failed, for every policy and size of the history.
THEOREM FailuresAreTruthful == RSpec => []FailureTruthful
<1>1. RInv => FailureTruthful
  BY DEF RInv, One, Truthful, FailureTruthful, Numbers
<1> QED
  BY <1>1, RetryInvariant, PTL

\* A backoff that runs ends no later than its delay from now.
Waits ==
    \A i \in Invocations : phase[i] = "waiting" => until[i] <= now + Backoff(attempt[i])

\* A step leaves the wait of an invocation alone while the clock moves on, ends
\* it, or begins one.
LEMMA WaitSteps ==
    ASSUME IInv, RInv, RNext, NEW i \in Invocations
    PROVE  \/ /\ phase'[i] = phase[i] /\ until'[i] = until[i] /\ attempt'[i] = attempt[i]
              /\ now' \in {now, now + 1}
           \/ phase'[i] # "waiting"
           \/ /\ attempt'[i] = attempt[i] /\ now' = now
              /\ until'[i] = now + Backoff(attempt[i])
<1>1. /\ phase \in [Invocations -> {"idle", "calling", "waiting", "returned"}]
      /\ attempt \in [Invocations -> 1 .. MaxAttempts] /\ until \in [Invocations -> Int]
  BY DEF RInv, RTypes, RTypeOK
<1>2. ASSUME NEW j \in Invocations,
             Start(j) \/ Enter(j) \/ (\E e \in HandlerResults : Handled(j, e))
      PROVE  now' = now /\ UNCHANGED <<until, attempt>> /\ (phase' = phase \/
                 phase' = [phase EXCEPT ![j] = "calling"])
  BY <1>2 DEF Start, Enter, Handled, retry, Admit, Report, Record
<1>3. ASSUME NEW j \in Invocations, Returned(j)
      PROVE  /\ now' = now /\ UNCHANGED attempt
             /\ \/ phase' = [phase EXCEPT ![j] = "returned"]
                   /\ until' = [until EXCEPT ![j] = 0]
                \/ /\ phase' = [phase EXCEPT ![j] = "waiting"]
                   /\ until' = [until EXCEPT ![j] = now + Backoff(attempt[j])]
  BY <1>3 DEF Returned, Decide, Return, Report
<1>4. ASSUME NEW j \in Invocations,
             WaitOver(j) \/ WaitEnds(j)
      PROVE  /\ now' = now /\ until' = [until EXCEPT ![j] = 0]
             /\ \/ phase' = [phase EXCEPT ![j] = "returned"] /\ UNCHANGED attempt
                \/ /\ phase' = [phase EXCEPT ![j] = "calling"]
                   /\ attempt' = [attempt EXCEPT ![j] = @ + 1]
  BY <1>4 DEF WaitOver, WaitEnds, Return, Admit, vars
<1>5. ASSUME NEW j \in Invocations, \E why \in {"canceled", "timeout"} : ContextEnds(j, why)
      PROVE  now' = now /\ UNCHANGED <<phase, until, attempt>>
  BY <1>5 DEF ContextEnds, vars
<1>6. ASSUME Tick, UNCHANGED retry
      PROVE  now' = now + 1 /\ UNCHANGED <<phase, until, attempt>>
  BY <1>6 DEF Tick, retry
<1> QED
  BY <1>1, <1>2, <1>3, <1>4, <1>5, <1>6 DEF RNext

\* Every step keeps the waits within bounds.
LEMMA NextWaits == IInv /\ RInv /\ Waits /\ [RNext]_rvars => Waits'
<1> SUFFICES ASSUME IInv, RInv, Waits, [RNext]_rvars, NEW i \in Invocations,
                    phase'[i] = "waiting"
             PROVE  until'[i] <= now' + Backoff(attempt'[i])
  BY DEF Waits, Backoff, Signed
<1>1. /\ now \in Nat /\ attempt[i] \in 1 .. MaxAttempts /\ until[i] \in Int
      /\ Backoff(attempt[i]) \in Int
  BY BackoffType DEF IInv, TypeOK, RInv, RTypes, RTypeOK
<1>2. CASE RNext
  BY <1>1, <1>2, WaitSteps DEF Waits
<1>3. CASE UNCHANGED rvars
  BY <1>3 DEF Waits, rvars, vars
<1> QED
  BY <1>2, <1>3

\* Attempts keep the distance of the policy and no wait exceeds it, for every
\* BaseDelay, MaxDelay and width of a Duration, as long as the product fits.
THEOREM RetriesKeepDistance == RSpec => []RetriesSpaced
<1>1. ASSUME IInv, RInv, NEW i \in Invocations, NEW n \in 1 .. attempt[i] - 1,
             <<i, n + 1>> \in Inside, Fits(n)
      PROVE  at[<<i, n + 1>>] - at[<<i, n>>] >= Policy(n)
  <2>1. /\ attempt[i] \in 1 .. MaxAttempts /\ MaxAttempts \in Nat /\ One(i)
        /\ Call(i) = <<i, attempt[i]>>
    BY <1>1, CallsOfRetry, PolicyAssumption DEF RInv, Call
  <2>2. n \in 1 .. MaxAttempts /\ n + 1 \in 1 .. MaxAttempts
    BY <2>1
  <2>3. pc[<<i, n + 1>>] \in {"entering", "running"}
    BY <1>1 DEF Inside
  <2>4. attempt[i] = n + 1
    BY <2>1, <2>2, <2>3 DEF One, Places
  <2>5. at[<<i, n + 1>>] \in Nat /\ at[<<i, n>>] \in Nat /\ Backoff(n) \in Int
    BY <1>1, <2>2, CallsOfRetry, BackoffType DEF IInv, TypeOK
  <2>6. at[<<i, n + 1>>] >= at[<<i, n>>] + Backoff(n)
    <3>1. attempt[i] > 1 /\ attempt[i] - 1 = n
      BY <2>2, <2>4
    <3> QED
      BY <2>1, <2>3, <2>4, <3>1 DEF One, Distance
  <2>7. Backoff(n) = Policy(n)
    BY <1>1, <2>2, BackoffExact DEF Fits, Exact, Policy
  <2> QED
    BY <2>5, <2>6, <2>7
<1>2. ASSUME IInv, RInv, Waits, NEW i \in Invocations, phase[i] = "waiting", Fits(attempt[i])
      PROVE  until[i] - now <= Policy(attempt[i])
  <2>1. /\ now \in Nat /\ attempt[i] \in 1 .. MaxAttempts /\ until[i] \in Int
        /\ Backoff(attempt[i]) \in Int
    BY <1>2, BackoffType DEF IInv, TypeOK, RInv, RTypes, RTypeOK
  <2>2. Backoff(attempt[i]) = Policy(attempt[i])
    BY <1>2, <2>1, BackoffExact DEF Fits, Exact, Policy
  <2>3. until[i] <= now + Backoff(attempt[i])
    BY <1>2 DEF Waits
  <2> QED
    BY <2>1, <2>2, <2>3
<1>3. IInv /\ RInv /\ Waits => RetriesSpaced
  BY <1>1, <1>2 DEF RetriesSpaced
<1>4. RInit => Waits
  BY DEF RInit, Waits
<1>5. RSpec => []Waits
  BY <1>4, NextWaits, RetryInvariant, PTL DEF RSpec
<1> QED
  BY <1>3, <1>5, RetryInvariant, PTL
=============================================================================
