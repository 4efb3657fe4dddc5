------------------------- MODULE SlogObserverProofs -------------------------
(***************************************************************************)
(* Proofs about SlogObserver, for any number of signals and keys, any      *)
(* window and any size of the table: no record is lost or counted twice,   *)
(* a key is quiet for a whole window, and the table stays bounded.         *)
(***************************************************************************)
EXTENDS SlogObserver, FiniteSetTheorems, TLAPS

(* What the parts of the state are *)

\* The records counted in an entry are finitely many.
LEMMA CountedFinite ==
    ASSUME TypeOK, NEW e \in Ids
    PROVE  /\ counted[e] \subseteq Signals /\ IsFiniteSet(counted[e])
           /\ Cardinality(counted[e]) \in Nat
           /\ Cardinality(counted[e]) = 0 <=> counted[e] = {}
<1>1. counted[e] \subseteq Signals
  BY DEF TypeOK
<1>2. IsFiniteSet(Signals)
  BY FS_Interval, SlogAssumption DEF Signals
<1>3. IsFiniteSet(counted[e])
  BY <1>1, <1>2, FS_Subset
<1> QED
  BY <1>1, <1>3, FS_CardinalityType, FS_EmptySet

\* An allocated entry is an object, and its fields have their types.
LEMMA ObjectFields ==
    ASSUME TypeOK, NEW e \in Ids, heap[e] # NoEntry
    PROVE  /\ heap[e] \in Objects
           /\ heap[e].key \in Keys /\ heap[e].first \in Nat
           /\ heap[e].suppressed \in Nat /\ heap[e].due \in Int
           /\ heap[e].timer \in {"none", "armed", "fired", "stopped"}
           /\ heap[e].fate \in {"tracked", "closing", "summed", "dropped"}
BY DEF TypeOK, Objects

\* The window is a natural number.
LEMMA WindowType ==
    ASSUME TypeOK
    PROVE  every \in Nat /\ now \in Nat
BY SlogAssumption DEF TypeOK

\* Two keys do not share an entry.
LEMMA EntryOfOneKey ==
    ASSUME OInv, NEW k \in Keys, NEW l \in Keys, entries[k] = entries[l], entries[k] # NoEntry
    PROVE  k = l
BY DEF OInv, KeyInv

USE DEF marks

-----------------------------------------------------------------------------
(* What a step leaves alone *)

\* A signal that a step does not concern.
LEMMA SignalFrame ==
    ASSUME TypeOK, NEW s \in Signals, SignalInv(s),
           pc'[s] = pc[s], key'[s] = key[s], read'[s] = read[s],
           pc[s] # "done" => heap'[s] = heap[s],
           s \in logged' <=> s \in logged,
           \A e \in Ids : s \in counted'[e] <=> s \in counted[e],
           now' \in Nat, now <= now'
    PROVE  SignalInv(s)'
BY DEF SignalInv, TypeOK

\* A key whose table entry and window a step does not change.
LEMMA KeyFrame ==
    ASSUME TypeOK, NEW k \in Keys, KeyInv(k),
           entries'[k] = entries[k], stamp'[k] = stamp[k], every' = every,
           entries[k] # NoEntry => /\ heap'[entries[k]] # NoEntry
                                   /\ heap'[entries[k]].key = heap[entries[k]].key
                                   /\ heap'[entries[k]].fate = heap[entries[k]].fate
                                   /\ heap'[entries[k]].first = heap[entries[k]].first,
           now' \in Nat, now <= now'
    PROVE  KeyInv(k)'
<1>1. stamp[k] \in Int /\ now \in Nat /\ every \in Nat
  BY WindowType DEF TypeOK
<1> QED
  BY <1>1 DEF KeyInv

\* An entry that a step does not change and does not take out of the table.
LEMMA EntryFrame ==
    ASSUME TypeOK, NEW e \in Ids, EntryInv(e),
           heap'[e] = heap[e], counted'[e] = counted[e], reported'[e] = reported[e],
           every' = every,
           heap[e] # NoEntry /\ heap[e].fate = "tracked" => entries'[heap[e].key] = e,
           \A s \in counted[e] : pc'[s] = pc[s] /\ key'[s] = key[s],
           now' \in Nat, now <= now'
    PROVE  EntryInv(e)'
<1>1. now \in Nat /\ every \in Nat
  BY WindowType
<1>2. heap[e] # NoEntry => heap[e].first \in Nat
  BY ObjectFields
<1> QED
  BY <1>1, <1>2 DEF EntryInv

\* A table that loses keys, or none, stays within its bound.
LEMMA TableShrinks ==
    ASSUME TableBounded, Tracked' \subseteq Tracked
    PROVE  TableBounded'
<1>1. IsFiniteSet(Tracked') /\ Cardinality(Tracked') <= Cardinality(Tracked)
  BY FS_Subset DEF TableBounded
<1>2. Cardinality(Tracked) \in Nat /\ Cardinality(Tracked') \in Nat
  BY <1>1, FS_CardinalityType DEF TableBounded
<1> QED
  BY <1>1, <1>2, SlogAssumption DEF TableBounded

\* Signals, entries and pairs of entries that a step leaves as they are.
LEMMA HistoryFrame ==
    ASSUME OInv, counted' = counted
    PROVE  \A e, f \in Ids : e # f => counted'[e] \cap counted'[f] = {}
BY DEF OInv

-----------------------------------------------------------------------------
(* The invariant *)

\* An observer that was just made.
LEMMA InitOInv == Init => OInv
<1> SUFFICES ASSUME Init PROVE OInv
  OBVIOUS
<1>1. TypeOK
  BY DEF Init, TypeOK
<1>2. ASSUME NEW s \in Signals PROVE SignalInv(s)
  BY DEF Init, SignalInv, Ids
<1>3. ASSUME NEW k \in Keys PROVE KeyInv(k)
  BY DEF Init, KeyInv
<1>4. ASSUME NEW e \in Ids PROVE EntryInv(e)
  BY DEF Init, EntryInv
<1>5. Tracked = {}
  BY DEF Init, Tracked
<1>6. TableBounded
  BY <1>5, FS_EmptySet, SlogAssumption DEF TableBounded
<1> QED
  BY <1>1, <1>2, <1>3, <1>4, <1>6 DEF Init, OInv

\* Time passes, or nothing happens.
LEMMA TickStep ==
    ASSUME OInv, Tick \/ UNCHANGED svars
    PROVE  OInv'
<1>1. /\ UNCHANGED <<every, entries, heap, pc, key, read, flushes, logged, counted, reported, marks>>
      /\ now' \in Nat /\ now <= now' /\ TypeOK
  BY DEF OInv, TypeOK, Tick, svars
<1>2. TypeOK'
  BY <1>1 DEF TypeOK
<1>3. ASSUME NEW s \in Signals PROVE SignalInv(s)'
  BY <1>1, SignalFrame DEF OInv
<1>4. ASSUME NEW k \in Keys PROVE KeyInv(k)'
  BY <1>1, KeyFrame DEF OInv, KeyInv
<1>5. ASSUME NEW e \in Ids PROVE EntryInv(e)'
  BY <1>1, EntryFrame DEF OInv, EntryInv
<1>6. TableBounded'
  BY <1>1, TableShrinks DEF OInv, Tracked
<1> QED
  BY <1>1, <1>2, <1>3, <1>4, <1>5, <1>6, HistoryFrame DEF OInv

\* A signal is raised: it is logged at once, or its record reads the clock.
LEMMA RaiseStep ==
    ASSUME OInv, NEW s \in Signals, LogDirect(s) \/ \E k \in Keys : ReadClock(s, k)
    PROVE  OInv'
<1>1. /\ UNCHANGED <<every, entries, heap, now, flushes, counted, reported, marks>>
      /\ now \in Nat /\ TypeOK /\ pc[s] = "new"
  BY DEF OInv, TypeOK, LogDirect, ReadClock, Log, Raised
<1>2. TypeOK'
  <2>1. CASE LogDirect(s)
    BY <1>1, <2>1 DEF TypeOK, LogDirect, Log
  <2>2. ASSUME NEW k \in Keys, ReadClock(s, k) PROVE TypeOK'
    BY <1>1, <2>2 DEF TypeOK, ReadClock
  <2> QED
    BY <2>1, <2>2
<1>3. ASSUME NEW r \in Signals, r # s
      PROVE  /\ pc'[r] = pc[r] /\ key'[r] = key[r] /\ read'[r] = read[r]
             /\ r \in logged' <=> r \in logged
  BY <1>1, <1>3 DEF TypeOK, LogDirect, ReadClock, Log
<1>4. SignalInv(s)'
  <2>1. CASE LogDirect(s)
    BY <1>1, <2>1 DEF OInv, TypeOK, SignalInv, LogDirect, Log
  <2>2. ASSUME NEW k \in Keys, ReadClock(s, k) PROVE SignalInv(s)'
    BY <1>1, <2>2 DEF OInv, TypeOK, SignalInv, ReadClock
  <2> QED
    BY <2>1, <2>2
<1>5. ASSUME NEW r \in Signals PROVE SignalInv(r)'
  BY <1>1, <1>3, <1>4, SignalFrame DEF OInv
<1>6. ASSUME NEW k \in Keys PROVE KeyInv(k)'
  BY <1>1, KeyFrame DEF OInv, KeyInv
<1>7. ASSUME NEW e \in Ids PROVE EntryInv(e)'
  <2>1. \A r \in counted[e] : r \in Signals /\ r # s
    BY <1>1 DEF OInv, TypeOK, SignalInv
  <2>2. \A r \in counted[e] : pc'[r] = pc[r] /\ key'[r] = key[r]
    BY <1>3, <2>1
  <2> QED
    BY <1>1, <2>2, EntryFrame DEF OInv, EntryInv
<1>8. TableBounded'
  BY <1>1, TableShrinks DEF OInv, Tracked
<1> QED
  BY <1>1, <1>2, <1>5, <1>6, <1>7, <1>8, HistoryFrame DEF OInv

-----------------------------------------------------------------------------
(* Timers, summaries and Flush *)

\* A step of one entry, which keeps its key, its count and its window.
LEMMA EntryStep ==
    ASSUME OInv, NEW e \in Ids, NEW o \in Objects, heap[e] # NoEntry,
           heap' = [heap EXCEPT ![e] = o],
           o.key = heap[e].key, o.first = heap[e].first, o.suppressed = heap[e].suppressed,
           o.fate = "tracked" => heap[e].fate = "tracked",
           \/ entries' = entries /\ o.fate = heap[e].fate
           \/ entries' = entries /\ heap[e].fate # "tracked"
           \/ /\ entries' = [entries EXCEPT ![heap[e].key] = NoEntry]
              /\ entries[heap[e].key] = e /\ o.fate # "tracked"
              /\ stamp[heap[e].key] >= 0 => now - stamp[heap[e].key] >= every,
           \A f \in Ids : f # e => reported'[f] = reported[f],
           reported' \in [Ids -> Nat],
           UNCHANGED <<every, now, pc, key, read, flushes, logged, counted, marks>>,
           EntryInv(e)'
    PROVE  OInv'
<1>1. TypeOK /\ now \in Nat /\ heap[e].key \in Keys
  BY ObjectFields DEF OInv, TypeOK
<1>2. TypeOK'
  BY <1>1 DEF TypeOK
<1>3. heap'[e] = o /\ o # NoEntry /\ \A f \in Ids : f # e => heap'[f] = heap[f]
  BY <1>1, SlogAssumption DEF TypeOK
<1>4. ASSUME NEW s \in Signals PROVE SignalInv(s)'
  <2>1. pc[s] # "done" => heap'[s] = heap[s]
    BY <1>3 DEF OInv, SignalInv, Ids
  <2> QED
    BY <1>1, <2>1, SignalFrame DEF OInv
<1>5. ASSUME NEW k \in Keys PROVE KeyInv(k)'
  <2>1. CASE entries'[k] = entries[k]
    <3>1. entries[k] = e => o.fate = heap[e].fate
      BY <1>1, <2>1, SlogAssumption DEF OInv, KeyInv, TypeOK
    <3>2. entries[k] # NoEntry => entries[k] \in Ids /\ heap[entries[k]] # NoEntry
      BY <1>1 DEF OInv, KeyInv, TypeOK
    <3>3. entries[k] # NoEntry => /\ heap'[entries[k]] # NoEntry
                                  /\ heap'[entries[k]].key = heap[entries[k]].key
                                  /\ heap'[entries[k]].fate = heap[entries[k]].fate
                                  /\ heap'[entries[k]].first = heap[entries[k]].first
      BY <1>3, <3>1, <3>2
    <3> QED
      BY <1>1, <2>1, <3>3, KeyFrame DEF OInv
  <2>2. CASE entries'[k] # entries[k]
    <3>1. k = heap[e].key /\ entries'[k] = NoEntry
      BY <1>1, <2>2 DEF TypeOK
    <3> QED
      BY <1>1, <2>2, <3>1 DEF KeyInv
  <2> QED
    BY <2>1, <2>2
<1>6. ASSUME NEW f \in Ids PROVE EntryInv(f)'
  <2>1. CASE f # e
    <3>1. heap[f] # NoEntry => heap[f].key \in Keys
      BY <1>1, ObjectFields
    <3>2. heap[f] # NoEntry /\ heap[f].fate = "tracked" => entries[heap[f].key] = f
      BY DEF OInv, EntryInv
    <3>3. heap[f] # NoEntry /\ heap[f].fate = "tracked" => entries'[heap[f].key] = f
      BY <1>1, <2>1, <3>1, <3>2 DEF TypeOK
    <3> QED
      BY <1>1, <1>3, <2>1, <3>3, EntryFrame DEF OInv
  <2> QED
    BY <2>1
<1>7. TableBounded'
  <2>1. Tracked' \subseteq Tracked
    BY <1>1 DEF Tracked, TypeOK
  <2> QED
    BY <2>1, TableShrinks DEF OInv
<1> QED
  BY <1>2, <1>4, <1>5, <1>6, <1>7, HistoryFrame DEF OInv

\* The timer fires: the window is over.
LEMMA FireStep ==
    ASSUME OInv, NEW e \in Ids, Fire(e)
    PROVE  OInv'
<1> DEFINE m == [heap[e] EXCEPT !.timer = "fired"]
           o == [m EXCEPT !.due = 0]
<1>1. /\ heap[e] \in Objects /\ heap[e] # NoEntry /\ TypeOK
      /\ heap[e].first \in Nat /\ heap[e].due \in Int
  BY ObjectFields DEF OInv, Fire
<1>2. /\ o \in Objects /\ o.key = heap[e].key /\ o.first = heap[e].first
      /\ o.suppressed = heap[e].suppressed /\ o.fate = heap[e].fate /\ o.timer = "fired"
  <2>1. /\ m \in Objects /\ m.key = heap[e].key /\ m.first = heap[e].first
        /\ m.suppressed = heap[e].suppressed /\ m.fate = heap[e].fate /\ m.timer = "fired"
    BY <1>1 DEF Objects
  <2> HIDE DEF m
  <2> QED
    BY <2>1 DEF Objects
<1>3. heap' = [heap EXCEPT ![e] = o]
  BY <1>1 DEF Fire, TypeOK
<1>4. o # NoEntry /\ heap'[e] = o
  BY <1>1, <1>2, <1>3, SlogAssumption DEF TypeOK
<1>5. now >= heap[e].first + every
  BY <1>1, WindowType DEF OInv, EntryInv, Fire
<1> HIDE DEF o
<1>6. EntryInv(e)'
  BY <1>1, <1>2, <1>4, <1>5 DEF OInv, EntryInv, Fire
<1> QED
  BY <1>1, <1>2, <1>3, <1>6, EntryStep DEF Fire, OInv, TypeOK

\* The callback of the timer: the entry leaves the table, if it is still there.
LEMMA FlushKeyStep ==
    ASSUME OInv, NEW e \in Ids, FlushKey(e)
    PROVE  OInv'
<1> DEFINE o == [heap[e] EXCEPT !.timer = "stopped",
                                !.fate = IF entries[heap[e].key] = e THEN "closing" ELSE @]
<1>1. /\ heap[e] \in Objects /\ heap[e] # NoEntry /\ TypeOK /\ heap[e].key \in Keys
      /\ heap[e].first \in Nat
  BY ObjectFields DEF OInv, FlushKey
<1>2. /\ o \in Objects /\ o.key = heap[e].key /\ o.first = heap[e].first
      /\ o.suppressed = heap[e].suppressed /\ o.timer = "stopped"
      /\ o.fate = IF entries[heap[e].key] = e THEN "closing" ELSE heap[e].fate
  BY <1>1 DEF Objects
<1>3. heap' = [heap EXCEPT ![e] = o]
  BY <1>1 DEF FlushKey, TypeOK, Objects
<1>4. o # NoEntry /\ heap'[e] = o
  BY <1>1, <1>2, <1>3, SlogAssumption DEF TypeOK
<1>5. heap[e].fate = "tracked" <=> entries[heap[e].key] = e
  BY <1>1, SlogAssumption DEF OInv, EntryInv, KeyInv
<1>6. entries[heap[e].key] = e => stamp[heap[e].key] = heap[e].first
  BY <1>1, SlogAssumption DEF OInv, KeyInv
<1>7. heap[e].fate = "tracked" => now - heap[e].first >= every
  BY <1>1, WindowType DEF OInv, EntryInv, FlushKey
<1> HIDE DEF o
<1>8. EntryInv(e)'
  BY <1>1, <1>2, <1>4, <1>5 DEF OInv, EntryInv, FlushKey
<1> QED
  BY <1>1, <1>2, <1>3, <1>5, <1>6, <1>7, <1>8, EntryStep DEF FlushKey, OInv, TypeOK

\* The summary of an entry tells its whole count, once.
LEMMA SummaryStep ==
    ASSUME OInv, NEW e \in Ids, Summary(e)
    PROVE  OInv'
<1> DEFINE o == [heap[e] EXCEPT !.fate = "summed"]
<1>1. /\ heap[e] \in Objects /\ heap[e] # NoEntry /\ TypeOK /\ heap[e].suppressed \in Nat
  BY ObjectFields DEF OInv, Summary
<1>2. /\ o \in Objects /\ o.key = heap[e].key /\ o.first = heap[e].first
      /\ o.suppressed = heap[e].suppressed /\ o.fate = "summed" /\ o.timer = heap[e].timer
  BY <1>1 DEF Objects
<1>3. heap' = [heap EXCEPT ![e] = o]
  BY <1>1 DEF Summary, TypeOK
<1>4. o # NoEntry /\ heap'[e] = o
  BY <1>1, <1>2, <1>3, SlogAssumption DEF TypeOK
<1>5. /\ reported'[e] = heap[e].suppressed /\ reported' \in [Ids -> Nat]
      /\ \A f \in Ids : f # e => reported'[f] = reported[f]
  BY <1>1 DEF OInv, TypeOK, EntryInv, Summary
<1> HIDE DEF o
<1>6. EntryInv(e)'
  BY <1>1, <1>2, <1>4, <1>5 DEF OInv, EntryInv, Summary
<1> QED
  BY <1>1, <1>2, <1>3, <1>5, <1>6, EntryStep DEF Summary

\* Flush empties the table; what was counted is on its way to the logger.
LEMMA FlushStep ==
    ASSUME OInv, Flush
    PROVE  OInv'
<1>0. /\ UNCHANGED <<every, now, pc, key, read, logged, counted, reported>>
      /\ flushes' = flushes + 1
      /\ \A k \in Keys : entries'[k] = NoEntry /\ stamp'[k] = -1
      /\ entries' \in [Keys -> {NoEntry}] /\ stamp' \in [Keys -> {-1}]
      /\ opened' \in [Keys -> {-1}]
  BY DEF Flush
<1>1. TypeOK /\ now \in Nat /\ every \in Nat
  BY WindowType DEF OInv
<1>2. ASSUME NEW e \in Ids, \E k \in Tracked : entries[k] = e
      PROVE  heap[e] # NoEntry /\ heap[e].fate = "tracked" /\ entries[heap[e].key] = e
  BY <1>2, SlogAssumption DEF OInv, KeyInv, Tracked
<1>3. ASSUME NEW e \in Ids, ~ \E k \in Tracked : entries[k] = e, heap[e] # NoEntry
      PROVE  heap[e].fate # "tracked"
  BY <1>1, <1>3, ObjectFields, SlogAssumption DEF OInv, EntryInv, Tracked
<1>4. ASSUME NEW e \in Ids
      PROVE  IF \E k \in Tracked : entries[k] = e
             THEN /\ heap'[e] \in Objects
                  /\ heap'[e].key = heap[e].key /\ heap'[e].first = heap[e].first
                  /\ heap'[e].suppressed = heap[e].suppressed
                  /\ heap'[e].fate = IF heap[e].suppressed = 0 THEN "dropped" ELSE "closing"
                  /\ heap[e].suppressed # 0 => heap'[e].timer # "armed"
                  /\ heap[e].suppressed = 0 => heap'[e].timer = heap[e].timer
                  /\ heap'[e].timer = "fired" => heap[e].timer = "fired"
             ELSE heap'[e] = heap[e]
  <2>1. CASE ~ \E k \in Tracked : entries[k] = e
    BY <2>1 DEF Flush
  <2>2. CASE \E k \in Tracked : entries[k] = e
    <3>1. heap[e] \in Objects
      BY <1>1, <1>2, <2>2, ObjectFields
    <3>2. heap'[e] = IF heap[e].suppressed = 0
                       THEN [heap[e] EXCEPT !.fate = "dropped"]
                       ELSE [heap[e] EXCEPT !.fate = "closing",
                                            !.timer = IF @ = "armed" THEN "stopped" ELSE @]
      BY <2>2 DEF Flush
    <3> QED
      BY <2>2, <3>1, <3>2 DEF Objects
  <2> QED
    BY <2>1, <2>2
<1>5. heap' \in [Ids -> Objects \cup {NoEntry}]
  <2>1. \A e \in Ids : heap'[e] \in Objects \cup {NoEntry}
    BY <1>1, <1>4 DEF TypeOK
  <2>2. heap' = [e \in Ids |-> heap'[e]]
    BY DEF Flush
  <2> QED
    BY <2>1, <2>2
<1>6. TypeOK'
  BY <1>0, <1>1, <1>5 DEF TypeOK
<1>7. ASSUME NEW s \in Signals PROVE SignalInv(s)'
  <2>1. pc[s] # "done" => heap'[s] = heap[s]
    BY <1>2, <1>4 DEF OInv, SignalInv, Ids
  <2> QED
    BY <1>0, <1>1, <2>1, SignalFrame DEF OInv
<1>8. ASSUME NEW k \in Keys PROVE KeyInv(k)'
  BY <1>0 DEF KeyInv
<1>9. ASSUME NEW e \in Ids PROVE EntryInv(e)'
  <2>1. CASE ~ \E k \in Tracked : entries[k] = e
    <3>1. heap'[e] = heap[e] /\ (heap[e] # NoEntry => heap[e].fate # "tracked")
      BY <1>3, <1>4, <2>1
    <3> QED
      BY <1>0, <1>1, <3>1, EntryFrame DEF OInv
  <2>2. CASE \E k \in Tracked : entries[k] = e
    <3>1. heap'[e] # NoEntry /\ heap[e] # NoEntry /\ heap[e].fate = "tracked"
      BY <1>2, <1>4, <2>2, SlogAssumption
    <3>2. heap[e].suppressed \in Nat /\ heap[e].timer \in {"none", "armed", "fired", "stopped"}
      BY <1>1, <3>1, ObjectFields
    <3> QED
      BY <1>0, <1>4, <2>2, <3>1, <3>2 DEF OInv, EntryInv
  <2> QED
    BY <2>1, <2>2
<1>10. TableBounded'
  <2>1. Tracked' \subseteq Tracked
    BY DEF Flush, Tracked
  <2> QED
    BY <2>1, TableShrinks DEF OInv
<1> QED
  BY <1>0, <1>6, <1>7, <1>8, <1>9, <1>10, HistoryFrame DEF OInv

-----------------------------------------------------------------------------
(* record *)

\* What every record does, whichever way it goes.
LEMMA RecordFrame ==
    ASSUME OInv, NEW s \in Signals, Record(s)
    PROVE  /\ TypeOK /\ now \in Nat /\ every \in Nat
           /\ pc[s] = "reading" /\ key[s] \in Keys /\ read[s] \in Nat /\ read[s] <= now
           /\ heap[s] = NoEntry /\ s \notin logged /\ \A e \in Ids : s \notin counted[e]
           /\ pc' \in [Signals -> {"new", "reading", "done"}] /\ pc'[s] = "done"
           /\ read' \in [Signals -> Nat]
           /\ \A r \in Signals : r # s => pc'[r] = pc[r] /\ read'[r] = read[r]
           /\ UNCHANGED <<every, now, key, flushes, reported>>
<1>1. TypeOK /\ now \in Nat /\ every \in Nat
  BY WindowType DEF OInv
<1> QED
  BY <1>1 DEF OInv, SignalInv, TypeOK, Record

\* A record that is logged has left its trace, and no other record's changes.
LEMMA LoggedSignals ==
    ASSUME OInv, NEW s \in Signals, Record(s), Log(s),
           \A r \in Signals : pc'[r] # "done" => heap'[r] = heap[r]
    PROVE  \A r \in Signals : SignalInv(r)'
<1> SUFFICES ASSUME NEW r \in Signals PROVE SignalInv(r)'
  OBVIOUS
<1>1. CASE r = s
  BY <1>1, RecordFrame DEF SignalInv, Log
<1>2. CASE r # s
  BY <1>2, RecordFrame, SignalFrame DEF OInv, Log
<1> QED
  BY <1>1, <1>2

\* No record that is counted is the one that passes the lock.
LEMMA CountedOthers ==
    ASSUME OInv, NEW s \in Signals, Record(s), NEW e \in Ids
    PROVE  \A r \in counted[e] : r # s /\ pc'[r] = pc[r] /\ key'[r] = key[r]
BY RecordFrame DEF TypeOK

\* With no window the record is logged and nothing is tracked.
LEMMA AllStep ==
    ASSUME OInv, NEW s \in Signals, Record(s), RecordAll(s)
    PROVE  OInv'
<1>1. UNCHANGED <<entries, heap, marks, counted>> /\ Log(s)
  BY DEF RecordAll, Log
<1>2. TypeOK'
  BY <1>1, RecordFrame DEF TypeOK, Log
<1>3. \A r \in Signals : SignalInv(r)'
  BY <1>1, LoggedSignals
<1>4. ASSUME NEW k \in Keys PROVE KeyInv(k)'
  BY <1>1, RecordFrame, KeyFrame DEF OInv, KeyInv
<1>5. ASSUME NEW e \in Ids PROVE EntryInv(e)'
  BY <1>1, RecordFrame, CountedOthers, EntryFrame DEF OInv, EntryInv
<1>6. TableBounded'
  BY <1>1, TableShrinks DEF OInv, Tracked
<1> QED
  BY <1>1, <1>2, <1>3, <1>4, <1>5, <1>6, HistoryFrame DEF OInv

\* A window that passed with nothing counted is followed by a new one.
LEMMA ReopensStep ==
    ASSUME OInv, NEW s \in Signals, Record(s), RecordReopens(s)
    PROVE  OInv'
<1>1. PICK e \in Ids : e = entries[key[s]]
  BY RecordFrame DEF RecordReopens, TypeOK
<1>2. /\ heap[e] # NoEntry /\ heap[e] \in Objects /\ heap[e].key = key[s]
      /\ heap[e].fate = "tracked" /\ heap[e].suppressed = 0 /\ key[s] \in Keys
  <2>1. key[s] \in Keys /\ TypeOK /\ e # NoEntry
    BY RecordFrame, SlogAssumption
  <2>2. heap[e] # NoEntry /\ heap[e].key = key[s] /\ heap[e].fate = "tracked"
    BY <1>1, <2>1 DEF OInv, KeyInv
  <2> QED
    BY <1>1, <2>1, <2>2, ObjectFields DEF RecordReopens, Stale
<1> DEFINE o == [heap[e] EXCEPT !.first = read[s]]
<1>3. /\ o \in Objects /\ o.key = heap[e].key /\ o.first = read[s]
      /\ o.suppressed = heap[e].suppressed /\ o.fate = heap[e].fate
      /\ o.timer = heap[e].timer
  BY <1>2, RecordFrame DEF Objects
<1>4. heap' = [heap EXCEPT ![e] = o]
  BY <1>1, RecordFrame DEF RecordReopens, TypeOK
<1>5. /\ o # NoEntry /\ heap'[e] = o /\ \A f \in Ids : f # e => heap'[f] = heap[f]
      /\ e # s /\ heap' \in [Ids -> Objects \cup {NoEntry}]
  BY <1>2, <1>3, <1>4, RecordFrame, SlogAssumption DEF TypeOK
<1>6. /\ UNCHANGED <<entries, counted>> /\ Log(s)
      /\ stamp' \in [Keys -> Nat \cup {-1}] /\ opened' \in [Keys -> Nat \cup {-1}]
      /\ stamp'[key[s]] = read[s]
      /\ \A k \in Keys : k # key[s] => stamp'[k] = stamp[k]
  BY RecordFrame DEF RecordReopens, Log, Opens, TypeOK
<1> HIDE DEF o
<1>7. TypeOK'
  BY <1>5, <1>6, RecordFrame DEF TypeOK, Log
<1>8. \A r \in Signals : SignalInv(r)'
  <2>1. \A r \in Signals : pc'[r] # "done" => heap'[r] = heap[r]
    BY <1>2, <1>5, RecordFrame DEF OInv, SignalInv, Ids
  <2> QED
    BY <1>6, <2>1, LoggedSignals
<1>9. ASSUME NEW k \in Keys PROVE KeyInv(k)'
  <2>1. CASE k = key[s]
    BY <1>1, <1>2, <1>3, <1>5, <1>6, <2>1, SlogAssumption DEF KeyInv
  <2>2. CASE k # key[s]
    <3>1. entries[k] # NoEntry => entries[k] \in Ids /\ entries[k] # e /\ heap[entries[k]] # NoEntry
      BY <1>1, <1>2, <2>2, RecordFrame DEF OInv, KeyInv, TypeOK
    <3> QED
      BY <1>5, <1>6, <2>2, <3>1, RecordFrame, KeyFrame DEF OInv
  <2> QED
    BY <2>1, <2>2
<1>10. ASSUME NEW f \in Ids PROVE EntryInv(f)'
  <2>1. CASE f = e
    <3>1. \A r \in counted[e] : pc'[r] = pc[r] /\ key'[r] = key[r]
      BY CountedOthers
    <3> QED
      BY <1>1, <1>2, <1>3, <1>5, <1>6, <2>1, <3>1, RecordFrame DEF OInv, EntryInv
  <2>2. CASE f # e
    BY <1>5, <1>6, <2>2, RecordFrame, CountedOthers, EntryFrame DEF OInv, EntryInv
  <2> QED
    BY <2>1, <2>2
<1>11. TableBounded'
  BY <1>6, TableShrinks DEF OInv, Tracked
<1> QED
  BY <1>6, <1>7, <1>8, <1>9, <1>10, <1>11, HistoryFrame DEF OInv

\* A repeat is counted.  The first one of a window starts its timer, which runs
\* to the end of the window or longer: the clock was read before the lock.
LEMMA RepeatsStep ==
    ASSUME OInv, NEW s \in Signals, Record(s), RecordRepeats(s)
    PROVE  OInv'
<1>1. PICK e \in Ids : e = entries[key[s]]
  BY RecordFrame DEF RecordRepeats, TypeOK
<1>2. /\ heap[e] # NoEntry /\ heap[e] \in Objects /\ heap[e].key = key[s]
      /\ heap[e].fate = "tracked" /\ key[s] \in Keys
      /\ heap[e].suppressed \in Nat /\ heap[e].first \in Nat /\ heap[e].due \in Int
  <2>1. key[s] \in Keys /\ TypeOK /\ e # NoEntry
    BY RecordFrame, SlogAssumption
  <2>2. heap[e] # NoEntry /\ heap[e].key = key[s] /\ heap[e].fate = "tracked"
    BY <1>1, <2>1 DEF OInv, KeyInv
  <2> QED
    BY <2>1, <2>2, ObjectFields
<1> DEFINE ends == now + every - (read[s] - heap[e].first)
           o == Repeated(heap[e], ends)
<1>3. heap' = [heap EXCEPT ![e] = o]
  BY <1>1 DEF RecordRepeats
<1>4. ends \in Int /\ ends >= heap[e].first + every
  BY <1>2, RecordFrame
<1> HIDE DEF ends
<1>5. /\ o \in Objects /\ o.key = heap[e].key /\ o.first = heap[e].first
      /\ o.suppressed = heap[e].suppressed + 1 /\ o.fate = heap[e].fate
      /\ o.timer = IF heap[e].suppressed = 0 THEN "armed" ELSE heap[e].timer
      /\ o.due = IF heap[e].suppressed = 0 THEN ends ELSE heap[e].due
  <2>1. CASE heap[e].suppressed = 0
    <3> DEFINE m == [heap[e] EXCEPT !.suppressed = 1]
               n == [m EXCEPT !.timer = "armed"]
               q == [n EXCEPT !.due = ends]
    <3>1. o = q
      BY <2>1 DEF Repeated
    <3> HIDE DEF o
    <3>2. /\ m \in Objects /\ m.key = heap[e].key /\ m.first = heap[e].first
          /\ m.suppressed = 1 /\ m.fate = heap[e].fate
      BY <1>2 DEF Objects
    <3> HIDE DEF m
    <3>3. /\ n \in Objects /\ n.key = heap[e].key /\ n.first = heap[e].first
          /\ n.suppressed = 1 /\ n.fate = heap[e].fate /\ n.timer = "armed"
      BY <3>2 DEF Objects
    <3> HIDE DEF n
    <3>4. /\ q \in Objects /\ q.key = heap[e].key /\ q.first = heap[e].first
          /\ q.suppressed = 1 /\ q.fate = heap[e].fate /\ q.timer = "armed" /\ q.due = ends
      BY <1>4, <3>3 DEF Objects
    <3> HIDE DEF q
    <3> QED
      BY <2>1, <3>1, <3>4
  <2>2. CASE heap[e].suppressed # 0
    BY <1>2, <2>2 DEF Objects, Repeated
  <2> QED
    BY <2>1, <2>2
<1> HIDE DEF o
<1>6. /\ o # NoEntry /\ heap'[e] = o /\ \A f \in Ids : f # e => heap'[f] = heap[f]
      /\ e # s /\ heap' \in [Ids -> Objects \cup {NoEntry}]
  BY <1>2, <1>3, <1>5, RecordFrame, SlogAssumption DEF TypeOK
<1>7. /\ UNCHANGED <<entries, marks, logged>>
      /\ counted' \in [Ids -> SUBSET Signals] /\ counted'[e] = counted[e] \cup {s}
      /\ \A f \in Ids : f # e => counted'[f] = counted[f]
  BY <1>1, RecordFrame DEF RecordRepeats, CountIn, TypeOK
<1>8. TypeOK'
  BY <1>6, <1>7, RecordFrame DEF TypeOK
<1>9. ASSUME NEW r \in Signals PROVE SignalInv(r)'
  <2>1. CASE r = s
    BY <1>7, <2>1, RecordFrame DEF SignalInv
  <2>2. CASE r # s
    <3>1. pc[r] # "done" => heap'[r] = heap[r]
      BY <1>2, <1>6, RecordFrame DEF OInv, SignalInv, Ids
    <3>2. \A f \in Ids : r \in counted'[f] <=> r \in counted[f]
      BY <1>7, <2>2
    <3> QED
      BY <1>7, <2>2, <3>1, <3>2, RecordFrame, SignalFrame DEF OInv
  <2> QED
    BY <2>1, <2>2
<1>10. ASSUME NEW k \in Keys PROVE KeyInv(k)'
  <2>1. entries[k] # NoEntry => entries[k] \in Ids /\ heap[entries[k]] # NoEntry
    BY RecordFrame DEF OInv, KeyInv, TypeOK
  <2>2. entries[k] # NoEntry => /\ heap'[entries[k]] # NoEntry
                                /\ heap'[entries[k]].key = heap[entries[k]].key
                                /\ heap'[entries[k]].fate = heap[entries[k]].fate
                                /\ heap'[entries[k]].first = heap[entries[k]].first
    BY <1>5, <1>6, <2>1
  <2> QED
    BY <1>7, <2>2, RecordFrame, KeyFrame DEF OInv
<1>11. ASSUME NEW f \in Ids PROVE EntryInv(f)'
  <2>1. CASE f = e
    <3>1. \A r \in counted[e] : pc'[r] = pc[r] /\ key'[r] = key[r]
      BY CountedOthers
    <3>2. Cardinality(counted'[e]) = Cardinality(counted[e]) + 1 /\ Cardinality(counted[e]) \in Nat
      <4>1. IsFiniteSet(counted[e]) /\ Cardinality(counted[e]) \in Nat /\ s \notin counted[e]
        BY RecordFrame, CountedFinite
      <4>2. Cardinality(counted[e] \cup {s}) = Cardinality(counted[e]) + 1
        BY <4>1, FS_AddElement
      <4> QED
        BY <1>7, <4>1, <4>2
    <3>3. \A r \in counted'[e] : pc'[r] = "done" /\ key'[r] = heap'[e].key
      BY <1>2, <1>5, <1>6, <1>7, <3>1, RecordFrame DEF OInv, EntryInv
    <3>4. heap'[e].suppressed = Cardinality(counted'[e]) /\ heap'[e].suppressed > 0
      BY <1>2, <1>5, <1>6, <3>2 DEF OInv, EntryInv
    <3>5. heap'[e].timer = "armed" => heap'[e].due >= heap'[e].first + every
      BY <1>2, <1>4, <1>5, <1>6 DEF OInv, EntryInv
    <3>6. heap'[e].timer = "fired" => now >= heap'[e].first + every
      BY <1>2, <1>5, <1>6 DEF OInv, EntryInv
    <3>7. /\ heap'[e] # NoEntry /\ heap'[e].fate = "tracked" /\ heap'[e].first <= now
          /\ entries'[heap'[e].key] = e /\ reported'[e] = 0 /\ UNCHANGED <<every, now>>
      BY <1>1, <1>2, <1>5, <1>6, <1>7, RecordFrame DEF OInv, EntryInv
    <3>8. heap'[e].timer \in {"armed", "fired"}
      BY <1>2, <1>5, <1>6 DEF OInv, EntryInv
    <3> QED
      BY <2>1, <3>3, <3>4, <3>5, <3>6, <3>7, <3>8 DEF EntryInv
  <2>2. CASE f # e
    BY <1>6, <1>7, <2>2, RecordFrame, CountedOthers, EntryFrame DEF OInv, EntryInv
  <2> QED
    BY <2>1, <2>2
<1>12. \A d, f \in Ids : d # f => counted'[d] \cap counted'[f] = {}
  BY <1>7, RecordFrame DEF OInv
<1>13. TableBounded'
  BY <1>7, TableShrinks DEF OInv, Tracked
<1> QED
  BY <1>8, <1>9, <1>10, <1>11, <1>12, <1>13 DEF OInv

\* A key that is not tracked.  What it evicts has had its window and no count;
\* what it adds is the entry of this record.
LEMMA FirstStep ==
    ASSUME OInv, NEW s \in Signals, Record(s), RecordFirst(s)
    PROVE  OInv'
<1> DEFINE gone == Evicted(read[s])
           room == Cardinality(Tracked \ gone) < soMaxKeys
           kept == [x \in Keys |-> IF x \in gone THEN NoEntry ELSE entries[x]]
           left == [x \in Ids |-> IF \E g \in gone : entries[g] = x
                                    THEN [heap[x] EXCEPT !.fate = "dropped"] ELSE heap[x]]
           fresh == [key |-> key[s], first |-> read[s], suppressed |-> 0, due |-> 0,
                     timer |-> "none", fate |-> "tracked"]
<1>1. /\ every > 0 /\ entries[key[s]] = NoEntry /\ Log(s)
      /\ entries' = IF room THEN [kept EXCEPT ![key[s]] = s] ELSE kept
      /\ heap' = IF room THEN [left EXCEPT ![s] = fresh] ELSE left
      /\ IF room THEN Opens(key[s], read[s]) ELSE UNCHANGED marks
  BY DEF RecordFirst
<1>2. /\ gone \subseteq Tracked
      /\ \A g \in gone : heap[entries[g]].suppressed = 0 /\ read[s] - heap[entries[g]].first >= every
  BY DEF Evicted, Stale
<1>3. fresh \in Objects /\ fresh # NoEntry
  BY RecordFrame, SlogAssumption DEF Objects
<1> HIDE DEF gone, room
<1>4. ASSUME NEW k \in Keys
      PROVE  entries'[k] = IF room /\ k = key[s] THEN s
                           ELSE IF k \in gone THEN NoEntry ELSE entries[k]
  BY <1>1, RecordFrame
<1>5. ASSUME NEW e \in Ids, \E g \in gone : entries[g] = e
      PROVE  /\ e # s /\ heap[e] # NoEntry /\ heap[e] \in Objects
             /\ heap[e].suppressed = 0 /\ heap[e].fate = "tracked"
             /\ heap[e].key \in gone /\ entries[heap[e].key] = e
             /\ read[s] - heap[e].first >= every
  <2>1. PICK g \in gone : entries[g] = e
    BY <1>5
  <2>2. g \in Keys /\ entries[g] # NoEntry
    BY <1>2 DEF Tracked
  <2>3. heap[e] # NoEntry /\ heap[e].key = g /\ heap[e].fate = "tracked"
    BY <2>1, <2>2 DEF OInv, KeyInv
  <2> QED
    BY <1>2, <2>1, <2>3, RecordFrame, ObjectFields
<1>6. ASSUME NEW e \in Ids
      PROVE  heap'[e] = IF room /\ e = s THEN fresh
                        ELSE IF \E g \in gone : entries[g] = e
                          THEN [heap[e] EXCEPT !.fate = "dropped"] ELSE heap[e]
  <2> HIDE DEF fresh
  <2> QED
    BY <1>1 DEF Ids
<1> HIDE DEF fresh
<1>7. ASSUME NEW e \in Ids, \E g \in gone : entries[g] = e
      PROVE  /\ heap'[e] \in Objects /\ heap'[e] # NoEntry
             /\ heap'[e].key = heap[e].key /\ heap'[e].first = heap[e].first
             /\ heap'[e].suppressed = 0 /\ heap'[e].fate = "dropped"
             /\ heap'[e].timer = heap[e].timer
  <2>1. heap'[e] = [heap[e] EXCEPT !.fate = "dropped"] /\ heap[e] \in Objects
    BY <1>5, <1>6, <1>7
  <2>2. heap'[e] \in Objects
    BY <2>1 DEF Objects
  <2> QED
    BY <1>5, <1>7, <2>1, <2>2, SlogAssumption DEF Objects
<1>8. ASSUME NEW e \in Ids, ~ \E g \in gone : entries[g] = e
      PROVE  heap'[e] = IF room /\ e = s THEN fresh ELSE heap[e]
  BY <1>6, <1>8
<1>9. /\ stamp' \in [Keys -> Nat \cup {-1}] /\ opened' \in [Keys -> Nat \cup {-1}]
      /\ \A k \in Keys : stamp'[k] = IF room /\ k = key[s] THEN read[s] ELSE stamp[k]
  BY <1>1, RecordFrame DEF Opens, TypeOK
<1>10. counted' = counted
  BY <1>1 DEF Log
<1>11. TypeOK'
  <2>1. entries' \in [Keys -> Ids \cup {NoEntry}]
    BY <1>1, RecordFrame DEF TypeOK, Ids
  <2>2. \A e \in Ids : heap'[e] \in Objects \cup {NoEntry}
    BY <1>3, <1>7, <1>8, RecordFrame DEF TypeOK
  <2>3. heap' = [e \in Ids |-> heap'[e]]
    BY <1>1
  <2>4. heap' \in [Ids -> Objects \cup {NoEntry}]
    BY <2>2, <2>3
  <2> QED
    BY <1>1, <1>9, <2>1, <2>4, RecordFrame DEF TypeOK, Log
<1>12. \A r \in Signals : SignalInv(r)'
  <2>1. ASSUME NEW r \in Signals, pc'[r] # "done" PROVE heap'[r] = heap[r]
    <3>1. r \in Ids /\ r # s /\ heap[r] = NoEntry
      BY <2>1, RecordFrame DEF OInv, SignalInv, Ids
    <3> QED
      BY <1>5, <1>8, <3>1
  <2> QED
    BY <1>1, <2>1, LoggedSignals
<1>13. ASSUME NEW k \in Keys PROVE KeyInv(k)'
  <2>1. CASE room /\ k = key[s]
    <3>1. s \in Ids /\ heap'[s] = fresh /\ entries'[k] = s /\ s # NoEntry
      BY <1>4, <1>6, <2>1, SlogAssumption DEF Ids
    <3> QED
      BY <1>3, <1>9, <2>1, <3>1 DEF KeyInv, fresh
  <2>2. CASE ~(room /\ k = key[s]) /\ k \in gone
    <3>1. /\ entries'[k] = NoEntry /\ stamp'[k] = stamp[k]
          /\ entries[k] # NoEntry /\ entries[k] \in Ids
      BY <1>2, <1>4, <1>9, <2>2, RecordFrame DEF Tracked, TypeOK
    <3>2. stamp[k] = heap[entries[k]].first
      BY <3>1 DEF OInv, KeyInv
    <3>3. read[s] - stamp[k] >= every /\ stamp[k] \in Int
      BY <1>2, <2>2, <3>2, RecordFrame DEF TypeOK
    <3> QED
      BY <3>1, <3>3, RecordFrame DEF KeyInv
  <2>3. CASE ~(room /\ k = key[s]) /\ k \notin gone
    <3>1. entries'[k] = entries[k] /\ stamp'[k] = stamp[k]
      BY <1>4, <1>9, <2>3
    <3>2. entries[k] # NoEntry =>
             /\ entries[k] \in Ids /\ heap[entries[k]] # NoEntry /\ entries[k] # s
             /\ heap[entries[k]].key = k
      BY RecordFrame DEF OInv, KeyInv, TypeOK
    <3>3. entries[k] # NoEntry => heap'[entries[k]] = heap[entries[k]]
      BY <1>5, <1>8, <2>3, <3>2
    <3> QED
      BY <3>1, <3>2, <3>3, RecordFrame, KeyFrame DEF OInv
  <2> QED
    BY <2>1, <2>2, <2>3
<1>14. ASSUME NEW e \in Ids PROVE EntryInv(e)'
  <2>1. \A r \in counted[e] : pc'[r] = pc[r] /\ key'[r] = key[r]
    BY CountedOthers
  <2>2. CASE room /\ e = s
    <3>1. heap'[e] = fresh /\ counted[e] = {} /\ reported[e] = 0
      BY <1>6, <2>2, RecordFrame DEF OInv, EntryInv
    <3>2. entries'[key[s]] = e
      BY <1>4, <2>2, RecordFrame
    <3> QED
      BY <1>3, <1>10, <3>1, <3>2, RecordFrame, FS_EmptySet DEF EntryInv, fresh
  <2>3. CASE ~(room /\ e = s) /\ \E g \in gone : entries[g] = e
    <3>1. /\ heap'[e] # NoEntry /\ heap'[e].key = heap[e].key /\ heap'[e].first = heap[e].first
          /\ heap'[e].suppressed = 0 /\ heap'[e].fate = "dropped"
          /\ heap'[e].timer = heap[e].timer
      BY <1>7, <2>3
    <3>2. heap[e] # NoEntry /\ heap[e].suppressed = 0 /\ heap[e].fate = "tracked"
      BY <1>5, <2>3
    <3> QED
      BY <1>10, <2>1, <3>1, <3>2, RecordFrame DEF OInv, EntryInv
  <2>4. CASE ~(room /\ e = s) /\ ~ \E g \in gone : entries[g] = e
    <3>1. heap'[e] = heap[e]
      BY <1>8, <2>4
    <3>2. heap[e] # NoEntry /\ heap[e].fate = "tracked" =>
             heap[e].key \in Keys /\ entries[heap[e].key] = e
      BY RecordFrame, ObjectFields DEF OInv, EntryInv
    <3>3. heap[e] # NoEntry /\ heap[e].fate = "tracked" => entries'[heap[e].key] = e
      BY <1>1, <1>4, <2>4, <3>2, SlogAssumption
    <3> QED
      BY <1>10, <2>1, <3>1, <3>3, RecordFrame, EntryFrame DEF OInv
  <2> QED
    BY <2>2, <2>3, <2>4
<1>15. TableBounded'
  <2>1. /\ IsFiniteSet(Tracked \ gone) /\ Cardinality(Tracked \ gone) <= Cardinality(Tracked)
        /\ Cardinality(Tracked \ gone) \in Nat /\ Cardinality(Tracked) \in Nat
        /\ Cardinality(Tracked) <= soMaxKeys /\ soMaxKeys \in Nat
    BY FS_Subset, FS_CardinalityType, SlogAssumption DEF OInv, TableBounded
  <2>2. CASE ~room
    <3>1. Tracked' = Tracked \ gone
      BY <1>2, <1>4, <2>2 DEF Tracked
    <3> QED
      BY <2>1, <3>1 DEF TableBounded
  <2>3. CASE room
    <3>1. Tracked' = (Tracked \ gone) \cup {key[s]} /\ key[s] \notin Tracked
      BY <1>1, <1>2, <1>4, <2>3, RecordFrame, SlogAssumption DEF Tracked, Ids
    <3>2. Cardinality(Tracked \ gone) < soMaxKeys
      BY <2>3 DEF room
    <3>3. /\ IsFiniteSet((Tracked \ gone) \cup {key[s]})
          /\ Cardinality((Tracked \ gone) \cup {key[s]}) = Cardinality(Tracked \ gone) + 1
      BY <2>1, <3>1, FS_AddElement
    <3> QED
      BY <2>1, <3>1, <3>2, <3>3 DEF TableBounded
  <2> QED
    BY <2>2, <2>3
<1> QED
  BY <1>10, <1>11, <1>12, <1>13, <1>14, <1>15, HistoryFrame DEF OInv

\* Every step keeps the invariant.
LEMMA NextOInv == OInv /\ [Next]_svars => OInv'
<1> SUFFICES ASSUME OInv, [Next]_svars PROVE OInv'
  OBVIOUS
<1>1. CASE Tick \/ UNCHANGED svars
  BY <1>1, TickStep
<1>2. CASE Flush
  BY <1>2, FlushStep
<1>3. ASSUME NEW s \in Signals, LogDirect(s) \/ \E k \in Keys : ReadClock(s, k) PROVE OInv'
  BY <1>3, RaiseStep
<1>4. ASSUME NEW s \in Signals, Record(s) PROVE OInv'
  BY <1>4, AllStep, ReopensStep, RepeatsStep, FirstStep DEF Record
<1>5. ASSUME NEW e \in Ids, Fire(e) \/ FlushKey(e) \/ Summary(e) PROVE OInv'
  BY <1>5, FireStep, FlushKeyStep, SummaryStep
<1> QED
  BY <1>1, <1>2, <1>3, <1>4, <1>5 DEF Next

-----------------------------------------------------------------------------
(* The theorems *)

\* The inductive invariant: what the table, the entries and the records that
\* wait for the lock agree on, for any number of signals, keys and windows.
THEOREM ObserverInvariant == Spec => []OInv
BY InitOInv, NextOInv, PTL DEF Spec

\* In any order of records, timers and Flush, each record is logged or counted
\* in one entry of its key, and the one summary of that entry tells it
\* (slog_observer.go:95-190).
THEOREM RecordsAreAccounted == Spec => []EveryRecordAccounted
<1>1. OInv => EveryRecordAccounted
  <2> SUFFICES ASSUME OInv PROVE EveryRecordAccounted
    OBVIOUS
  <2>1. ASSUME NEW e \in Ids PROVE /\ counted[e] # {} => Kept(e)
                                   /\ counted[e] = {} => reported[e] = 0
    <3>1. /\ Cardinality(counted[e]) \in Nat
          /\ Cardinality(counted[e]) = 0 <=> counted[e] = {}
      BY CountedFinite DEF OInv
    <3>2. heap[e] # NoEntry => heap[e].fate \in {"tracked", "closing", "summed", "dropped"}
      BY ObjectFields DEF OInv
    <3> QED
      BY <3>1, <3>2 DEF OInv, EntryInv, Kept
  <2> QED
    BY <2>1 DEF OInv, SignalInv, EveryRecordAccounted
<1> QED
  BY <1>1, ObserverInvariant, PTL

\* The lines of two successive windows of a key are a whole window apart, less only
\* what the record of the first waited for the lock: whatever ended that window,
\* however many keys there are, and in whatever order records, timers and
\* evictions come (slog_observer.go:105-138).
THEOREM WindowsAreQuiet == Spec => QuietWindow
<1>1. OInv /\ [Next]_svars =>
        [\A k \in Keys : Opening(k) /\ stamp[k] >= 0
            => now - opened[k] >= every - Waited(k)]_svars
  <2> SUFFICES ASSUME OInv, Next, NEW k \in Keys, Opening(k), stamp[k] >= 0
               PROVE  now - opened[k] >= every - Waited(k)
    BY DEF svars
  <2>0. TypeOK /\ NoEntry \notin Keys /\ every \in Nat
    BY WindowType, SlogAssumption DEF OInv
  <2>1. PICK s \in logged' \ logged :
            pc[s] = "reading" /\ key[s] = k /\ entries'[k] # NoEntry
    BY DEF Opening
  <2>2. s \in Signals /\ Record(s)
    <3>1. logged' # logged
      BY <2>1
    <3>2. PICK r \in Signals : LogDirect(r) \/ Record(r)
      BY <3>1 DEF Next, ReadClock, Fire, FlushKey, Summary, Flush, Tick
    <3>3. logged' \subseteq logged \cup {r}
      BY <3>2 DEF LogDirect, Record, RecordAll, RecordReopens, RecordRepeats, RecordFirst,
         Log, CountIn
    <3>4. s = r
      BY <2>1, <3>3
    <3> QED
      BY <2>1, <3>2, <3>4 DEF LogDirect, Raised
  <2>3. RecordReopens(s) \/ RecordFirst(s) \/ RecordAll(s)
    BY <2>1, <2>2 DEF Record, RecordRepeats, CountIn
  <2>4. /\ read[s] \in Nat /\ read[s] <= now /\ now \in Nat
        /\ stamp[k] \in Int /\ opened[k] \in Int
    BY <2>2, RecordFrame DEF TypeOK
  <2>5. CASE RecordReopens(s)
    <3>1. heap[entries[k]].first = stamp[k] /\ read[s] - heap[entries[k]].first >= every
      BY <2>1, <2>5 DEF OInv, KeyInv, RecordReopens, Stale
    <3> QED
      BY <2>0, <2>4, <3>1 DEF Waited
  <2>6. CASE RecordFirst(s)
    <3>1. now - stamp[k] >= every
      BY <2>1, <2>6 DEF OInv, KeyInv, RecordFirst
    <3> QED
      BY <2>0, <2>4, <3>1 DEF Waited
  <2>7. CASE RecordAll(s)
    <3>1. entries[k] # NoEntry /\ every = 0
      BY <2>0, <2>1, <2>7 DEF RecordAll
    <3>2. heap[entries[k]].first = stamp[k] /\ heap[entries[k]].first <= now
      BY <2>0, <3>1 DEF OInv, KeyInv, EntryInv, TypeOK
    <3> QED
      BY <2>4, <3>1, <3>2 DEF Waited
  <2> QED
    BY <2>3, <2>5, <2>6, <2>7
<1> QED
  BY <1>1, ObserverInvariant, PTL DEF Spec, QuietWindow

\* Every count has a way to its summary: no order of records, timers and Flush
\* leaves a tracked entry with a count and without a timer.
THEOREM CountsAlwaysHaveWayOut == Spec => []CountsHaveWayOut
<1>1. OInv => CountsHaveWayOut
  <2> SUFFICES ASSUME OInv, NEW e \in Ids, heap[e] # NoEntry, heap[e].suppressed > 0
               PROVE  \/ heap[e].fate = "tracked" /\ heap[e].timer \in {"armed", "fired"}
                      \/ heap[e].fate \in {"closing", "summed"}
    BY DEF CountsHaveWayOut
  <2> QED
    BY ObjectFields DEF OInv, EntryInv
<1> QED
  BY <1>1, ObserverInvariant, PTL

\* However many keys there are, the table never holds more than soMaxKeys: a
\* key for which it has no room is logged untracked (slog_observer.go:97-99).
THEOREM TableStaysBounded == Spec => []TableBounded
<1>1. OInv => TableBounded
  BY DEF OInv
<1> QED
  BY <1>1, ObserverInvariant, PTL
=============================================================================
