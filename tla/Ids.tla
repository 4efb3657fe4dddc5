-------------------------------- MODULE Ids --------------------------------
(***************************************************************************)
(* id.go: the generator of event ids of one process, a millisecond and a   *)
(* counter of a few bits (UUIDv7).  The clock it reads may stand still,    *)
(* jump and step back.  The random rest of an id is left out: ids of one   *)
(* process must differ without it.                                         *)
(***************************************************************************)
EXTENDS Naturals

CONSTANTS MaxSeq,    \* the largest counter, 0x0FFF
          MaxSeed,   \* the largest seed, 0x07FF
          MaxClock,  \* bound: the last millisecond of the clock
          MaxMinted  \* bound: ids minted

ASSUME IdsAssumption ==
    /\ MaxSeq \in Nat /\ MaxSeed \in 0 .. MaxSeq
    /\ MaxClock \in Nat \ {0} /\ MaxMinted \in Nat

VARIABLES lastMS, seq,
          minted   \* history: how many ids were minted

idvars == <<lastMS, seq, minted>>

IdsTypeOK == lastMS \in Nat /\ seq \in 0 .. MaxSeq /\ minted \in 0 .. MaxMinted

IdsInit == lastMS = 0 /\ seq = 0 /\ minted = 0

\* Mutant of Mint: the counter is not moved within a millisecond.
MintStill(ms, seed) ==
    /\ minted < MaxMinted
    /\ minted' = minted + 1
    /\ \/ ms > lastMS /\ lastMS' = ms /\ seq' = seed
       \/ ms <= lastMS /\ UNCHANGED <<lastMS, seq>>

\* Mutant of Mint: the generator follows a clock that steps back.
MintFollows(ms, seed) ==
    /\ minted < MaxMinted
    /\ minted' = minted + 1
    /\ \/ ms # lastMS /\ lastMS' = ms /\ seq' = seed
       \/ ms = lastMS /\ seq < MaxSeq /\ seq' = seq + 1 /\ UNCHANGED lastMS
       \/ ms = lastMS /\ seq = MaxSeq /\ lastMS' = lastMS + 1 /\ seq' = seed

\* uuidv7Gen.next: a new millisecond, or count up, or borrow the next one when
\* the counter is exhausted.  The seed is drawn before the lock, ms is read
\* under it.
Mint(ms, seed) ==
    /\ minted < MaxMinted
    /\ minted' = minted + 1
    /\ \/ ms > lastMS /\ lastMS' = ms /\ seq' = seed
       \/ ms <= lastMS /\ seq < MaxSeq /\ seq' = seq + 1 /\ UNCHANGED lastMS
       \/ ms <= lastMS /\ seq = MaxSeq /\ lastMS' = lastMS + 1 /\ seq' = seed

\* The order of ids as strings.
Less(a, b) == a[1] < b[1] \/ (a[1] = b[1] /\ a[2] < b[2])

IdsNext == \E ms \in 1 .. MaxClock, seed \in 0 .. MaxSeed : Mint(ms, seed)

IdsSpec == IdsInit /\ [][IdsNext]_idvars

\* "Ids from the same process are strictly increasing as strings" (id.go:27),
\* within a millisecond, across a rollback of the clock and across the end of
\* the counter.
IdsIncrease == [][minted' # minted => Less(<<lastMS, seq>>, <<lastMS', seq'>>)]_idvars
=============================================================================
