------------------------- MODULE AgentCadenceProofs -------------------------
(***************************************************************************)
(* Proofs about AgentCadence for every number of clients and monitors and  *)
(* every configuration of intervals, windows, TTL and timer lag.           *)
(***************************************************************************)
EXTENDS AgentCadence, FiniteSetTheorems, SequenceTheorems, TLAPS

Hinted(hs) == {c \in Client : hs[c].ms > 0}

\* A hint's time left never falls more than the age of the evaluation timer
\* below zero, because every evaluation discards what has expired.
HintAges == \A c \in Client : HasHint(c) => hints[c].left > tick - TickPeriod

FasterHinted ==
  (0 < currentMs /\ currentMs < ActiveInterval)
    => \E c \in Client : HasHint(c) /\ hints[c].ms <= currentMs

GoneUnhinted == \A c \in Client \ connected : HasHint(c) => c \in Unreported

\* Monitor threads run exactly when the agent has started.
ThreadsStarted ==
  \A m \in Monitor : /\ (thread[m] = "idle") <=> ~Started
                     /\ thread[m] = "idle" => inbox[m] = <<>>

\* The inductive invariant behind the safety properties.
IInv ==
  /\ TypeOK
  /\ HintTableBounded
  /\ HintAges
  /\ PausedOnlyWhenIdle
  /\ FasterHinted
  /\ GoneUnhinted
  /\ ThreadsStarted

-----------------------------------------------------------------------------
\* A non-empty set of naturals has a least element, and Min is it.
LEMMA MinOfNaturals ==
  ASSUME NEW S \in SUBSET Nat, S # {}
  PROVE  Min(S) \in S /\ \A y \in S : Min(S) <= y
<1>1. \E x \in S : \A y \in S : ~(<<y, x>> \in OpToRel(<, Nat))
  BY NatLessThanWellFounded, WFMin
<1>2. PICK x \in S : \A y \in S : ~(<<y, x>> \in OpToRel(<, Nat))
  BY <1>1
<1>3. \A y \in S : x <= y
  <2>. SUFFICES ASSUME NEW y \in S, ~(x <= y)  PROVE FALSE
    OBVIOUS
  <2>1. x \in Nat /\ y \in Nat /\ y < x
    OBVIOUS
  <2>2. <<y, x>> \in OpToRel(<, Nat)
    BY <2>1 DEF OpToRel
  <2>. QED  BY <2>2, <1>2
<1>. QED  BY <1>3 DEF Min

\* effectiveActiveIntervalMs(): at least the floor, at most the (floored) base,
\* and below the base only because some hint asks for it.
LEMMA EffectiveActiveBounds ==
  ASSUME NEW hs \in [Client -> Hint]
  PROVE  /\ EffectiveActive(hs) \in Nat
         /\ EffectiveActive(hs) >= MinInterval
         /\ EffectiveActive(hs) <= AtLeast(ActiveInterval, MinInterval)
         /\ EffectiveActive(hs) < ActiveInterval
              => \E c \in Client : hs[c].ms > 0 /\ hs[c].ms <= EffectiveActive(hs)
<1>. DEFINE S == {ActiveInterval} \cup HintedIntervals(hs)
<1>1. S \in SUBSET Nat /\ S # {}
  BY CadenceAssumption DEF HintedIntervals, Hint
<1>2. Min(S) \in S /\ \A y \in S : Min(S) <= y
  BY <1>1, MinOfNaturals
<1>. HIDE DEF S
<1>3. Min(S) \in Nat /\ Min(S) <= ActiveInterval
  BY <1>1, <1>2 DEF S
<1>4. EffectiveActive(hs) = AtLeast(Min(S), MinInterval)
  BY DEF EffectiveActive, S
<1>5. ASSUME EffectiveActive(hs) < ActiveInterval
      PROVE  \E c \in Client : hs[c].ms > 0 /\ hs[c].ms <= EffectiveActive(hs)
  <2>1. Min(S) <= EffectiveActive(hs) /\ Min(S) # ActiveInterval
    BY <1>3, <1>4, <1>5, CadenceAssumption DEF AtLeast
  <2>2. Min(S) \in HintedIntervals(hs)
    BY <1>2, <2>1 DEF S
  <2>. QED  BY <2>1, <2>2 DEF HintedIntervals
<1>. QED  BY <1>3, <1>4, <1>5, CadenceAssumption DEF AtLeast

\* What evaluate() aims at: a pause only when a pause is due, otherwise an
\* interval no shorter than the active one.
LEMMA TargetBounds ==
  ASSUME NEW hs \in [Client -> Hint], NEW e \in Nat
  PROVE  /\ Target(hs, e) \in Nat
         /\ Target(hs, e) = 0 => PauseReached(e)
         /\ Target(hs, e) # 0 => Target(hs, e) >= EffectiveActive(hs)
<1>1. EffectiveActive(hs) \in Nat /\ EffectiveActive(hs) >= MinInterval
  BY EffectiveActiveBounds
<1>. QED  BY <1>1, CadenceAssumption DEF Target, AtLeast

\* Pruning keeps live hints as they are and drops the others.
LEMMA PruneBounds ==
  ASSUME NEW hs \in [Client -> Hint]
  PROVE  /\ Prune(hs) \in [Client -> Hint]
         /\ \A c \in Client :
              Prune(hs)[c].ms > 0 => Prune(hs)[c] = hs[c] /\ hs[c].left > 0
         /\ Hinted(Prune(hs)) \subseteq Hinted(hs)
BY DEF Prune, Hint, None, Hinted

\* Dropping hints keeps the table within its cap.
LEMMA FewerHints ==
  ASSUME NEW A \in SUBSET Client, NEW B \in SUBSET A, Cardinality(A) <= MaxHints
  PROVE  Cardinality(B) <= MaxHints
<1>1. IsFiniteSet(A)
  BY FS_Subset, CadenceAssumption
<1>2. Cardinality(B) <= Cardinality(A) /\ IsFiniteSet(B)
  BY <1>1, FS_Subset
<1>3. Cardinality(A) \in Nat /\ Cardinality(B) \in Nat
  BY <1>1, <1>2, FS_CardinalityType
<1>. QED  BY <1>2, <1>3, CadenceAssumption

\* The last interval of a queue that grows by s.
LEMMA LastOfConcat ==
  ASSUME NEW q \in Seq(Nat), NEW s \in Seq(Nat), s # <<>>
  PROVE  /\ q \o s # <<>>
         /\ (q \o s)[Len(q \o s)] = s[Len(s)]
<1>1. Len(s) \in Nat \ {0} /\ Len(q) \in Nat
  BY EmptySeq, LenProperties
<1>2. /\ Len(q \o s) = Len(q) + Len(s)
      /\ \A i \in 1 .. Len(q) + Len(s) :
           (q \o s)[i] = IF i <= Len(q) THEN q[i] ELSE s[i - Len(q)]
  BY ConcatProperties
<1>3. q \o s # <<>>
  BY ConcatEqualIffEmpty
<1>. QED  BY <1>1, <1>2, <1>3

-----------------------------------------------------------------------------
\* The effect every table handler has in common: it leaves a pruned table, an
\* interval that table justifies, and posts to the workers.
LEMMA TableHandler ==
  ASSUME IInv, Started,
         NEW hs \in [Client -> Hint], NEW s \in Seq(Nat),
         Cardinality(Hinted(hs)) <= MaxHints,
         \A c \in Client \ connected' : hs[c].ms > 0 => c \in Unreported,
         hints' = Prune(hs),
         currentMs' \in Nat,
         currentMs' = 0 => PauseReached(elapsed'),
         currentMs' # 0 => currentMs' >= EffectiveActive(Prune(hs)),
         Push(s),
         tick' \in {tick, TickPeriod},
         elapsed' \in 0..ElapsedCap,
         connected' \subseteq Client
  PROVE  IInv'
<1>. USE DEF IInv
<1>. DEFINE kept == Prune(hs)
<1>1. /\ kept \in [Client -> Hint]
      /\ \A c \in Client : kept[c].ms > 0 => kept[c] = hs[c] /\ hs[c].left > 0
      /\ Hinted(kept) \subseteq Hinted(hs)
  BY PruneBounds
<1>2. /\ EffectiveActive(kept) \in Nat
      /\ EffectiveActive(kept) >= MinInterval
      /\ EffectiveActive(kept) < ActiveInterval
           => \E c \in Client : kept[c].ms > 0 /\ kept[c].ms <= EffectiveActive(kept)
  BY <1>1, EffectiveActiveBounds
<1>. HIDE DEF kept
<1>3. hints' = kept
  BY DEF kept
<1>4. currentMs' # 0 => currentMs' >= EffectiveActive(kept)
  BY DEF kept
<1>5. TypeOK'
  <2>1. \A m \in Monitor : inbox[m] \in Seq(Nat) /\ inbox[m] \o s \in Seq(Nat)
    BY ConcatProperties DEF TypeOK
  <2>2. inbox' \in [Monitor -> Seq(Nat)]
    BY <2>1 DEF Push
  <2>3. currentMs' \in {-1, 0} \cup {n \in Nat : n >= MinInterval}
    BY <1>2, <1>4, CadenceAssumption
  <2>4. tick' \in -MaxLag..TickPeriod
    BY CadenceAssumption DEF TypeOK
  <2>. QED  BY <1>1, <1>3, <2>2, <2>3, <2>4 DEF TypeOK, Push
<1>6. HintTableBounded'
  <2>1. Cardinality(Hinted(kept)) <= MaxHints
    BY <1>1, FewerHints DEF Hinted
  <2>2. {c \in Client : HasHint(c)}' = Hinted(kept)
    BY <1>3 DEF HasHint, Hinted
  <2>. QED  BY <2>1, <2>2 DEF HintTableBounded
<1>7. HintAges'
  <2>. SUFFICES ASSUME NEW c \in Client, kept[c].ms > 0
                PROVE  kept[c].left > tick' - TickPeriod
    BY <1>3 DEF HintAges, HasHint
  <2>1. kept[c].left > 0 /\ kept[c].left \in Int
    BY <1>1 DEF Hint
  <2>2. tick' <= TickPeriod /\ tick' \in Int
    BY <1>5 DEF TypeOK
  <2>. QED  BY <2>1, <2>2, CadenceAssumption
<1>8. PausedOnlyWhenIdle'
  BY DEF PausedOnlyWhenIdle, PauseReached, Reached
<1>9. FasterHinted'
  <2>. SUFFICES ASSUME 0 < currentMs', currentMs' < ActiveInterval
                PROVE  \E c \in Client : kept[c].ms > 0 /\ kept[c].ms <= currentMs'
    BY <1>3 DEF FasterHinted, HasHint
  <2>1. EffectiveActive(kept) <= currentMs' /\ EffectiveActive(kept) < ActiveInterval
    BY <1>2, <1>4, CadenceAssumption
  <2>2. PICK c \in Client : kept[c].ms > 0 /\ kept[c].ms <= EffectiveActive(kept)
    BY <1>2, <2>1
  <2>3. kept[c].ms \in Nat
    BY <1>1 DEF Hint
  <2>. QED  BY <1>2, <2>1, <2>2, <2>3
<1>10. GoneUnhinted'
  BY <1>1, <1>3 DEF GoneUnhinted, HasHint
<1>11. ThreadsStarted'
  BY DEF ThreadsStarted, Started, Push, TypeOK
<1>. QED  BY <1>5, <1>6, <1>7, <1>8, <1>9, <1>10, <1>11

LEMMA AppliedIsSeq ==
  ASSUME NEW cur, NEW to \in Nat
  PROVE  /\ Applied(cur, to) \in Seq(Nat)
         /\ Applied(cur, to) = <<>> => to = cur
         /\ Applied(cur, to) # <<>> => Applied(cur, to)[Len(Applied(cur, to))] = to
BY DEF Applied

LEMMA NoteActivityStep ==
  ASSUME IInv, Started, NoteActivity, UNCHANGED <<tick, connected>>
  PROVE  IInv'
<1>. DEFINE kept == Prune(hints)  to == EffectiveActive(kept)
<1>1. kept \in [Client -> Hint]
  BY PruneBounds DEF IInv, TypeOK
<1>2. to \in Nat /\ to >= MinInterval
  BY <1>1, EffectiveActiveBounds
<1>3. Applied(currentMs, to) \in Seq(Nat)
  BY <1>2, AppliedIsSeq
<1>4. /\ hints \in [Client -> Hint]
      /\ Cardinality(Hinted(hints)) <= MaxHints
      /\ \A c \in Client \ connected' : hints[c].ms > 0 => c \in Unreported
      /\ connected' \subseteq Client /\ tick' = tick
  BY DEF IInv, TypeOK, HintTableBounded, Hinted, HasHint, GoneUnhinted
<1>5. /\ hints' = kept /\ elapsed' = 0 /\ currentMs' = to
      /\ Push(Applied(currentMs, to))
  BY DEF NoteActivity
<1>6. 0 \in 0..ElapsedCap /\ to # 0
  BY <1>2, CadenceAssumption
<1>. QED  BY <1>2, <1>3, <1>4, <1>5, <1>6, TableHandler

\* evaluate() on a table that meets the cap and forgets the departed.
LEMMA EvaluateStep ==
  ASSUME IInv, Started, NEW hs \in [Client -> Hint], Evaluate(hs),
         Cardinality(Hinted(hs)) <= MaxHints,
         \A c \in Client \ connected' : hs[c].ms > 0 => c \in Unreported,
         tick' \in {tick, TickPeriod}, elapsed' = elapsed,
         connected' \subseteq Client
  PROVE  IInv'
<1>. DEFINE kept == Prune(hs)  to == Target(kept, elapsed)
<1>1. kept \in [Client -> Hint]
  BY PruneBounds
<1>2. elapsed \in 0..ElapsedCap /\ elapsed \in Nat
  BY CadenceAssumption DEF IInv, TypeOK
<1>3. to \in Nat /\ (to = 0 => PauseReached(elapsed))
        /\ (to # 0 => to >= EffectiveActive(kept))
  BY <1>1, <1>2, TargetBounds
<1>4. Applied(currentMs, to) \in Seq(Nat)
  BY <1>3, AppliedIsSeq
<1>5. hints' = kept /\ currentMs' = to /\ Push(Applied(currentMs, to))
  BY DEF Evaluate
<1>. QED  BY <1>2, <1>3, <1>4, <1>5, TableHandler

LEMMA EvaluateThenNoteActivityStep ==
  ASSUME IInv, Started, NEW hs \in [Client -> Hint],
         EvaluateThenNoteActivity(hs),
         Cardinality(Hinted(hs)) <= MaxHints,
         \A c \in Client \ connected' : hs[c].ms > 0 => c \in Unreported,
         UNCHANGED <<tick, connected>>
  PROVE  IInv'
<1>. DEFINE kept == Prune(hs)
            mid  == Target(kept, elapsed)
            to   == EffectiveActive(kept)
            s    == Applied(currentMs, mid) \o Applied(mid, to)
<1>1. kept \in [Client -> Hint]
  BY PruneBounds
<1>2. elapsed \in 0..ElapsedCap /\ elapsed \in Nat /\ connected \subseteq Client
  BY CadenceAssumption DEF IInv, TypeOK
<1>3. mid \in Nat /\ to \in Nat /\ to >= MinInterval
  BY <1>1, <1>2, TargetBounds, EffectiveActiveBounds
<1>4. s \in Seq(Nat)
  BY <1>3, AppliedIsSeq, ConcatProperties
<1>5. hints' = kept /\ elapsed' = 0 /\ currentMs' = to /\ Push(s)
  BY DEF EvaluateThenNoteActivity
<1>6. 0 \in 0..ElapsedCap /\ to # 0 /\ connected' \subseteq Client /\ tick' = tick
  BY <1>2, <1>3, CadenceAssumption
<1>. HIDE DEF s
<1>. QED  BY <1>3, <1>4, <1>5, <1>6, TableHandler

\* An accepted or refused SetDesiredIntervalMs.
LEMMA SetDesiredStep ==
  ASSUME IInv, NEW c \in Client, NEW u \in Request, SetDesiredIntervalMs(c, u)
  PROVE  IInv'
<1>. USE DEF SetDesiredIntervalMs
<1>0. /\ Started /\ c \in connected /\ UNCHANGED <<tick, connected>>
      /\ hints \in [Client -> Hint]
      /\ Cardinality(Hinted(hints)) <= MaxHints
      /\ \A d \in Client \ connected' : hints[d].ms > 0 => d \in Unreported
  BY DEF IInv, TypeOK, HintTableBounded, Hinted, HasHint, GoneUnhinted
<1>1. CASE ClearHint(c, u)
  <2>1. CASE HasHint(c) /\ EvaluateThenNoteActivity([hints EXCEPT ![c] = None])
    <3>. DEFINE hs == [hints EXCEPT ![c] = None]
    <3>1. hs \in [Client -> Hint] /\ Hinted(hs) \subseteq Hinted(hints)
      BY <1>0 DEF None, Hint, Hinted
    <3>2. Cardinality(Hinted(hs)) <= MaxHints
      BY <1>0, <3>1, FewerHints DEF Hinted
    <3>3. \A d \in Client \ connected' : hs[d].ms > 0 => d \in Unreported
      BY <1>0
    <3>. QED  BY <1>0, <2>1, <3>1, <3>2, <3>3, EvaluateThenNoteActivityStep
  <2>2. CASE ~HasHint(c) /\ NoteActivity
    BY <1>0, <2>2, NoteActivityStep
  <2>. QED  BY <1>1, <2>1, <2>2 DEF ClearHint
<1>2. CASE RefuseHint(c, u)
  <2>1. UNCHANGED vars
    BY <1>2 DEF RefuseHint
  <2>. QED
    BY <2>1 DEF vars, IInv, TypeOK, HintTableBounded, HintAges, HasHint, Started,
         PausedOnlyWhenIdle, PauseReached, Reached, FasterHinted, GoneUnhinted,
         ThreadsStarted
<1>3. CASE StoreHint(c, u)
  <2>. DEFINE h  == [ms |-> AtLeast(AsInt(u), MinInterval), left |-> HintTtl]
              hs == [hints EXCEPT ![c] = h]
  <2>1. AsInt(u) > 0 /\ (HasHint(c) \/ ~TableFull) /\ EvaluateThenNoteActivity(hs)
    BY <1>3 DEF StoreHint
  <2>2. AsInt(u) \in Int
    BY CadenceAssumption DEF AsInt
  <2>3. AtLeast(AsInt(u), MinInterval) \in Nat /\ h \in Hint
    BY <2>1, <2>2, CadenceAssumption DEF AtLeast, Hint
  <2>4. hs \in [Client -> Hint] /\ Hinted(hs) \subseteq Hinted(hints) \cup {c}
    BY <1>0, <2>3 DEF Hinted
  <2>5. Cardinality(Hinted(hs)) <= MaxHints
    <3>1. CASE HasHint(c)
      <4>1. Hinted(hs) \subseteq Hinted(hints)
        BY <2>4, <3>1 DEF Hinted, HasHint
      <4>. QED  BY <4>1, <1>0, FewerHints DEF Hinted
    <3>2. CASE ~HasHint(c) /\ ~TableFull
      <4>. DEFINE more == Hinted(hints) \cup {c}
      <4>1. IsFiniteSet(Hinted(hints)) /\ Cardinality(Hinted(hints)) \in Nat
        BY CadenceAssumption, FS_Subset, FS_CardinalityType DEF Hinted
      <4>2. Cardinality(more) = Cardinality(Hinted(hints)) + 1
        BY <3>2, <4>1, FS_AddElement DEF Hinted, HasHint
      <4>3. Cardinality(Hinted(hints)) < MaxHints
        BY <3>2, <4>1, CadenceAssumption DEF TableFull, Hinted, HasHint
      <4>4. more \in SUBSET Client /\ Cardinality(more) <= MaxHints
        BY <4>1, <4>2, <4>3, CadenceAssumption DEF Hinted
      <4>. QED  BY <2>4, <4>4, FewerHints
    <3>. QED  BY <2>1, <3>1, <3>2
  <2>6. \A d \in Client \ connected' : hs[d].ms > 0 => d \in Unreported
    BY <1>0
  <2>. QED  BY <1>0, <2>1, <2>4, <2>5, <2>6, EvaluateThenNoteActivityStep
<1>. QED  BY <1>1, <1>2, <1>3

LEMMA NameOwnerChangedStep ==
  ASSUME IInv, NEW c \in Client, NameOwnerChanged(c)
  PROVE  IInv'
<1>. USE DEF NameOwnerChanged
<1>0. /\ Started /\ connected' = connected \ {c} /\ connected' \subseteq Client
      /\ hints \in [Client -> Hint] /\ elapsed' = elapsed /\ tick' = tick
      /\ Cardinality(Hinted(hints)) <= MaxHints
  BY DEF IInv, TypeOK, HintTableBounded, Hinted, HasHint
<1>1. CASE c \notin Unreported /\ HasHint(c) /\ Evaluate([hints EXCEPT ![c] = None])
  <2>. DEFINE hs == [hints EXCEPT ![c] = None]
  <2>1. hs \in [Client -> Hint] /\ Hinted(hs) \subseteq Hinted(hints)
    BY <1>0 DEF None, Hint, Hinted
  <2>2. Cardinality(Hinted(hs)) <= MaxHints
    BY <1>0, <2>1, FewerHints DEF Hinted
  <2>3. \A d \in Client \ connected' : hs[d].ms > 0 => d \in Unreported
    BY <1>0 DEF IInv, GoneUnhinted, HasHint, None
  <2>. QED  BY <1>0, <1>1, <2>1, <2>2, <2>3, EvaluateStep
<1>2. CASE ~(c \notin Unreported /\ HasHint(c)) /\ UNCHANGED <<hints, currentMs, thread, timer, inbox>>
  <2>1. GoneUnhinted'
    BY <1>0, <1>2 DEF IInv, GoneUnhinted, HasHint
  <2>. QED
    BY <1>0, <1>2, <2>1 DEF IInv, TypeOK, HintTableBounded, HintAges, HasHint,
         Started, PausedOnlyWhenIdle, PauseReached, Reached, FasterHinted,
         ThreadsStarted
<1>. QED  BY <1>1, <1>2

LEMMA TimePassesStep ==
  ASSUME IInv, TimePasses
  PROVE  IInv'
<1>1. /\ TypeOK /\ HintTableBounded /\ HintAges /\ PausedOnlyWhenIdle
      /\ FasterHinted /\ GoneUnhinted /\ ThreadsStarted
      /\ UNCHANGED <<currentMs, connected, thread, timer, inbox>>
  BY DEF IInv, TimePasses
<1>2. \A c \in Client :
        /\ hints'[c] \in Hint
        /\ hints'[c].ms > 0 <=> hints[c].ms > 0
        /\ hints'[c].ms > 0 => /\ hints'[c].ms = hints[c].ms
                               /\ hints'[c].left = hints[c].left - 1
  BY <1>1 DEF TypeOK, Hint, HasHint, None, TimePasses
<1>3. tick \in Int /\ tick' = tick - 1 /\ tick' \in -MaxLag..TickPeriod
  <2>1. tick \in Int /\ tick <= TickPeriod /\ tick > -MaxLag /\ tick' = tick - 1
    BY <1>1, CadenceAssumption DEF TypeOK, TimePasses
  <2>. QED  BY <2>1, CadenceAssumption
<1>4. /\ elapsed \in 0..ElapsedCap /\ elapsed' \in 0..ElapsedCap
      /\ elapsed' >= elapsed
  <2>1. elapsed \in 0..ElapsedCap
    BY <1>1 DEF TypeOK
  <2>2. elapsed' = IF elapsed < ElapsedCap THEN elapsed + 1 ELSE elapsed
    BY DEF TimePasses
  <2>. QED  BY <2>1, <2>2, CadenceAssumption
<1>5. TypeOK'
  <2>1. hints' \in [Client -> Hint]
    BY <1>2 DEF TimePasses
  <2>. QED  BY <1>1, <1>3, <1>4, <2>1 DEF TypeOK
<1>6. HintTableBounded'
  <2>1. {c \in Client : HasHint(c)}' = {c \in Client : HasHint(c)}
    BY <1>2 DEF HasHint
  <2>. QED  BY <1>1, <2>1 DEF HintTableBounded
<1>7. HintAges'
  <2>. SUFFICES ASSUME NEW c \in Client, hints'[c].ms > 0
                PROVE  hints'[c].left > tick' - TickPeriod
    BY DEF HintAges, HasHint
  <2>1. hints[c].left \in Int /\ hints[c].left > tick - TickPeriod
    BY <1>1, <1>2 DEF TypeOK, Hint, HintAges, HasHint
  <2>2. hints'[c].left = hints[c].left - 1
    BY <1>2
  <2>. QED  BY <1>3, <2>1, <2>2, CadenceAssumption
<1>8. PausedOnlyWhenIdle'
  BY <1>1, <1>4, CadenceAssumption DEF PausedOnlyWhenIdle, PauseReached, Reached
<1>9. FasterHinted'
  BY <1>1, <1>2 DEF FasterHinted, HasHint
<1>10. GoneUnhinted'
  BY <1>1, <1>2 DEF GoneUnhinted, HasHint
<1>11. ThreadsStarted'
  BY <1>1 DEF ThreadsStarted, Started
<1>. QED  BY <1>5, <1>6, <1>7, <1>8, <1>9, <1>10, <1>11 DEF IInv

\* The steps of the monitor threads.
LEMMA WorkerStep ==
  ASSUME IInv, NEW m \in Monitor, WorkerStart(m) \/ WorkerSetPollIntervalMs(m)
  PROVE  IInv'
<1>1. UNCHANGED main
  BY DEF WorkerStart, WorkerSetPollIntervalMs
<1>2. TypeOK' /\ ThreadsStarted'
  <2>1. CASE WorkerStart(m)
    BY <1>1, <2>1, CadenceAssumption
    DEF WorkerStart, main, IInv, TypeOK, ThreadsStarted, Started
  <2>2. CASE WorkerSetPollIntervalMs(m)
    <3>1. inbox[m] \in Seq(Nat) /\ inbox[m] # <<>>
      BY <2>2 DEF WorkerSetPollIntervalMs, IInv, TypeOK
    <3>2. Head(inbox[m]) \in Nat /\ Tail(inbox[m]) \in Seq(Nat)
      BY <3>1, HeadTailProperties
    <3>. QED
      BY <1>1, <2>2, <3>2
      DEF WorkerSetPollIntervalMs, main, IInv, TypeOK, ThreadsStarted, Started
  <2>. QED  BY <2>1, <2>2
<1>. QED
  BY <1>1, <1>2 DEF main, IInv, HintTableBounded, HintAges, HasHint,
       PausedOnlyWhenIdle, PauseReached, Reached, FasterHinted, GoneUnhinted

LEMMA AppStartStep ==
  ASSUME IInv, AppStart
  PROVE  IInv'
<1>1. hints \in [Client -> Hint]
  BY DEF IInv, TypeOK
<1>2. /\ EffectiveActive(hints) \in Nat
      /\ EffectiveActive(hints) >= MinInterval
      /\ EffectiveActive(hints) < ActiveInterval
           => \E c \in Client : hints[c].ms > 0 /\ hints[c].ms <= EffectiveActive(hints)
  BY <1>1, EffectiveActiveBounds
<1>3. /\ currentMs' = EffectiveActive(hints) /\ currentMs' # 0 /\ currentMs' # -1
      /\ thread' = [m \in Monitor |-> "starting"]
      /\ UNCHANGED <<hints, elapsed, tick, connected, timer, inbox>>
  BY <1>2, CadenceAssumption DEF AppStart
<1>4. TypeOK'
  BY <1>2, <1>3 DEF IInv, TypeOK
<1>5. FasterHinted'
  BY <1>2, <1>3 DEF FasterHinted, HasHint
<1>. QED
  BY <1>3, <1>4, <1>5 DEF IInv, HintTableBounded, HintAges, HasHint, Started,
       PausedOnlyWhenIdle, GoneUnhinted, ThreadsStarted

LEMMA InitIInv == Init => IInv
<1>. SUFFICES ASSUME Init  PROVE IInv
  OBVIOUS
<1>1. TypeOK
  <2>1. <<>> \in Seq(Nat)
    BY EmptySeq
  <2>. QED  BY <2>1, CadenceAssumption DEF Init, TypeOK, None, Hint
<1>2. HintTableBounded
  <2>1. {c \in Client : HasHint(c)} = {}
    BY DEF Init, HasHint, None
  <2>. QED  BY <2>1, FS_EmptySet, CadenceAssumption DEF HintTableBounded
<1>. QED
  BY <1>1, <1>2 DEF Init, IInv, HintAges, HasHint, None, PausedOnlyWhenIdle,
       FasterHinted, GoneUnhinted, ThreadsStarted, Started

LEMMA NextIInv == IInv /\ [Next]_vars => IInv'
<1>. SUFFICES ASSUME IInv, [Next]_vars  PROVE IInv'
  OBVIOUS
<1>0. /\ hints \in [Client -> Hint] /\ connected \subseteq Client
      /\ Cardinality(Hinted(hints)) <= MaxHints
      /\ \A c \in Client \ connected : hints[c].ms > 0 => c \in Unreported
  BY DEF IInv, TypeOK, HintTableBounded, Hinted, HasHint, GoneUnhinted
<1>1. CASE AppStart
  BY <1>1, AppStartStep
<1>2. ASSUME NEW c \in Client, Call(c)  PROVE IInv'
  BY <1>2, NoteActivityStep DEF Call
<1>3. ASSUME NEW c \in Client, NEW u \in Request, SetDesiredIntervalMs(c, u)
      PROVE  IInv'
  BY <1>3, SetDesiredStep
<1>4. ASSUME NEW c \in Client, NameOwnerChanged(c)  PROVE IInv'
  BY <1>4, NameOwnerChangedStep
<1>5. CASE TimerTick
  <2>1. Started /\ Evaluate(hints) /\ tick' = TickPeriod /\ UNCHANGED <<elapsed, connected>>
    BY <1>5 DEF TimerTick
  <2>. QED  BY <1>0, <2>1, EvaluateStep
<1>6. CASE TimePasses
  BY <1>6, TimePassesStep
<1>7. ASSUME NEW m \in Monitor, WorkerStart(m) \/ WorkerSetPollIntervalMs(m)
      PROVE  IInv'
  BY <1>7, WorkerStep
<1>8. CASE UNCHANGED vars
  BY <1>8 DEF vars, IInv, TypeOK, HintTableBounded, HintAges, HasHint, Started,
       PausedOnlyWhenIdle, PauseReached, Reached, FasterHinted, GoneUnhinted,
       ThreadsStarted
<1>. QED  BY <1>1, <1>2, <1>3, <1>4, <1>5, <1>6, <1>7, <1>8 DEF Next

LEMMA InductiveInvariant == Spec => []IInv
BY InitIInv, NextIInv, PTL DEF Spec

-----------------------------------------------------------------------------
\* Types, and the floor under every interval the agent sets.
THEOREM TypeCorrect == Spec => []TypeOK
<1>1. IInv => TypeOK
  BY DEF IInv
<1>. QED  BY <1>1, InductiveInvariant, PTL

\* setClientHint: the hint table never exceeds kMaxHints.
THEOREM HintTableStaysBounded == Spec => []HintTableBounded
<1>1. IInv => HintTableBounded
  BY DEF IInv
<1>. QED  BY <1>1, InductiveInvariant, PTL

\* evaluate(): the agent pauses only when nobody used it for a whole window.
THEOREM PausesOnlyWhenIdle == Spec => []PausedOnlyWhenIdle
<1>1. IInv => PausedOnlyWhenIdle
  BY DEF IInv
<1>. QED  BY <1>1, InductiveInvariant, PTL

\* effectiveActiveIntervalMs(): a client speeds the agent up only while its
\* hint lives, and the hint dies within one late timer period of its TTL.
THEOREM SpeedNeedsLiveHint == Spec => []FasterOnlyWhileHinted
<1>1. IInv => FasterOnlyWhileHinted
  <2>. SUFFICES ASSUME IInv, NEW c \in Client, HasHint(c)
                PROVE  hints[c].left > -(TickPeriod + MaxLag)
    BY DEF IInv, FasterHinted, FasterOnlyWhileHinted
  <2>1. hints[c].left \in Int /\ hints[c].left > tick - TickPeriod
    BY DEF IInv, TypeOK, Hint, HintAges
  <2>2. tick \in Int /\ tick >= -MaxLag
    BY CadenceAssumption DEF IInv, TypeOK
  <2>. QED  BY <2>1, <2>2, CadenceAssumption
<1>. QED  BY <1>1, InductiveInvariant, PTL

\* onNameOwnerChanged: a departed client leaves no hint behind; without the bus
\* match its hint outlives it by no more than the TTL and one late period.
THEOREM DepartedLeaveNoHint == Spec => []GoneClientsForgotten
<1>1. IInv => GoneClientsForgotten
  <2>. SUFFICES ASSUME IInv, NEW c \in Client \ connected, HasHint(c)
                PROVE  c \in Unreported /\ hints[c].left > -(TickPeriod + MaxLag)
    BY DEF GoneClientsForgotten
  <2>1. hints[c].left \in Int /\ hints[c].left > tick - TickPeriod
    BY DEF IInv, TypeOK, Hint, HintAges
  <2>2. tick \in Int /\ tick >= -MaxLag
    BY CadenceAssumption DEF IInv, TypeOK
  <2>3. c \in Unreported
    BY DEF IInv, GoneUnhinted
  <2>. QED  BY <2>1, <2>2, <2>3, CadenceAssumption
<1>. QED  BY <1>1, InductiveInvariant, PTL

\* noteActivity(): a call that ends an idle spell leaves the agent at the active
\* interval at once.
THEOREM ActivityRestores == Spec => ActivityRestoresActive
<1>. DEFINE A == elapsed' = 0 /\ elapsed > 0
                   => /\ currentMs' = EffectiveActive(hints')
                      /\ currentMs' <= AtLeast(ActiveInterval, MinInterval)
<1>1. IInv /\ IInv' /\ [Next]_vars => [A]_vars
  <2>. SUFFICES ASSUME IInv, IInv', Next, elapsed' = 0, elapsed > 0
                PROVE  /\ currentMs' = EffectiveActive(hints')
                       /\ currentMs' <= AtLeast(ActiveInterval, MinInterval)
    OBVIOUS
  <2>1. currentMs' = EffectiveActive(hints')
    <3>0. elapsed \in 0..ElapsedCap
      BY DEF IInv, TypeOK
    <3>1. ~TimePasses
      BY <3>0, CadenceAssumption DEF TimePasses
    <3>2. elapsed' # elapsed
      BY <3>0
    <3>3. CASE \E c \in Client : Call(c)
      BY <3>3 DEF Call, NoteActivity
    <3>4. CASE \E c \in Client, u \in Request : SetDesiredIntervalMs(c, u)
      BY <3>2, <3>4 DEF SetDesiredIntervalMs, ClearHint, RefuseHint, StoreHint,
           EvaluateThenNoteActivity, NoteActivity, vars
    <3>. QED  BY <3>1, <3>2, <3>3, <3>4 DEF Next, AppStart, NameOwnerChanged,
                TimerTick, WorkerStart, WorkerSetPollIntervalMs, main
  <2>2. hints' \in [Client -> Hint]
    BY DEF IInv, TypeOK
  <2>3. EffectiveActive(hints') <= AtLeast(ActiveInterval, MinInterval)
    BY <2>2, EffectiveActiveBounds
  <2>. QED  BY <2>1, <2>3
<1>. QED  BY <1>1, InductiveInvariant, PTL DEF Spec, ActivityRestoresActive

-----------------------------------------------------------------------------
\* Nobody can leave a hint before the agent has started.
NoEarlyHints == ~Started => \A c \in Client : ~HasHint(c)

\* A handler that posts s and leaves the interval s ends with.
PostsCurrent(s) ==
  /\ s \in Seq(Nat)
  /\ s = <<>> => currentMs' = currentMs
  /\ s # <<>> => currentMs' = s[Len(s)]
  /\ Push(s)

LEMMA PostKeepsUp ==
  ASSUME IInv, PollFollowsCadence, Started, NEW s, PostsCurrent(s)
  PROVE  PollFollowsCadence'
<1>. SUFFICES ASSUME NEW m \in Monitor, thread'[m] \in {"starting", "up"}
              PROVE  Eventual(m)' = currentMs'
  BY DEF PollFollowsCadence
<1>1. /\ inbox[m] \in Seq(Nat) /\ thread[m] \in {"starting", "up"}
      /\ inbox'[m] = inbox[m] \o s /\ UNCHANGED <<thread, timer>>
      /\ Eventual(m) = currentMs
  BY DEF IInv, TypeOK, PostsCurrent, Push, PollFollowsCadence
<1>2. CASE s = <<>>
  <2>1. inbox'[m] = inbox[m]
    BY <1>1, <1>2, ConcatEmptySeq
  <2>. QED  BY <1>1, <1>2, <2>1 DEF Eventual, PostsCurrent
<1>3. CASE s # <<>>
  <2>1. inbox'[m] # <<>> /\ inbox'[m][Len(inbox'[m])] = s[Len(s)]
    BY <1>1, <1>3, LastOfConcat DEF PostsCurrent
  <2>. QED  BY <1>3, <2>1 DEF Eventual, PostsCurrent
<1>. QED  BY <1>2, <1>3

LEMMA TwoAppliedEndRight ==
  ASSUME NEW cur, NEW mid \in Nat, NEW to \in Nat
  PROVE  LET s == Applied(cur, mid) \o Applied(mid, to)
         IN  /\ s \in Seq(Nat)
             /\ s = <<>> => to = cur
             /\ s # <<>> => to = s[Len(s)]
<1>. DEFINE a == Applied(cur, mid)  b == Applied(mid, to)
<1>1. a \in Seq(Nat) /\ (a = <<>> => mid = cur) /\ (a # <<>> => a[Len(a)] = mid)
  BY AppliedIsSeq
<1>2. b \in Seq(Nat) /\ (b = <<>> => to = mid) /\ (b # <<>> => b[Len(b)] = to)
  BY AppliedIsSeq
<1>. HIDE DEF a, b
<1>3. a \o b \in Seq(Nat) /\ (a \o b = <<>> <=> a = <<>> /\ b = <<>>)
  BY <1>1, <1>2, ConcatProperties, ConcatEqualIffEmpty
<1>4. CASE b = <<>>
  <2>1. a \o b = a
    BY <1>1, <1>4, ConcatEmptySeq
  <2>. QED  BY <1>1, <1>2, <1>3, <1>4, <2>1 DEF a, b
<1>5. CASE b # <<>>
  <2>1. (a \o b)[Len(a \o b)] = b[Len(b)]
    BY <1>1, <1>2, <1>5, LastOfConcat
  <2>. QED  BY <1>2, <1>3, <1>5, <2>1 DEF a, b
<1>. QED  BY <1>4, <1>5

LEMMA NoteActivityPosts ==
  ASSUME IInv, NoteActivity
  PROVE  \E s : PostsCurrent(s)
<1>. DEFINE to == EffectiveActive(Prune(hints))
<1>1. to \in Nat
  BY PruneBounds, EffectiveActiveBounds DEF IInv, TypeOK
<1>2. currentMs' = to /\ Push(Applied(currentMs, to))
  BY DEF NoteActivity
<1>. HIDE DEF to
<1>3. PostsCurrent(Applied(currentMs, to))
  BY <1>1, <1>2, AppliedIsSeq DEF PostsCurrent
<1>. QED  BY <1>3

LEMMA EvaluatePosts ==
  ASSUME IInv, NEW hs \in [Client -> Hint], Evaluate(hs)
  PROVE  \E s : PostsCurrent(s)
<1>. DEFINE to == Target(Prune(hs), elapsed)
<1>0. elapsed \in Nat
  BY CadenceAssumption DEF IInv, TypeOK
<1>1. Prune(hs) \in [Client -> Hint] /\ to \in Nat
  BY <1>0, PruneBounds, TargetBounds
<1>2. currentMs' = to /\ Push(Applied(currentMs, to))
  BY DEF Evaluate
<1>. HIDE DEF to
<1>3. PostsCurrent(Applied(currentMs, to))
  BY <1>1, <1>2, AppliedIsSeq DEF PostsCurrent
<1>. QED  BY <1>3

LEMMA EvaluateThenNoteActivityPosts ==
  ASSUME IInv, NEW hs \in [Client -> Hint], EvaluateThenNoteActivity(hs)
  PROVE  \E s : PostsCurrent(s)
<1>. DEFINE mid == Target(Prune(hs), elapsed)
            to  == EffectiveActive(Prune(hs))
<1>0. elapsed \in Nat
  BY CadenceAssumption DEF IInv, TypeOK
<1>1. Prune(hs) \in [Client -> Hint] /\ mid \in Nat /\ to \in Nat
  BY <1>0, PruneBounds, TargetBounds, EffectiveActiveBounds
<1>2. /\ currentMs' = to
      /\ Push(Applied(currentMs, mid) \o Applied(mid, to))
  BY DEF EvaluateThenNoteActivity
<1>. HIDE DEF mid, to
<1>3. PostsCurrent(Applied(currentMs, mid) \o Applied(mid, to))
  BY <1>1, <1>2, TwoAppliedEndRight DEF PostsCurrent
<1>. QED  BY <1>3

\* The workers' own steps keep every running worker on course.
LEMMA WorkersKeepUp ==
  ASSUME IInv, PollFollowsCadence, NEW w \in Monitor,
         WorkerStart(w) \/ WorkerSetPollIntervalMs(w)
  PROVE  PollFollowsCadence'
<1>. SUFFICES ASSUME NEW m \in Monitor, thread'[m] \in {"starting", "up"}
              PROVE  Eventual(m)' = currentMs'
  BY DEF PollFollowsCadence
<1>1. currentMs' = currentMs
  BY DEF WorkerStart, WorkerSetPollIntervalMs, main
<1>2. CASE m # w
  <2>1. thread'[m] = thread[m] /\ timer'[m] = timer[m] /\ inbox'[m] = inbox[m]
    BY <1>2 DEF WorkerStart, WorkerSetPollIntervalMs, IInv, TypeOK
  <2>. QED  BY <1>1, <2>1 DEF PollFollowsCadence, Eventual
<1>3. CASE m = w /\ WorkerStart(w)
  <2>1. thread[m] = "starting" /\ thread'[m] = "up" /\ timer'[m] = DefaultPoll
          /\ inbox' = inbox
    BY <1>3 DEF WorkerStart, IInv, TypeOK
  <2>. QED  BY <1>1, <2>1 DEF PollFollowsCadence, Eventual
<1>4. CASE m = w /\ WorkerSetPollIntervalMs(w)
  <2>. DEFINE q == inbox[m]
  <2>1. /\ thread[m] = "up" /\ thread'[m] = "up" /\ q \in Seq(Nat) /\ q # <<>>
        /\ timer'[m] = Head(q) /\ inbox'[m] = Tail(q) /\ q[Len(q)] = currentMs
    BY <1>4 DEF WorkerSetPollIntervalMs, IInv, TypeOK, PollFollowsCadence, Eventual
  <2>. HIDE DEF q
  <2>2. /\ Tail(q) \in Seq(Nat) /\ Len(q) \in Nat \ {0} /\ Len(Tail(q)) = Len(q) - 1
        /\ \A i \in 1 .. Len(Tail(q)) : Tail(q)[i] = q[i + 1]
    BY <2>1, HeadTailProperties, EmptySeq
  <2>3. CASE Tail(q) = <<>>
    <3>1. Len(q) = 1
      <4>. DEFINE n == Len(q)  k == Len(Tail(q))
      <4>1. n \in Nat /\ k = n - 1
        BY <2>2
      <4>0. Len(<<>>) = 0
        OBVIOUS
      <4>2. k = 0
        BY <2>3, <4>0, Zenon
      <4>. HIDE DEF n, k
      <4>3. n = 1
        BY <4>1, <4>2
      <4>. QED  BY <4>3 DEF n
    <3>2. Head(q) = q[1]
      BY <2>1
    <3>. QED  BY <1>1, <2>1, <2>3, <3>1, <3>2 DEF Eventual
  <2>4. CASE Tail(q) # <<>>
    <3>1. Len(Tail(q)) \in Nat \ {0}
      BY <2>2, <2>4, EmptySeq
    <3>2. Tail(q)[Len(Tail(q))] = q[Len(q)]
      BY <2>2, <3>1
    <3>. QED  BY <1>1, <2>1, <2>4, <3>2 DEF Eventual
  <2>. QED  BY <2>3, <2>4
<1>. QED  BY <1>2, <1>3, <1>4

LEMMA FollowStep ==
  ASSUME AtLeast(ActiveInterval, MinInterval) = DefaultPoll,
         IInv, PollFollowsCadence, NoEarlyHints, [Next]_vars
  PROVE  PollFollowsCadence' /\ NoEarlyHints'
<1>0. hints \in [Client -> Hint]
  BY DEF IInv, TypeOK
<1>1. CASE AppStart
  <2>1. \A c \in Client : ~HasHint(c)
    BY <1>1 DEF AppStart, NoEarlyHints
  <2>2. EffectiveActive(hints) = DefaultPoll
    <3>1. /\ EffectiveActive(hints) \in Nat
          /\ EffectiveActive(hints) >= MinInterval
          /\ EffectiveActive(hints) <= AtLeast(ActiveInterval, MinInterval)
          /\ EffectiveActive(hints) >= ActiveInterval
      BY <1>0, <2>1, EffectiveActiveBounds, CadenceAssumption DEF HasHint
    <3>. QED  BY <3>1, CadenceAssumption DEF AtLeast
  <2>3. \A m \in Monitor : inbox[m] = <<>>
    BY <1>1 DEF AppStart, IInv, ThreadsStarted
  <2>. QED
    BY <1>1, <2>1, <2>2, <2>3 DEF AppStart, PollFollowsCadence, Eventual,
         NoEarlyHints, HasHint
<1>2. CASE Started /\ \E s : PostsCurrent(s)
  <2>1. Started'
    BY <1>2 DEF PostsCurrent, Started
  <2>2. PollFollowsCadence'
    BY <1>2, PostKeepsUp
  <2>. QED  BY <2>1, <2>2 DEF NoEarlyHints
<1>3. ASSUME NEW c \in Client, Call(c)  PROVE Started /\ \E s : PostsCurrent(s)
  BY <1>3, NoteActivityPosts DEF Call
<1>4. CASE UNCHANGED <<hints, currentMs, thread, timer, inbox>>
  BY <1>4 DEF PollFollowsCadence, Eventual, NoEarlyHints, Started, HasHint
<1>5. ASSUME NEW c \in Client, NEW u \in Request, SetDesiredIntervalMs(c, u),
             ~UNCHANGED vars
      PROVE  Started /\ \E s : PostsCurrent(s)
  <2>1. Started /\ (ClearHint(c, u) \/ StoreHint(c, u))
    BY <1>5 DEF SetDesiredIntervalMs, RefuseHint
  <2>2. CASE ClearHint(c, u)
    <3>1. [hints EXCEPT ![c] = None] \in [Client -> Hint]
      BY <1>0 DEF None, Hint
    <3>. QED  BY <2>1, <2>2, <3>1, NoteActivityPosts, EvaluateThenNoteActivityPosts
              DEF ClearHint
  <2>3. CASE StoreHint(c, u)
    <3>. DEFINE h == [ms |-> AtLeast(AsInt(u), MinInterval), left |-> HintTtl]
    <3>1. AsInt(u) > 0 /\ AsInt(u) \in Int
      BY <2>3, CadenceAssumption DEF StoreHint, AsInt
    <3>2. h \in Hint
      BY <3>1, CadenceAssumption DEF AtLeast, Hint
    <3>3. [hints EXCEPT ![c] = h] \in [Client -> Hint]
      BY <1>0, <3>2
    <3>. QED  BY <2>1, <2>3, <3>3, EvaluateThenNoteActivityPosts DEF StoreHint
  <2>. QED  BY <2>1, <2>2, <2>3
<1>6. ASSUME NEW c \in Client, NameOwnerChanged(c),
             ~UNCHANGED <<hints, currentMs, thread, timer, inbox>>
      PROVE  Started /\ \E s : PostsCurrent(s)
  <2>1. Started /\ Evaluate([hints EXCEPT ![c] = None])
    BY <1>6 DEF NameOwnerChanged
  <2>2. [hints EXCEPT ![c] = None] \in [Client -> Hint]
    BY <1>0 DEF None, Hint
  <2>. QED  BY <2>1, <2>2, EvaluatePosts
<1>7. CASE TimerTick
  <2>1. Started /\ Evaluate(hints)
    BY <1>7 DEF TimerTick
  <2>2. \E s : PostsCurrent(s)
    BY <1>0, <2>1, EvaluatePosts
  <2>. QED  BY <1>2, <2>1, <2>2
<1>8. CASE TimePasses
  <2>1. Started /\ UNCHANGED <<currentMs, thread, timer, inbox>>
    BY <1>8 DEF TimePasses
  <2>. QED  BY <2>1 DEF PollFollowsCadence, Eventual, NoEarlyHints, Started
<1>9. ASSUME NEW m \in Monitor, WorkerStart(m) \/ WorkerSetPollIntervalMs(m)
      PROVE  PollFollowsCadence' /\ NoEarlyHints'
  <2>1. PollFollowsCadence'
    BY <1>9, WorkersKeepUp
  <2>2. UNCHANGED main
    BY <1>9 DEF WorkerStart, WorkerSetPollIntervalMs
  <2>. QED  BY <2>1, <2>2 DEF main, NoEarlyHints, Started, HasHint
<1>10. UNCHANGED vars => UNCHANGED <<hints, currentMs, thread, timer, inbox>>
  BY DEF vars
<1>. QED
  BY <1>1, <1>2, <1>3, <1>4, <1>5, <1>6, <1>7, <1>8, <1>9, <1>10 DEF Next

\* applyInterval and setPollIntervalMs: when the configured base interval is
\* the one the workers hard-code, every running worker ends up at the interval
\* the main thread last applied, however the two threads interleave.
THEOREM WorkersFollowCadence ==
  ASSUME AtLeast(ActiveInterval, MinInterval) = DefaultPoll
  PROVE  Spec => []PollFollowsCadence
<1>1. Init => PollFollowsCadence /\ NoEarlyHints
  BY DEF Init, PollFollowsCadence, NoEarlyHints, HasHint, None
<1>2. IInv /\ (PollFollowsCadence /\ NoEarlyHints) /\ [Next]_vars
        => (PollFollowsCadence /\ NoEarlyHints)'
  BY FollowStep
<1>. QED  BY <1>1, <1>2, InductiveInvariant, PTL DEF Spec

-----------------------------------------------------------------------------
\* A client without a hint has no time left either.
NoHintNoTime == \A c \in Client : ~HasHint(c) => hints[c].left = 0

\* The ways a step may change the hint table and the clients on the bus.
Cleans == hints' = Prune(hints) /\ connected' = connected
Clears(c) == /\ c \in connected /\ connected' = connected
             /\ hints' = Prune([hints EXCEPT ![c] = None])
Stores(c, h) == /\ c \in connected /\ connected' = connected
                /\ h \in Hint /\ h.ms > 0 /\ h.left = HintTtl
                /\ HasHint(c) \/ ~TableFull
                /\ hints' = Prune([hints EXCEPT ![c] = h])
Departs(c) == /\ c \in connected /\ connected' = connected \ {c}
              /\ \/ hints' = Prune([hints EXCEPT ![c] = None])
                 \/ ~(c \notin Unreported /\ HasHint(c)) /\ hints' = hints

LEMMA TableSteps ==
  ASSUME IInv, [Next]_vars
  PROVE  \/ UNCHANGED <<hints, connected>>
         \/ Cleans
         \/ \E c \in Client : Clears(c)
         \/ \E c \in Client, h \in Hint : Stores(c, h)
         \/ \E c \in Client : Departs(c)
         \/ TimePasses
<1>1. CASE AppStart
  BY <1>1 DEF AppStart
<1>2. ASSUME NEW c \in Client, Call(c)  PROVE Cleans
  BY <1>2 DEF Call, NoteActivity, Cleans
<1>3. ASSUME NEW c \in Client, NEW u \in Request, SetDesiredIntervalMs(c, u)
      PROVE  \/ UNCHANGED <<hints, connected>> \/ Cleans \/ Clears(c)
             \/ \E h \in Hint : Stores(c, h)
  <2>1. c \in connected /\ connected' = connected
    BY <1>3 DEF SetDesiredIntervalMs
  <2>2. CASE ClearHint(c, u)
    BY <2>1, <2>2 DEF ClearHint, EvaluateThenNoteActivity, NoteActivity, Cleans, Clears
  <2>3. CASE RefuseHint(c, u)
    BY <2>1, <2>3 DEF RefuseHint, vars
  <2>4. CASE StoreHint(c, u)
    <3>. DEFINE h == [ms |-> AtLeast(AsInt(u), MinInterval), left |-> HintTtl]
    <3>1. AsInt(u) > 0 /\ AsInt(u) \in Int
      BY <2>4, CadenceAssumption DEF StoreHint, AsInt
    <3>2. h \in Hint /\ h.ms > 0 /\ h.left = HintTtl
      BY <3>1, CadenceAssumption DEF AtLeast, Hint
    <3>3. (HasHint(c) \/ ~TableFull) /\ hints' = Prune([hints EXCEPT ![c] = h])
      BY <2>4 DEF StoreHint, EvaluateThenNoteActivity
    <3>. HIDE DEF h
    <3>4. Stores(c, h)
      BY <2>1, <3>2, <3>3 DEF Stores
    <3>. QED  BY <3>2, <3>4
  <2>. QED  BY <1>3, <2>2, <2>3, <2>4 DEF SetDesiredIntervalMs
<1>4. ASSUME NEW c \in Client, NameOwnerChanged(c)  PROVE Departs(c)
  BY <1>4 DEF NameOwnerChanged, Evaluate, Departs
<1>5. CASE TimerTick
  BY <1>5 DEF TimerTick, Evaluate, Cleans
<1>6. ASSUME NEW m \in Monitor, WorkerStart(m) \/ WorkerSetPollIntervalMs(m)
      PROVE  UNCHANGED <<hints, connected>>
  BY <1>6 DEF WorkerStart, WorkerSetPollIntervalMs, main
<1>7. CASE UNCHANGED vars
  BY <1>7 DEF vars
<1>. QED  BY <1>1, <1>2, <1>3, <1>4, <1>5, <1>6, <1>7 DEF Next

\* A pruned table loses only lapsed hints.
LEMMA PruneDrops ==
  ASSUME NEW hs \in [Client -> Hint],
         \A d \in Client : hs[d].ms = 0 => hs[d].left = 0
  PROVE  /\ Hinted(Prune(hs)) = {d \in Hinted(hs) : hs[d].left > 0}
         /\ \A d \in Client :
              /\ Prune(hs)[d].left = IF hs[d].left > 0 THEN hs[d].left ELSE 0
              /\ ~(Prune(hs)[d].ms > 0) => Prune(hs)[d].left = 0
BY DEF Prune, Hinted, Hint, None

LEMMA EmptyOrTimed ==
  ASSUME IInv, NoHintNoTime
  PROVE  /\ hints \in [Client -> Hint]
         /\ \A d \in Client :
              /\ hints[d].ms \in Nat /\ hints[d].left \in Int
              /\ hints[d].ms = 0 => hints[d].left = 0
              /\ d \notin Hinted(hints) => hints[d].left = 0
<1>1. hints \in [Client -> Hint]
  BY DEF IInv, TypeOK
<1>. QED  BY <1>1 DEF NoHintNoTime, HasHint, Hint, Hinted

LEMMA CleansRefines ==
  ASSUME IInv, NoHintNoTime, Cleans
  PROVE  Leases!Expire /\ NoHintNoTime'
<1>. DEFINE S == {d \in Hinted(hints) : hints[d].left <= 0}
<1>1. /\ hints \in [Client -> Hint]
      /\ \A d \in Client : hints[d].ms = 0 => hints[d].left = 0
      /\ \A d \in Client : hints[d].left \in Int /\ (d \notin Hinted(hints) => hints[d].left = 0)
  BY EmptyOrTimed
<1>2. hints' = Prune(hints) /\ connected' = connected
  BY DEF Cleans
<1>3. /\ Hinted(hints') = {d \in Hinted(hints) : hints[d].left > 0}
      /\ \A d \in Client :
           /\ hints'[d].left = IF hints[d].left > 0 THEN hints[d].left ELSE 0
           /\ ~(hints'[d].ms > 0) => hints'[d].left = 0
  BY <1>1, <1>2, PruneDrops
<1>4. Hinted(hints') = Hinted(hints) \ S
  BY <1>1, <1>3 DEF Hinted
<1>5. \A d \in Client : hints'[d].left = IF d \in Hinted(hints) \ S THEN hints[d].left ELSE 0
  BY <1>1, <1>3
<1>6. S \in SUBSET Leases!Lapsed
  BY DEF Leases!Lapsed, Hinted, HasHint
<1>7. Leases!Drop(S)
  BY <1>4, <1>5 DEF Leases!Drop, Hinted, HasHint
<1>8. NoHintNoTime'
  BY <1>3 DEF NoHintNoTime, HasHint
<1>. HIDE DEF S
<1>. QED  BY <1>2, <1>6, <1>7, <1>8 DEF Leases!Expire, Leases!Drop

Replaces(c, h) == hints' = Prune([hints EXCEPT ![c] = h])

\* The table when the hint of c is replaced by one with no time left.
LEMMA DropRefines ==
  ASSUME IInv, NoHintNoTime, NEW c \in Client, NEW h \in Hint, h.left = 0,
         Replaces(c, h)
  PROVE  /\ \E S \in SUBSET Leases!Lapsed : Leases!Drop(S \cup {c})
         /\ NoHintNoTime'
<1>. DEFINE hs == [hints EXCEPT ![c] = h]
            S  == {d \in Hinted(hints) : hints[d].left <= 0}
<1>1. /\ hints \in [Client -> Hint]
      /\ \A d \in Client : hints[d].ms = 0 => hints[d].left = 0
      /\ \A d \in Client : hints[d].left \in Int /\ (d \notin Hinted(hints) => hints[d].left = 0)
  BY EmptyOrTimed
<1>2. hs[c] = h /\ \A d \in Client \ {c} : hs[d] = hints[d]
  BY <1>1
<1>3. hs \in [Client -> Hint] /\ \A d \in Client : hs[d].ms = 0 => hs[d].left = 0
  BY <1>1, <1>2
<1>0. hints' = Prune(hs)
  BY DEF Replaces
<1>4. /\ Hinted(hints') = {d \in Hinted(hs) : hs[d].left > 0}
      /\ \A d \in Client :
           /\ hints'[d].left = IF hs[d].left > 0 THEN hs[d].left ELSE 0
           /\ ~(hints'[d].ms > 0) => hints'[d].left = 0
  BY <1>3, <1>0, PruneDrops
<1>5. Hinted(hints') = Hinted(hints) \ (S \cup {c})
  <2>. SUFFICES ASSUME NEW d \in Client
                PROVE  d \in Hinted(hints') <=> d \in Hinted(hints) \ (S \cup {c})
    BY DEF Hinted
  <2>1. CASE d = c
    BY <1>2, <1>4, <2>1 DEF Hinted
  <2>2. CASE d # c
    <3>1. hs[d] = hints[d]
      BY <1>2, <2>2
    <3>. QED  BY <1>1, <1>4, <2>2, <3>1 DEF Hinted
  <2>. QED  BY <2>1, <2>2
<1>6. \A d \in Client : hints'[d].left =
        IF d \in Hinted(hints) \ (S \cup {c}) THEN hints[d].left ELSE 0
  <2>. TAKE d \in Client
  <2>1. CASE d = c
    BY <1>2, <1>4, <2>1
  <2>2. CASE d # c
    <3>1. hs[d] = hints[d]
      BY <1>2, <2>2
    <3>. QED  BY <1>1, <1>4, <2>2, <3>1
  <2>. QED  BY <2>1, <2>2
<1>7. S \in SUBSET Leases!Lapsed
  BY DEF Leases!Lapsed, Hinted, HasHint
<1>8. Leases!Drop(S \cup {c})
  BY <1>5, <1>6 DEF Leases!Drop, Hinted, HasHint
<1>9. NoHintNoTime'
  BY <1>4 DEF NoHintNoTime, HasHint
<1>. HIDE DEF S
<1>. QED  BY <1>7, <1>8, <1>9 DEF Leases!Drop

LEMMA StoresRefines ==
  ASSUME IInv, NoHintNoTime, NEW c \in Client, NEW h \in Hint, Stores(c, h)
  PROVE  (Leases!Take(c) \/ Leases!Release(c)) /\ NoHintNoTime'
<1>. DEFINE hs == [hints EXCEPT ![c] = h]
            S  == {d \in Hinted(hints) : hints[d].left <= 0} \ {c}
<1>0. /\ c \in connected /\ connected' = connected /\ h.ms > 0 /\ h.left = HintTtl
      /\ HasHint(c) \/ ~TableFull
      /\ hints' = Prune(hs)
  BY DEF Stores
<1>1. CASE HintTtl = 0
  BY <1>0, <1>1, DropRefines DEF Leases!Release, Replaces
<1>2. CASE HintTtl # 0
  <2>1. /\ hints \in [Client -> Hint]
        /\ \A d \in Client : hints[d].ms = 0 => hints[d].left = 0
        /\ \A d \in Client : hints[d].left \in Int /\ (d \notin Hinted(hints) => hints[d].left = 0)
    BY EmptyOrTimed
  <2>2. hs[c] = h /\ \A d \in Client \ {c} : hs[d] = hints[d]
    BY <2>1
  <2>3. hs \in [Client -> Hint] /\ \A d \in Client : hs[d].ms = 0 => hs[d].left = 0
    BY <1>0, <2>1, <2>2
  <2>4. /\ Hinted(hints') = {d \in Hinted(hs) : hs[d].left > 0}
        /\ \A d \in Client :
             /\ hints'[d].left = IF hs[d].left > 0 THEN hs[d].left ELSE 0
             /\ ~(hints'[d].ms > 0) => hints'[d].left = 0
    BY <1>0, <2>3, PruneDrops
  <2>5. HintTtl > 0 /\ HintTtl \in Nat
    BY <1>2, CadenceAssumption
  <2>6. Hinted(hints') = (Hinted(hints) \ S) \cup {c}
    <3>. SUFFICES ASSUME NEW d \in Client
                  PROVE  d \in Hinted(hints') <=> d \in (Hinted(hints) \ S) \cup {c}
      BY DEF Hinted
    <3>1. CASE d = c
      BY <1>0, <2>2, <2>4, <2>5, <3>1 DEF Hinted
    <3>2. CASE d # c
      <4>1. hs[d] = hints[d]
        BY <2>2, <3>2
      <4>. QED  BY <2>1, <2>4, <3>2, <4>1 DEF Hinted
    <3>. QED  BY <3>1, <3>2
  <2>7. \A d \in Client : hints'[d].left =
          IF d = c THEN HintTtl ELSE IF d \in Hinted(hints) \ S THEN hints[d].left ELSE 0
    <3>. TAKE d \in Client
    <3>1. CASE d = c
      BY <1>0, <2>2, <2>4, <2>5, <3>1
    <3>2. CASE d # c
      <4>1. hs[d] = hints[d]
        BY <2>2, <3>2
      <4>. QED  BY <2>1, <2>4, <3>2, <4>1
    <3>. QED  BY <3>1, <3>2
  <2>8. S \in SUBSET Leases!Lapsed
    BY DEF Leases!Lapsed, Hinted, HasHint
  <2>9. c \in Hinted(hints) \/ Cardinality(Hinted(hints)) < MaxHints
    <3>1. Cardinality(Hinted(hints)) \in Nat
      BY CadenceAssumption, FS_Subset, FS_CardinalityType DEF Hinted
    <3>. QED  BY <1>0, <3>1, CadenceAssumption DEF TableFull, HasHint, Hinted
  <2>10. {d \in Client : HasHint(d)} = Hinted(hints) /\ {d \in Client : HasHint(d)}' = Hinted(hints')
    BY DEF Hinted, HasHint
  <2>11. [d \in Client |-> hints[d].left]' =
           [d \in Client |-> IF d = c THEN HintTtl
                             ELSE IF d \in Hinted(hints) \ S
                                  THEN [e \in Client |-> hints[e].left][d] ELSE 0]
    BY <2>7
  <2>12. \A T : Leases!Cardinality(T) = Cardinality(T)
    BY DEF Leases!Cardinality, Cardinality
  <2>13. NoHintNoTime'
    BY <2>4 DEF NoHintNoTime, HasHint
  <2>. HIDE DEF S
  <2>14. Leases!Take(c)
    BY <1>0, <2>6, <2>8, <2>9, <2>10, <2>11, <2>12 DEF Leases!Take
  <2>. QED  BY <2>13, <2>14
<1>. QED  BY <1>1, <1>2

LEMMA StepRefines ==
  IInv /\ NoHintNoTime /\ [Next]_vars
    => [Leases!Next]_(Leases!vars) /\ NoHintNoTime'
<1>. SUFFICES ASSUME IInv, NoHintNoTime, [Next]_vars
              PROVE  [Leases!Next]_(Leases!vars) /\ NoHintNoTime'
  OBVIOUS
<1>0. /\ hints \in [Client -> Hint]
      /\ \A d \in Client : hints[d].ms \in Nat /\ hints[d].left \in Int
  BY EmptyOrTimed
<1>1. CASE UNCHANGED <<hints, connected>>
  BY <1>1 DEF Leases!vars, HasHint, NoHintNoTime
<1>2. CASE Cleans
  BY <1>2, CleansRefines DEF Leases!Next
<1>3. ASSUME NEW c \in Client, Clears(c)
      PROVE  [Leases!Next]_(Leases!vars) /\ NoHintNoTime'
  <2>1. None \in Hint /\ None.left = 0
    BY DEF None, Hint
  <2>2. Leases!Release(c) /\ NoHintNoTime'
    BY <1>3, <2>1, DropRefines DEF Clears, Leases!Release, Replaces
  <2>. QED  BY <2>2 DEF Leases!Next
<1>4. ASSUME NEW c \in Client, NEW h \in Hint, Stores(c, h)
      PROVE  [Leases!Next]_(Leases!vars) /\ NoHintNoTime'
  BY <1>4, StoresRefines DEF Leases!Next
<1>5. ASSUME NEW c \in Client, Departs(c)
      PROVE  [Leases!Next]_(Leases!vars) /\ NoHintNoTime'
  <2>1. c \in connected /\ connected' = connected \ {c}
    BY <1>5 DEF Departs
  <2>2. CASE hints' = Prune([hints EXCEPT ![c] = None])
    <3>1. None \in Hint /\ None.left = 0
      BY DEF None, Hint
    <3>2. Leases!Leave(c) /\ NoHintNoTime'
      BY <2>1, <2>2, <3>1, DropRefines DEF Leases!Leave, Replaces
    <3>. QED  BY <3>2 DEF Leases!Next
  <2>3. CASE hints' = hints /\ c \in Unreported
    <3>1. Leases!Leave(c) /\ NoHintNoTime'
      BY <2>1, <2>3 DEF Leases!Leave, NoHintNoTime, HasHint
    <3>. QED  BY <3>1 DEF Leases!Next
  <2>4. CASE hints' = hints /\ ~HasHint(c)
    <3>. DEFINE S == {}
    <3>1. S \in SUBSET Leases!Lapsed
      OBVIOUS
    <3>2. Leases!Drop(S \cup {c})
      BY <1>0, <2>4 DEF Leases!Drop, HasHint, NoHintNoTime
    <3>3. Leases!Leave(c) /\ NoHintNoTime'
      BY <2>1, <2>4, <3>1, <3>2 DEF Leases!Leave, NoHintNoTime, HasHint
    <3>. QED  BY <3>3 DEF Leases!Next
  <2>. QED  BY <1>5, <2>2, <2>3, <2>4 DEF Departs
<1>6. CASE TimePasses
  <2>1. tick > -MaxLag /\ tick \in Int /\ HintAges
    BY <1>6, CadenceAssumption DEF TimePasses, IInv, TypeOK
  <2>2. \A c \in Client : HasHint(c) => hints[c].left - 1 > -(TickPeriod + MaxLag)
    <3>. SUFFICES ASSUME NEW c \in Client, HasHint(c)
                  PROVE  hints[c].left - 1 > -(TickPeriod + MaxLag)
      OBVIOUS
    <3>1. hints[c].left \in Int /\ hints[c].left > tick - TickPeriod
      BY <1>0, <2>1 DEF HintAges
    <3>. QED  BY <2>1, <3>1, CadenceAssumption
  <2>3. \A c \in Client :
          /\ HasHint(c)' <=> HasHint(c)
          /\ hints'[c].left = IF HasHint(c) THEN hints[c].left - 1 ELSE 0
    BY <1>0, <1>6 DEF TimePasses, HasHint, None, Hint
  <2>4. connected' = connected
    BY <1>6 DEF TimePasses
  <2>5. Leases!Pass
    BY <2>2, <2>3, <2>4 DEF Leases!Pass
  <2>6. NoHintNoTime'
    BY <2>3 DEF NoHintNoTime
  <2>. QED  BY <2>5, <2>6 DEF Leases!Next
<1>. QED  BY <1>1, <1>2, <1>3, <1>4, <1>5, <1>6, TableSteps

\* IdleManager's table, with its late one-second timer, implements the lease
\* table: nobody is evicted, and nobody outstays the grace.
THEOREM HintTableIsLeaseTable == Spec => LeaseTable
<1>1. Init => Leases!Init /\ NoHintNoTime
  BY DEF Init, Leases!Init, HasHint, None, NoHintNoTime
<1>. QED
  BY <1>1, InductiveInvariant, StepRefines, PTL DEF Spec, LeaseTable, Leases!Spec
=============================================================================
