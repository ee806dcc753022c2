----------------------- MODULE AttributionHintsProofs -----------------------
(***************************************************************************)
(* Proofs about AttributionHints for every set of clients, configured mode,*)
(* preset, override, TTL and timer lag.                                    *)
(***************************************************************************)
EXTENDS AttributionHints, FiniteSetTheorems, TLAPS

Hint == [mode : Mode \cup {NoMode}, left : Int]

Holders(hs) == {c \in Client : hs[c].mode # NoMode}

\* A client without a hint has no time left either.
NoHintNoTime == \A c \in Client : ~HasHint(c) => hints[c].left = 0

HintsCapped == Cardinality(Holders(hints)) <= MaxHints

\* A hint's time left never falls more than the age of the prune timer below 0.
HintAges == \A c \in Client : HasHint(c) => hints[c].left > tick - PrunePeriod

\* The announced mode can only be out of date while a lapsed hint is in the table.
AnnouncedOrLapsed ==
  lastEmitted # EffectiveMode(hints)
    => \E c \in Client : HasHint(c) /\ hints[c].left <= 0

\* The inductive invariant.
IInv ==
  /\ TypeOK
  /\ NoHintNoTime
  /\ HintsCapped
  /\ HintAges
  /\ AnnouncedOrLapsed
  /\ MostEagerWins
  /\ KillSwitch
  /\ TunedForMode

-----------------------------------------------------------------------------
LEMMA PeriodPositive == PrunePeriod \in Nat \ {0}
BY HintsAssumption DEF PrunePeriod

\* Max of a non-empty set of modes.
LEMMA MaxOfModes ==
  ASSUME NEW S \in SUBSET Mode, S # {}
  PROVE  Max(S) \in S /\ \A y \in S : Max(S) >= y
<1>1. \E x \in S : \A y \in S : x >= y
  <2>1. \A y \in S : y = 0 \/ y = 1 \/ y = 2
    BY DEF Mode, Off, Balanced, Eager
  <2>2. CASE 2 \in S
    <3>1. \A y \in S : 2 >= y
      BY <2>1
    <3>. QED  BY <2>2, <3>1
  <2>3. CASE 2 \notin S /\ 1 \in S
    <3>1. \A y \in S : 1 >= y
      BY <2>1, <2>3
    <3>. QED  BY <2>3, <3>1
  <2>4. CASE 2 \notin S /\ 1 \notin S
    <3>1. \A y \in S : y = 0
      BY <2>1, <2>4
    <3>. QED  BY <3>1
  <2>. QED  BY <2>2, <2>3, <2>4
<1>. QED  BY <1>1 DEF Max

\* effectiveMode(): a mode, off under the kill switch, and otherwise at least as
\* eager as every live hint.
LEMMA EffectiveModeBounds ==
  ASSUME NEW hs \in [Client -> Hint], configMode \in Mode
  PROVE  /\ EffectiveMode(hs) \in Mode
         /\ configMode = Off => EffectiveMode(hs) = Off
         /\ configMode # Off =>
              \A c \in Client : hs[c].mode # NoMode /\ hs[c].left > 0
                                  => EffectiveMode(hs) >= hs[c].mode
<1>. DEFINE live == LiveModes(hs)
<1>1. live \in SUBSET Mode
  BY DEF LiveModes, Hint
<1>2. live # {} => Max(live) \in live /\ \A y \in live : Max(live) >= y
  BY <1>1, MaxOfModes
<1>3. \A c \in Client : hs[c].mode # NoMode /\ hs[c].left > 0 => hs[c].mode \in live
  BY DEF LiveModes
<1>. HIDE DEF live
<1>4. EffectiveMode(hs) = IF configMode = Off THEN Off
                          ELSE IF live # {} THEN Max(live) ELSE configMode
  BY DEF EffectiveMode, live
<1>5. EffectiveMode(hs) \in Mode
  BY <1>1, <1>2, <1>4 DEF Mode
<1>. QED  BY <1>2, <1>3, <1>4, <1>5

\* Pruning keeps live hints as they are and drops the others.
LEMMA PruneBounds ==
  ASSUME NEW hs \in [Client -> Hint],
         \A c \in Client : hs[c].mode = NoMode => hs[c].left = 0
  PROVE  /\ Prune(hs) \in [Client -> Hint]
         /\ \A c \in Client :
              /\ Prune(hs)[c].mode # NoMode => Prune(hs)[c] = hs[c] /\ hs[c].left > 0
              /\ Prune(hs)[c].mode = NoMode => Prune(hs)[c].left = 0
              /\ hs[c].left > 0 => Prune(hs)[c] = hs[c]
         /\ Holders(Prune(hs)) \subseteq Holders(hs)
BY DEF Prune, Hint, NoHint, Holders

\* Dropping hints keeps the table within its cap.
LEMMA FewerHints ==
  ASSUME NEW A \in SUBSET Client, NEW B \in SUBSET A, Cardinality(A) <= MaxHints
  PROVE  Cardinality(B) <= MaxHints
<1>1. IsFiniteSet(A)
  BY FS_Subset, HintsAssumption
<1>2. Cardinality(B) <= Cardinality(A) /\ IsFiniteSet(B)
  BY <1>1, FS_Subset
<1>3. Cardinality(A) \in Nat /\ Cardinality(B) \in Nat
  BY <1>1, <1>2, FS_CardinalityType
<1>. QED  BY <1>2, <1>3, HintsAssumption

\* The safe intervals: positive, and no lower than floor or default.
LEMMA SafeBounds ==
  ASSUME NEW mode \in Mode, NEW o \in Nat
  PROVE  /\ SafeCache(CacheFor(mode, o)) \in Nat \ {0}
         /\ \/ SafeCache(CacheFor(mode, o)) >= CacheFloor
            \/ SafeCache(CacheFor(mode, o)) = CacheDefault
         /\ SafeNetns(NetnsFor(mode, o)) \in Nat \ {0}
         /\ \/ SafeNetns(NetnsFor(mode, o)) >= NetnsFloor
            \/ SafeNetns(NetnsFor(mode, o)) = NetnsDefault
<1>1. CacheFor(mode, o) \in Nat /\ NetnsFor(mode, o) \in Nat
  BY HintsAssumption DEF CacheFor, NetnsFor
<1>. QED  BY <1>1, HintsAssumption DEF SafeCache, SafeNetns, Safe

-----------------------------------------------------------------------------
\* evaluate() on a table within the cap re-establishes everything it announces.
LEMMA EvaluateStep ==
  ASSUME IInv, NEW hs \in [Client -> Hint], Evaluate(hs),
         \A c \in Client : hs[c].mode = NoMode => hs[c].left = 0,
         Cardinality(Holders(hs)) <= MaxHints,
         tick' \in {tick, PrunePeriod}, connected' \subseteq Client,
         UNCHANGED <<configMode, cacheAge, netnsTimer>>
  PROVE  IInv'
<1>. DEFINE kept == Prune(hs)  mode == EffectiveMode(kept)
<1>1. /\ kept \in [Client -> Hint]
      /\ \A c \in Client : /\ kept[c].mode # NoMode => kept[c].left > 0
                           /\ kept[c].mode = NoMode => kept[c].left = 0
      /\ Holders(kept) \subseteq Holders(hs)
  BY PruneBounds
<1>2. TypeOK /\ configMode \in Mode /\ KillSwitch /\ TunedForMode
  BY DEF IInv, TypeOK
<1>3. /\ mode \in Mode
      /\ configMode = Off => mode = Off
      /\ configMode # Off =>
           \A c \in Client : kept[c].mode # NoMode /\ kept[c].left > 0
                               => mode >= kept[c].mode
  BY <1>1, <1>2, EffectiveModeBounds
<1>4. hints' = kept /\ lastEmitted' = mode /\ configMode' = configMode
  BY DEF Evaluate
<1>5. EffectiveMode(hints)' = mode
  BY <1>4 DEF EffectiveMode, LiveModes
<1>6. \/ mode # lastEmitted /\ OnEffectiveEagernessChanged(mode)
      \/ mode = lastEmitted /\ UNCHANGED <<cacheTtl, netnsRefresh, deepActive>>
  BY DEF Evaluate, tuning
<1>. HIDE DEF kept, mode
<1>7. TunedForMode' /\ KillSwitch' /\ deepActive' \in BOOLEAN
      /\ cacheTtl' \in Nat \ {0} /\ (cacheTtl' >= CacheFloor \/ cacheTtl' = CacheDefault)
      /\ netnsRefresh' \in Nat \ {0}
      /\ (netnsRefresh' >= NetnsFloor \/ netnsRefresh' = NetnsDefault)
  <2>1. CASE mode # lastEmitted /\ OnEffectiveEagernessChanged(mode)
    <3>1. configMode # Off
      BY <1>2, <1>3, <2>1 DEF KillSwitch
    <3>2. /\ cacheTtl' = SafeCache(CacheFor(mode, 0))
          /\ netnsRefresh' = SafeNetns(NetnsFor(mode, 0))
          /\ deepActive' = (mode # Off)
      BY <2>1, <3>1 DEF OnEffectiveEagernessChanged, HasResolver
    <3>3. TunedForMode'
      BY <1>4, <3>2 DEF TunedForMode, CacheFor, NetnsFor, SafeCache, SafeNetns, Safe
    <3>4. 0 \in Nat
      OBVIOUS
    <3>. QED  BY <1>3, <1>4, <3>1, <3>2, <3>3, <3>4, SafeBounds DEF KillSwitch
  <2>2. CASE mode = lastEmitted /\ UNCHANGED <<cacheTtl, netnsRefresh, deepActive>>
    <3>1. TunedForMode' /\ KillSwitch'
      BY <1>2, <1>4, <2>2
         DEF TunedForMode, KillSwitch, HasResolver, CacheFor, NetnsFor, SafeCache,
             SafeNetns, Safe
    <3>. QED  BY <1>2, <2>2, <3>1 DEF TypeOK
  <2>. QED  BY <1>6, <2>1, <2>2
<1>8. TypeOK'
  <2>1. tick' \in -MaxLag..PrunePeriod
    BY <1>2, PeriodPositive, HintsAssumption DEF TypeOK
  <2>. QED  BY <1>1, <1>2, <1>3, <1>4, <1>7, <2>1 DEF TypeOK, Hint
<1>9. NoHintNoTime' /\ HintsCapped'
  <2>1. Cardinality(Holders(kept)) <= MaxHints
    BY <1>1, FewerHints DEF Holders
  <2>. QED  BY <1>1, <1>4, <2>1 DEF NoHintNoTime, HintsCapped, HasHint, Holders
<1>10. HintAges'
  <2>. SUFFICES ASSUME NEW c \in Client, kept[c].mode # NoMode
                PROVE  kept[c].left > tick' - PrunePeriod
    BY <1>4 DEF HintAges, HasHint, PrunePeriod
  <2>1. kept[c].left > 0 /\ kept[c].left \in Int
    BY <1>1 DEF Hint
  <2>2. tick' <= PrunePeriod /\ tick' \in Int
    BY <1>8, PeriodPositive DEF TypeOK, PrunePeriod
  <2>. QED  BY <2>1, <2>2, PeriodPositive
<1>11. AnnouncedOrLapsed'
  BY <1>4, <1>5 DEF AnnouncedOrLapsed
<1>12. MostEagerWins'
  BY <1>3, <1>4 DEF MostEagerWins, HasHint
<1>. QED  BY <1>7, <1>8, <1>9, <1>10, <1>11, <1>12 DEF IInv

\* Steps that touch neither the table nor what it announces.
LEMMA OtherStep ==
  ASSUME IInv, UNCHANGED <<configMode, hints, lastEmitted, tuning, tick>>,
         connected' \subseteq Client,
         cacheAge' \in 0..AgeCap, netnsTimer' \in Nat \ {0}
  PROVE  IInv'
<1>1. TypeOK'
  BY DEF IInv, TypeOK, tuning, PrunePeriod
<1>2. NoHintNoTime' /\ HintsCapped' /\ HintAges'
  BY DEF IInv, NoHintNoTime, HintsCapped, HintAges, HasHint, Holders, PrunePeriod
<1>3. AnnouncedOrLapsed' /\ MostEagerWins'
  BY DEF IInv, AnnouncedOrLapsed, MostEagerWins, HasHint, EffectiveMode, LiveModes
<1>4. KillSwitch' /\ TunedForMode'
  BY DEF IInv, KillSwitch, TunedForMode, HasResolver, tuning, CacheFor, NetnsFor,
         SafeCache, SafeNetns, Safe
<1>. QED  BY <1>1, <1>2, <1>3, <1>4 DEF IInv

\* Giving up a hint.
LEMMA DropStep ==
  ASSUME IInv, NEW c \in Client, Evaluate([hints EXCEPT ![c] = NoHint]),
         tick' = tick, connected' \subseteq Client,
         UNCHANGED <<configMode, cacheAge, netnsTimer>>
  PROVE  IInv'
<1>. DEFINE hs == [hints EXCEPT ![c] = NoHint]
<1>0. hints \in [Client -> Hint]
  BY DEF IInv, TypeOK, Hint
<1>1. hs \in [Client -> Hint] /\ Holders(hs) \subseteq Holders(hints)
  BY <1>0 DEF NoHint, Hint, Holders
<1>2. \A d \in Client : hs[d].mode = NoMode => hs[d].left = 0
  BY <1>0 DEF IInv, NoHintNoTime, HasHint, NoHint
<1>3. Cardinality(Holders(hs)) <= MaxHints
  BY <1>1, FewerHints DEF IInv, HintsCapped, Holders
<1>. QED  BY <1>1, <1>2, <1>3, EvaluateStep

\* Taking or renewing a hint.
LEMMA SetHintStep ==
  ASSUME IInv, NEW c \in Client, NEW mode \in Mode,
         HasHint(c) \/ ~TableFull,
         Evaluate([hints EXCEPT ![c] = [mode |-> mode, left |-> HintTtl]]),
         tick' = tick, connected' \subseteq Client,
         UNCHANGED <<configMode, cacheAge, netnsTimer>>
  PROVE  IInv'
<1>. DEFINE h  == [mode |-> mode, left |-> HintTtl]
            hs == [hints EXCEPT ![c] = h]
<1>0. hints \in [Client -> Hint] /\ h \in Hint /\ h.mode # NoMode
  BY HintsAssumption DEF IInv, TypeOK, Hint, Mode, NoMode, Off, Balanced, Eager
<1>1. hs \in [Client -> Hint] /\ Holders(hs) \subseteq Holders(hints) \cup {c}
  BY <1>0 DEF Holders
<1>2. \A d \in Client : hs[d].mode = NoMode => hs[d].left = 0
  BY <1>0 DEF IInv, NoHintNoTime, HasHint
<1>3. Cardinality(Holders(hs)) <= MaxHints
  <2>1. CASE HasHint(c)
    <3>1. Holders(hs) \subseteq Holders(hints)
      BY <1>1, <2>1 DEF Holders, HasHint
    <3>. QED  BY <3>1, FewerHints DEF IInv, HintsCapped, Holders
  <2>2. CASE ~HasHint(c) /\ ~TableFull
    <3>. DEFINE more == Holders(hints) \cup {c}
    <3>1. IsFiniteSet(Holders(hints)) /\ Cardinality(Holders(hints)) \in Nat
      BY HintsAssumption, FS_Subset, FS_CardinalityType DEF Holders
    <3>2. Cardinality(more) = Cardinality(Holders(hints)) + 1
      BY <2>2, <3>1, FS_AddElement DEF Holders, HasHint
    <3>3. Cardinality(Holders(hints)) < MaxHints
      BY <2>2, <3>1, HintsAssumption DEF TableFull, Holders, HasHint
    <3>4. more \in SUBSET Client /\ Cardinality(more) <= MaxHints
      BY <3>1, <3>2, <3>3, HintsAssumption DEF Holders
    <3>. QED  BY <1>1, <3>4, FewerHints
  <2>. QED  BY <2>1, <2>2
<1>. QED  BY <1>1, <1>2, <1>3, EvaluateStep

LEMMA TimePassesStep ==
  ASSUME IInv, TimePasses
  PROVE  IInv'
<1>1. /\ TypeOK /\ hints \in [Client -> Hint]
      /\ UNCHANGED <<configMode, lastEmitted, connected, cacheTtl, netnsRefresh,
                     deepActive, netnsTimer>>
  BY DEF IInv, TypeOK, Hint, TimePasses, tuning
<1>2. /\ hints' \in [Client -> Hint]
      /\ \A c \in Client :
           /\ hints'[c].mode = hints[c].mode
           /\ hints[c].mode # NoMode => hints'[c].left = hints[c].left - 1
           /\ hints[c].mode = NoMode => hints'[c].left = 0
  BY <1>1 DEF TimePasses, HasHint, Hint, NoHint
<1>3. /\ tick \in Int /\ tick' = tick - 1
      /\ tick' \in -MaxLag..PrunePeriod
  BY <1>1, PeriodPositive, HintsAssumption DEF TypeOK, TimePasses
<1>4. TypeOK'
  <2>1. cacheAge \in 0..AgeCap /\ cacheAge' = IF cacheAge < AgeCap THEN cacheAge + 1 ELSE cacheAge
    BY <1>1 DEF TypeOK, TimePasses
  <2>2. cacheAge' \in 0..AgeCap
    BY <2>1, HintsAssumption
  <2>. QED  BY <1>1, <1>2, <1>3, <2>2 DEF TypeOK, Hint, PrunePeriod
<1>5. NoHintNoTime' /\ HintsCapped'
  <2>1. Holders(hints') = Holders(hints)
    BY <1>2 DEF Holders
  <2>. QED  BY <1>2, <2>1 DEF IInv, NoHintNoTime, HintsCapped, HasHint, Holders
<1>6. HintAges'
  <2>. SUFFICES ASSUME NEW c \in Client, hints[c].mode # NoMode
                PROVE  hints'[c].left > tick' - PrunePeriod
    BY <1>2 DEF HintAges, HasHint, PrunePeriod
  <2>1. hints[c].left \in Int /\ hints[c].left > tick - PrunePeriod
    BY <1>1 DEF IInv, HintAges, HasHint, Hint
  <2>. QED  BY <1>2, <1>3, <2>1, PeriodPositive
<1>7. AnnouncedOrLapsed'
  <2>. SUFFICES ASSUME \A c \in Client : hints'[c].mode # NoMode => hints'[c].left > 0
                PROVE  lastEmitted = EffectiveMode(hints) /\ EffectiveMode(hints)' = EffectiveMode(hints)
    BY <1>1, <1>2 DEF AnnouncedOrLapsed, HasHint, Hint
  <2>1. \A c \in Client : hints[c].mode # NoMode => hints[c].left > 0
    BY <1>1, <1>2 DEF Hint
  <2>2. lastEmitted = EffectiveMode(hints)
    <3>1. \A c \in Client : hints[c].left \in Int
      BY <1>1 DEF Hint
    <3>. QED  BY <2>1, <3>1 DEF IInv, AnnouncedOrLapsed, HasHint
  <2>3. LiveModes(hints)' = LiveModes(hints)
    BY <1>2, <2>1 DEF LiveModes
  <2>4. EffectiveMode(hints)' = EffectiveMode(hints)
    BY <1>1, <2>3 DEF EffectiveMode
  <2>. QED  BY <2>2, <2>4
<1>8. MostEagerWins'
  <2>1. \A c \in Client : hints'[c].mode # NoMode /\ hints'[c].left > 0
                            => hints[c].mode # NoMode /\ hints[c].left > 0
    BY <1>1, <1>2 DEF Hint
  <2>. QED  BY <1>1, <1>2, <2>1 DEF IInv, MostEagerWins, HasHint
<1>9. KillSwitch' /\ TunedForMode'
  BY <1>1 DEF IInv, KillSwitch, TunedForMode, HasResolver, CacheFor, NetnsFor,
              SafeCache, SafeNetns, Safe
<1>. QED  BY <1>4, <1>5, <1>6, <1>7, <1>8, <1>9 DEF IInv

LEMMA InitEstablishes == Init => IInv
<1>. SUFFICES ASSUME Init  PROVE IInv
  OBVIOUS
<1>1. /\ configMode \in Mode /\ lastEmitted = configMode
      /\ hints = [c \in Client |-> NoHint]
      /\ cacheTtl = SafeCache(CacheFor(configMode, CacheOverride))
      /\ netnsRefresh = SafeNetns(NetnsFor(configMode, NetnsOverride))
      /\ deepActive = HasResolver
  BY DEF Init
<1>2. TypeOK
  <2>1. /\ cacheTtl \in Nat \ {0} /\ (cacheTtl >= CacheFloor \/ cacheTtl = CacheDefault)
        /\ netnsRefresh \in Nat \ {0}
        /\ (netnsRefresh >= NetnsFloor \/ netnsRefresh = NetnsDefault)
    BY <1>1, SafeBounds, HintsAssumption
  <2>2. tick \in -MaxLag..PrunePeriod /\ cacheAge \in 0..AgeCap
    BY PeriodPositive, HintsAssumption DEF Init
  <2>3. netnsTimer = netnsRefresh /\ connected = Client
    BY DEF Init
  <2>. QED  BY <1>1, <2>1, <2>2, <2>3 DEF TypeOK, NoHint, HasResolver
<1>3. \A c \in Client : hints[c].mode = NoMode /\ hints[c].left = 0
  BY <1>1 DEF NoHint
<1>4. Holders(hints) = {}
  BY <1>3 DEF Holders
<1>5. HintsCapped
  BY <1>4, FS_EmptySet, HintsAssumption DEF HintsCapped
<1>6. EffectiveMode(hints) = configMode
  <2>1. LiveModes(hints) = {}
    BY <1>3 DEF LiveModes
  <2>. QED  BY <2>1 DEF EffectiveMode
<1>7. NoHintNoTime /\ HintAges /\ AnnouncedOrLapsed /\ MostEagerWins
  BY <1>1, <1>3, <1>6
     DEF NoHintNoTime, HintAges, AnnouncedOrLapsed, MostEagerWins, HasHint
<1>8. KillSwitch /\ TunedForMode
  BY <1>1 DEF KillSwitch, TunedForMode, HasResolver
<1>. QED  BY <1>2, <1>5, <1>7, <1>8 DEF IInv

LEMMA NextPreserves == IInv /\ [Next]_vars => IInv'
<1>. SUFFICES ASSUME IInv, [Next]_vars  PROVE IInv'
  OBVIOUS
<1>0. /\ connected \subseteq Client /\ cacheAge \in 0..AgeCap
      /\ netnsTimer \in Nat \ {0} /\ netnsRefresh \in Nat \ {0}
      /\ hints \in [Client -> Hint]
  BY DEF IInv, TypeOK, Hint
<1>1. ASSUME NEW c \in Client, SetDesiredAttributionEagerness(c)  PROVE IInv'
  <2>1. UNCHANGED <<configMode, tick, connected, cacheAge, netnsTimer>>
    BY <1>1 DEF SetDesiredAttributionEagerness
  <2>2. CASE ClearHint(c)
    BY <1>0, <2>1, <2>2, DropStep, OtherStep DEF ClearHint
  <2>3. ASSUME NEW mode \in Mode, SetHint(c, mode)  PROVE IInv'
    BY <1>0, <2>1, <2>3, SetHintStep, OtherStep DEF SetHint
  <2>4. CASE UNCHANGED <<hints, lastEmitted, tuning>>
    BY <1>0, <2>1, <2>4, OtherStep
  <2>. QED  BY <1>1, <2>2, <2>3, <2>4 DEF SetDesiredAttributionEagerness
<1>2. ASSUME NEW c \in Client, NameOwnerChanged(c)  PROVE IInv'
  <2>1. UNCHANGED <<configMode, tick, cacheAge, netnsTimer>> /\ connected' \subseteq Client
    BY <1>0, <1>2 DEF NameOwnerChanged
  <2>2. \/ Evaluate([hints EXCEPT ![c] = NoHint])
        \/ UNCHANGED <<hints, lastEmitted, tuning>>
    BY <1>2 DEF NameOwnerChanged
  <2>. QED  BY <1>0, <2>1, <2>2, DropStep, OtherStep
<1>3. CASE PruneTimer
  <2>1. /\ Evaluate(hints) /\ tick' = PrunePeriod
        /\ UNCHANGED <<configMode, connected, cacheAge, netnsTimer>>
    BY <1>3 DEF PruneTimer
  <2>2. /\ \A c \in Client : hints[c].mode = NoMode => hints[c].left = 0
        /\ Cardinality(Holders(hints)) <= MaxHints
    BY DEF IInv, NoHintNoTime, HasHint, HintsCapped
  <2>. QED  BY <1>0, <2>1, <2>2, EvaluateStep
<1>4. CASE TimePasses
  BY <1>4, TimePassesStep
<1>5. CASE MaybeRefresh
  <2>1. UNCHANGED <<configMode, hints, lastEmitted, tuning, tick>>
        /\ connected' = connected /\ netnsTimer' = netnsTimer /\ cacheAge' = 0
    BY <1>5 DEF MaybeRefresh, table
  <2>2. 0 \in 0..AgeCap
    BY HintsAssumption
  <2>. QED  BY <1>0, <2>1, <2>2, OtherStep
<1>6. CASE NetnsTick
  BY <1>0, <1>6, OtherStep DEF NetnsTick, table
<1>7. CASE UNCHANGED vars
  BY <1>0, <1>7, OtherStep DEF vars, table
<1>. QED  BY <1>1, <1>2, <1>3, <1>4, <1>5, <1>6, <1>7 DEF Next

LEMMA Invariant == Spec => []IInv
BY InitEstablishes, NextPreserves, PTL DEF Spec

-----------------------------------------------------------------------------
\* Types, and no interval below what safeCacheTtlMs() and
\* safeRefreshIntervalMs() guarantee.
THEOREM TypeCorrect == Spec => []TypeOK
<1>1. IInv => TypeOK
  BY DEF IInv
<1>. QED  BY <1>1, Invariant, PTL

\* The announced mode is the effective one up to a freshly lapsed hint.
THEOREM AnnouncedIsCurrent == Spec => []AnnouncedModeCurrent
<1>1. IInv => AnnouncedModeCurrent
  <2>. SUFFICES ASSUME IInv, lastEmitted # EffectiveMode(hints)
                PROVE  \E c \in Client : /\ HasHint(c) /\ hints[c].left <= 0
                                         /\ hints[c].left > -Grace
    BY DEF AnnouncedModeCurrent
  <2>1. PICK c \in Client : HasHint(c) /\ hints[c].left <= 0
    BY DEF IInv, AnnouncedOrLapsed
  <2>2. hints[c].left > tick - PrunePeriod /\ hints[c].left \in Int
    BY <2>1 DEF IInv, HintAges, TypeOK
  <2>3. tick \in Int /\ tick >= -MaxLag
    BY HintsAssumption, PeriodPositive DEF IInv, TypeOK
  <2>4. hints[c].left > -Grace
    BY <2>2, <2>3, HintsAssumption, PeriodPositive DEF Grace
  <2>. QED  BY <2>1, <2>4
<1>. QED  BY <1>1, Invariant, PTL

\* No client lowers the mode below another's live hint.
THEOREM MostEagerHintWins == Spec => []MostEagerWins
<1>1. IInv => MostEagerWins
  BY DEF IInv
<1>. QED  BY <1>1, Invariant, PTL

\* A configured off cannot be overridden at run time.
THEOREM ConfiguredOffHolds == Spec => []KillSwitch
<1>1. IInv => KillSwitch
  BY DEF IInv
<1>. QED  BY <1>1, Invariant, PTL

\* The resolvers and the deep worker follow the announced mode.
THEOREM TuningFollows == Spec => []TunedForMode
<1>1. IInv => TunedForMode
  BY DEF IInv
<1>. QED  BY <1>1, Invariant, PTL

-----------------------------------------------------------------------------
\* A pruned table loses only lapsed leases.
LEMMA PruneDrops ==
  ASSUME NEW hs \in [Client -> Hint],
         \A d \in Client : hs[d].mode = NoMode => hs[d].left = 0
  PROVE  /\ Holders(Prune(hs)) = {d \in Holders(hs) : hs[d].left > 0}
         /\ \A d \in Client :
              Prune(hs)[d].left = IF hs[d].left > 0 THEN hs[d].left ELSE 0
BY DEF Prune, Holders, Hint, NoHint

\* evaluate() after c gave up its hint.
LEMMA DropRefines ==
  ASSUME IInv, NEW c \in Client, Evaluate([hints EXCEPT ![c] = NoHint])
  PROVE  \E S \in SUBSET Leases!Lapsed : Leases!Drop(S \cup {c})
<1>. DEFINE hs == [hints EXCEPT ![c] = NoHint]
            S  == {d \in Holders(hints) : hints[d].left <= 0}
            leases == [d \in Client |-> hints[d].left]
<1>1. hints \in [Client -> Hint] /\ NoHintNoTime
  BY DEF IInv, TypeOK, Hint
<1>2. hs \in [Client -> Hint] /\ \A d \in Client : hs[d].mode = NoMode => hs[d].left = 0
  BY <1>1 DEF NoHint, Hint, NoHintNoTime, HasHint
<1>3. hints' = Prune(hs)
  BY DEF Evaluate
<1>4. /\ Holders(hints') = {d \in Holders(hs) : hs[d].left > 0}
      /\ \A d \in Client : hints'[d].left = IF hs[d].left > 0 THEN hs[d].left ELSE 0
  BY <1>2, <1>3, PruneDrops
<1>5. Holders(hints') = Holders(hints) \ (S \cup {c})
  BY <1>1, <1>4 DEF Holders, NoHint, Hint
<1>6. \A d \in Client : hints'[d].left =
        IF d \in Holders(hints) \ (S \cup {c}) THEN hints[d].left ELSE 0
  <2>. TAKE d \in Client
  <2>1. hints[d].left \in Int /\ (d \notin Holders(hints) => hints[d].left = 0)
    BY <1>1 DEF Hint, NoHintNoTime, HasHint, Holders
  <2>2. CASE d = c
    BY <1>1, <1>4, <2>2 DEF NoHint
  <2>3. CASE d # c
    <3>1. hs[d] = hints[d]
      BY <1>1, <2>3
    <3>. QED  BY <1>4, <2>1, <2>3, <3>1
  <2>. QED  BY <2>2, <2>3
<1>7. S \in SUBSET Leases!Lapsed
  BY DEF Leases!Lapsed, Holders, HasHint
<1>8. Leases!Drop(S \cup {c})
  BY <1>5, <1>6 DEF Leases!Drop, Holders, HasHint
<1>. HIDE DEF S
<1>. QED  BY <1>7, <1>8 DEF Leases!Drop

\* evaluate() after c took or renewed a hint.
LEMMA TakeRefines ==
  ASSUME IInv, NEW c \in Client, NEW mode \in Mode, c \in connected,
         HasHint(c) \/ ~TableFull,
         Evaluate([hints EXCEPT ![c] = [mode |-> mode, left |-> HintTtl]]),
         connected' = connected
  PROVE  Leases!Take(c)
<1>. DEFINE h  == [mode |-> mode, left |-> HintTtl]
            hs == [hints EXCEPT ![c] = h]
            S  == {d \in Holders(hints) : hints[d].left <= 0} \ {c}
<1>1. hints \in [Client -> Hint] /\ NoHintNoTime
  BY DEF IInv, TypeOK, Hint
<1>2. h \in Hint /\ h.mode # NoMode /\ HintTtl > 0 /\ HintTtl \in Int
  BY HintsAssumption DEF Hint, Mode, NoMode, Off, Balanced, Eager
<1>3. hs \in [Client -> Hint] /\ \A d \in Client : hs[d].mode = NoMode => hs[d].left = 0
  BY <1>1, <1>2 DEF NoHintNoTime, HasHint
<1>4. hints' = Prune(hs)
  BY DEF Evaluate
<1>5. /\ Holders(hints') = {d \in Holders(hs) : hs[d].left > 0}
      /\ \A d \in Client : hints'[d].left = IF hs[d].left > 0 THEN hs[d].left ELSE 0
  BY <1>3, <1>4, PruneDrops
<1>6. hs[c] = h /\ \A d \in Client \ {c} : hs[d] = hints[d]
  BY <1>1
<1>7. \A d \in Client : hints[d].left \in Int /\ (d \notin Holders(hints) => hints[d].left = 0)
  BY <1>1 DEF Hint, NoHintNoTime, HasHint, Holders
<1>8. Holders(hints') = (Holders(hints) \ S) \cup {c}
  <2>. SUFFICES ASSUME NEW d \in Client
                PROVE  d \in Holders(hints') <=> d \in (Holders(hints) \ S) \cup {c}
    BY DEF Holders
  <2>1. CASE d = c
    BY <1>2, <1>5, <1>6, <2>1 DEF Holders
  <2>2. CASE d # c
    <3>1. hs[d] = hints[d]
      BY <1>6, <2>2
    <3>. QED  BY <1>5, <1>7, <2>2, <3>1 DEF Holders
  <2>. QED  BY <2>1, <2>2
<1>9. \A d \in Client : hints'[d].left =
        IF d = c THEN HintTtl ELSE IF d \in Holders(hints) \ S THEN hints[d].left ELSE 0
  <2>. TAKE d \in Client
  <2>1. CASE d = c
    BY <1>2, <1>5, <1>6, <2>1
  <2>2. CASE d # c
    <3>1. hs[d] = hints[d]
      BY <1>6, <2>2
    <3>. QED  BY <1>5, <1>7, <2>2, <3>1
  <2>. QED  BY <2>1, <2>2
<1>10. S \in SUBSET Leases!Lapsed
  BY DEF Leases!Lapsed, Holders, HasHint
<1>11. c \in Holders(hints) \/ Cardinality(Holders(hints)) < MaxHints
  <2>1. Cardinality(Holders(hints)) \in Nat
    BY HintsAssumption, FS_Subset, FS_CardinalityType DEF Holders
  <2>. QED  BY <2>1, HintsAssumption DEF TableFull, HasHint, Holders
<1>12. {d \in Client : HasHint(d)} = Holders(hints) /\ {d \in Client : HasHint(d)}' = Holders(hints')
  BY DEF Holders, HasHint
<1>13. [d \in Client |-> hints[d].left]' =
         [d \in Client |-> IF d = c THEN HintTtl
                           ELSE IF d \in Holders(hints) \ S
                                THEN [e \in Client |-> hints[e].left][d] ELSE 0]
  BY <1>9
<1>14. \A T : Leases!Cardinality(T) = Cardinality(T)
  BY DEF Leases!Cardinality, Cardinality
<1>. HIDE DEF S
<1>. QED  BY <1>8, <1>10, <1>11, <1>12, <1>13, <1>14 DEF Leases!Take

\* evaluate() on the table as it is.
LEMMA ExpireRefines ==
  ASSUME IInv, Evaluate(hints), connected' = connected
  PROVE  Leases!Expire
<1>. DEFINE S == {d \in Holders(hints) : hints[d].left <= 0}
<1>1. /\ hints \in [Client -> Hint]
      /\ \A d \in Client : hints[d].mode = NoMode => hints[d].left = 0
  BY DEF IInv, TypeOK, Hint, NoHintNoTime, HasHint
<1>2. hints' = Prune(hints)
  BY DEF Evaluate
<1>3. /\ Holders(hints') = {d \in Holders(hints) : hints[d].left > 0}
      /\ \A d \in Client : hints'[d].left = IF hints[d].left > 0 THEN hints[d].left ELSE 0
  BY <1>1, <1>2, PruneDrops
<1>4. \A d \in Client : hints[d].left \in Int
  BY <1>1 DEF Hint
<1>5. Holders(hints') = Holders(hints) \ S
  BY <1>3, <1>4 DEF Holders
<1>6. \A d \in Client : hints'[d].left = IF d \in Holders(hints) \ S THEN hints[d].left ELSE 0
  BY <1>1, <1>3, <1>4 DEF Holders
<1>7. S \in SUBSET Leases!Lapsed
  BY DEF Leases!Lapsed, Holders, HasHint
<1>8. Leases!Drop(S)
  BY <1>5, <1>6 DEF Leases!Drop, Holders, HasHint
<1>. HIDE DEF S
<1>. QED  BY <1>7, <1>8 DEF Leases!Expire, Leases!Drop

LEMMA TableUnchangedStutters ==
  ASSUME UNCHANGED <<hints, connected>>
  PROVE  UNCHANGED Leases!vars
BY DEF Leases!vars, HasHint

LEMMA StepRefines == IInv /\ [Next]_vars => [Leases!Next]_(Leases!vars)
<1>. SUFFICES ASSUME IInv, [Next]_vars  PROVE [Leases!Next]_(Leases!vars)
  OBVIOUS
<1>0. hints \in [Client -> Hint] /\ NoHintNoTime
  BY DEF IInv, TypeOK, Hint
<1>1. ASSUME NEW c \in Client, SetDesiredAttributionEagerness(c)
      PROVE  [Leases!Next]_(Leases!vars)
  <2>1. c \in connected /\ connected' = connected
    BY <1>1 DEF SetDesiredAttributionEagerness
  <2>2. CASE Evaluate([hints EXCEPT ![c] = NoHint])
    <3>1. Leases!Release(c)
      BY <2>1, <2>2, DropRefines DEF Leases!Release
    <3>. QED  BY <3>1 DEF Leases!Next
  <2>3. ASSUME NEW mode \in Mode, HasHint(c) \/ ~TableFull,
               Evaluate([hints EXCEPT ![c] = [mode |-> mode, left |-> HintTtl]])
        PROVE  [Leases!Next]_(Leases!vars)
    <3>1. Leases!Take(c)
      BY <2>1, <2>3, TakeRefines
    <3>. QED  BY <3>1 DEF Leases!Next
  <2>4. CASE UNCHANGED <<hints, lastEmitted, tuning>>
    BY <2>1, <2>4, TableUnchangedStutters
  <2>5. CASE ClearHint(c)
    BY <2>2, <2>4, <2>5 DEF ClearHint
  <2>6. ASSUME NEW mode \in Mode, SetHint(c, mode)
        PROVE  [Leases!Next]_(Leases!vars)
    BY <2>3, <2>4, <2>6 DEF SetHint
  <2>. QED  BY <1>1, <2>4, <2>5, <2>6 DEF SetDesiredAttributionEagerness
<1>2. ASSUME NEW c \in Client, NameOwnerChanged(c)
      PROVE  [Leases!Next]_(Leases!vars)
  <2>1. c \in connected /\ connected' = connected \ {c}
    BY <1>2 DEF NameOwnerChanged
  <2>2. CASE c \notin Unreported /\ HasHint(c) /\ Evaluate([hints EXCEPT ![c] = NoHint])
    <3>1. Leases!Leave(c)
      BY <2>1, <2>2, DropRefines DEF Leases!Leave
    <3>. QED  BY <3>1 DEF Leases!Next
  <2>3. CASE c \in Unreported /\ hints' = hints
    <3>1. Leases!Leave(c)
      BY <2>1, <2>3 DEF Leases!Leave, HasHint
    <3>. QED  BY <3>1 DEF Leases!Next
  <2>4. CASE ~HasHint(c) /\ hints' = hints
    <3>. DEFINE S == {}
    <3>1. S \in SUBSET Leases!Lapsed
      OBVIOUS
    <3>2. Leases!Drop(S \cup {c})
      BY <1>0, <2>4 DEF Leases!Drop, HasHint, NoHintNoTime
    <3>3. Leases!Leave(c)
      BY <2>1, <3>1, <3>2 DEF Leases!Leave
    <3>. QED  BY <3>3 DEF Leases!Next
  <2>. QED  BY <1>2, <2>2, <2>3, <2>4 DEF NameOwnerChanged
<1>3. CASE PruneTimer
  <2>1. Leases!Expire
    BY <1>3, ExpireRefines DEF PruneTimer
  <2>. QED  BY <2>1 DEF Leases!Next
<1>4. CASE TimePasses
  <2>1. tick > -MaxLag /\ tick \in Int /\ HintAges
    BY <1>4, HintsAssumption, PeriodPositive DEF TimePasses, IInv, TypeOK
  <2>2. \A c \in Client : HasHint(c) => hints[c].left - 1 > -Grace
    <3>. SUFFICES ASSUME NEW c \in Client, HasHint(c)  PROVE hints[c].left - 1 > -Grace
      OBVIOUS
    <3>1. hints[c].left \in Int /\ hints[c].left > tick - PrunePeriod
      BY <1>0, <2>1 DEF HintAges, Hint
    <3>. QED  BY <2>1, <3>1, HintsAssumption, PeriodPositive DEF Grace
  <2>3. \A c \in Client :
          /\ hints'[c].mode = hints[c].mode
          /\ hints'[c].left = IF HasHint(c) THEN hints[c].left - 1 ELSE 0
    BY <1>0, <1>4 DEF TimePasses, HasHint, NoHint, Hint
  <2>4. connected' = connected
    BY <1>4 DEF TimePasses
  <2>5. Leases!Pass
    BY <2>2, <2>3, <2>4 DEF Leases!Pass, HasHint
  <2>. QED  BY <2>5 DEF Leases!Next
<1>5. CASE MaybeRefresh \/ NetnsTick \/ UNCHANGED vars
  <2>1. UNCHANGED <<hints, connected>>
    BY <1>5 DEF MaybeRefresh, NetnsTick, vars, table
  <2>. QED  BY <2>1, TableUnchangedStutters
<1>. QED  BY <1>1, <1>2, <1>3, <1>4, <1>5 DEF Next

\* AttributionHintManager's table, with its late half-TTL timer, implements the
\* lease table: nobody is evicted, and nobody outstays the grace.
THEOREM HintTableIsLeaseTable == Spec => LeaseTable
<1>1. Init => Leases!Init
  BY DEF Init, Leases!Init, HasHint, NoHint
<1>. QED  BY <1>1, Invariant, StepRefines, PTL DEF Spec, LeaseTable, Leases!Spec
=============================================================================
