-------------------------- MODULE OwnershipProofs --------------------------
(***************************************************************************)
(* Proofs about Ownership, for every set of keys, operations and windows.  *)
(***************************************************************************)
EXTENDS Ownership, TLAPS

-----------------------------------------------------------------------------
(* What a state's tag says of its fields.                                  *)
LEMMA StateFields ==
    ASSUME NEW s \in States
    PROVE  /\ s.tag = "Starting" =>
                 s.kind \in Kinds /\ s.op \in Ops /\ s.gen \in Nat
           /\ s.tag = "Live" => s.owner \in Owners /\ s.gen \in Nat
           /\ s.tag = "Handoff" =>
                 /\ s.prior \in OptEra /\ s.to \in Kinds
                 /\ s.op \in Ops /\ s.gen \in Nat
           /\ s.tag = "Stopping" =>
                 /\ s.owner \in OptOwner /\ s.priorGen \in OptGen
                 /\ s.op \in Ops /\ s.gen \in Nat
           /\ s.tag = "Fenced" =>
                 /\ s.prior \in OptEra /\ s.reason \in FenceReasons
                 /\ s.op \in Ops /\ s.gen \in Nat
           /\ s.tag = "Aliased" => s.to \in Keys /\ s.gen \in Nat
  BY DEF States

(* The states the actions build are states.                                *)
LEMMA BuiltStates ==
    ASSUME NEW gen \in Nat
    PROVE  /\ Vacant \in States
           /\ \A kind \in Kinds, op \in Ops :
                 StartingState(kind, op, gen) \in States
           /\ \A owner \in Owners : LiveState(owner, gen) \in States
           /\ \A prior \in OptEra, to \in Kinds, op \in Ops :
                 HandoffState(prior, to, op, gen) \in States
           /\ \A owner \in OptOwner, priorGen \in OptGen, op \in Ops :
                 StoppingState(owner, priorGen, op, gen) \in States
           /\ \A prior \in OptEra, reason \in FenceReasons, op \in Ops :
                 FencedState(prior, reason, op, gen) \in States
           /\ \A to \in Keys : AliasedState(to, gen) \in States
  BY DEF States, Vacant, StartingState, LiveState, HandoffState,
         StoppingState, FencedState, AliasedState

LEMMA RecordTyped ==
    ASSUME RegistryTypeOK, NEW k \in Keys
    PROVE  /\ RecordOf(k) \in Records
           /\ HasRecord(k) => reg[k] \in Records
  <1>1. EmptyRecord \in Records
    BY BuiltStates DEF EmptyRecord, Records, OptOwner
  <1>2. HasRecord(k) => reg[k] \in Records
    BY DEF RegistryTypeOK, HasRecord
  <1> QED  BY <1>1, <1>2 DEF RecordOf

-----------------------------------------------------------------------------
(* The shapes of a step.                                                   *)

(* One key gets a record; it neither becomes nor ceases to be Aliased, and *)
(* its counter does not fall.                                              *)
PlainStep ==
    \E k \in Keys, r \in Records :
        /\ reg' = [reg EXCEPT ![k] = r]
        /\ \/ r.state.tag # "Aliased" /\ ~Is(k, "Aliased")
           \/ HasRecord(k) /\ r.state = reg[k].state
        /\ RecordOf(k).generation <= r.generation

(* A begin advances the counter of a key that is not Aliased.              *)
ClaimStep(k) ==
    /\ ~Is(k, "Aliased")
    /\ reg'[k] \in Records
    /\ reg'[k].generation = RecordOf(k).generation + 1

(* One key becomes the forwarding record of another that is not Aliased.   *)
ForwardStep ==
    \E from, to \in Keys, a, r \in Records :
        /\ from # to
        /\ a.state.tag = "Aliased" /\ a.state.to = to
        /\ r.state.tag # "Aliased"
        /\ ~Is(from, "Aliased") /\ ~Is(to, "Aliased")
        /\ RecordOf(to).generation <= r.generation
        /\ reg' = [reg EXCEPT ![from] = a, ![to] = r]

(* A key without a record becomes the forwarding record of one that has    *)
(* one.                                                                    *)
PlaceholderStep ==
    \E from, to \in Keys, a \in Records :
        /\ ~HasRecord(from) /\ HasRecord(to)
        /\ a.state.tag = "Aliased" /\ a.state.to = to
        /\ reg' = [reg EXCEPT ![from] = a]

(* Each field may be replaced by one of its type.                          *)
LEMMA FieldUpdates ==
    ASSUME NEW r \in Records
    PROVE  /\ \A n \in Nat :
                 /\ [r EXCEPT !.generation = n] \in Records
                 /\ [r EXCEPT !.generation = n].generation = n
                 /\ [r EXCEPT !.generation = n].state = r.state
           /\ \A s \in States :
                 /\ [r EXCEPT !.state = s] \in Records
                 /\ [r EXCEPT !.state = s].generation = r.generation
                 /\ [r EXCEPT !.state = s].state = s
           /\ \A o \in Ops \cup {None} :
                 /\ [r EXCEPT !.settle = o] \in Records
                 /\ [r EXCEPT !.settle = o].generation = r.generation
                 /\ [r EXCEPT !.settle = o].state = r.state
           /\ \A o \in Ops \cup {None} :
                 /\ [r EXCEPT !.stopSettled = o] \in Records
                 /\ [r EXCEPT !.stopSettled = o].generation = r.generation
                 /\ [r EXCEPT !.stopSettled = o].state = r.state
           /\ \A o \in OptOwner :
                 /\ [r EXCEPT !.partial = o] \in Records
                 /\ [r EXCEPT !.partial = o].generation = r.generation
                 /\ [r EXCEPT !.partial = o].state = r.state
           /\ \A n \in Nat :
                 /\ [r EXCEPT !.inFlight = n] \in Records
                 /\ [r EXCEPT !.inFlight = n].generation = r.generation
                 /\ [r EXCEPT !.inFlight = n].state = r.state
           /\ \A ws \in SUBSET Windows :
                 /\ [r EXCEPT !.armed = ws] \in Records
                 /\ [r EXCEPT !.armed = ws].generation = r.generation
                 /\ [r EXCEPT !.armed = ws].state = r.state
  BY DEF Records

LEMMA PlainByState ==
    ASSUME RegistryTypeOK, NEW k \in Keys, HasRecord(k),
           NEW s \in States, s.tag # "Aliased", SetState(k, s),
           ~Is(k, "Aliased")
    PROVE  PlainStep
  <1> DEFINE r == [reg[k] EXCEPT !.state = s]
  <1>1. reg[k] \in Records  BY RecordTyped
  <1>2. r \in Records /\ r.state = s /\ r.generation = reg[k].generation
    BY <1>1 DEF Records
  <1>3. reg' = [reg EXCEPT ![k] = r]  BY DEF SetState
  <1>4. RecordOf(k).generation <= r.generation
    BY <1>1, <1>2 DEF RecordOf, HasRecord, Records
  <1> QED  BY <1>2, <1>3, <1>4 DEF PlainStep

(* A step that replaces the record of k by r.                              *)
LEMMA PlainByRecord ==
    ASSUME RegistryTypeOK, NEW k \in Keys, NEW r \in Records,
           reg' = [reg EXCEPT ![k] = r],
           \/ r.state.tag # "Aliased" /\ ~Is(k, "Aliased")
           \/ HasRecord(k) /\ r.state = reg[k].state,
           RecordOf(k).generation <= r.generation
    PROVE  PlainStep
  BY DEF PlainStep

-----------------------------------------------------------------------------
(* Every registry action that forwards nothing is a plain step.            *)

LEMMA CommitLivePlain ==
    ASSUME RegistryTypeOK, NEW k \in Keys, NEW op \in Ops, NEW gen \in Nat, NEW owner \in Owners,
           CommitLive(k, op, gen, owner)
    PROVE  PlainStep
  <1> DEFINE s == reg[k].state
             new == LiveState(owner, gen)
  <1>1. reg[k] \in Records /\ s \in States  BY RecordTyped DEF CommitLive, Holds, Is, Records
  <1>2. new \in States /\ new.tag # "Aliased"
    BY <1>1, StateFields, BuiltStates DEF LiveState
  <1>3. HasRecord(k) /\ SetState(k, new) /\ ~Is(k, "Aliased")
    BY DEF CommitLive, Holds, Is
  <1> QED  BY <1>2, <1>3, PlainByState

LEMMA FailStartPlain ==
    ASSUME RegistryTypeOK, NEW k \in Keys, NEW op \in Ops, NEW gen \in Nat,
           FailStart(k, op, gen)
    PROVE  PlainStep
  <1> DEFINE s == reg[k].state
             new == Vacant
  <1>1. reg[k] \in Records /\ s \in States  BY RecordTyped DEF FailStart, Holds, Is, Records
  <1>2. new \in States /\ new.tag # "Aliased"
    BY <1>1, StateFields, BuiltStates DEF Vacant
  <1>3. HasRecord(k) /\ SetState(k, new) /\ ~Is(k, "Aliased")
    BY DEF FailStart, Holds, Is
  <1> QED  BY <1>2, <1>3, PlainByState

LEMMA CommitStopPlain ==
    ASSUME RegistryTypeOK, NEW k \in Keys, NEW op \in Ops, NEW gen \in Nat,
           CommitStop(k, op, gen)
    PROVE  PlainStep
  <1> DEFINE s == reg[k].state
             new == Vacant
  <1>1. reg[k] \in Records /\ s \in States  BY RecordTyped DEF CommitStop, Holds, Is, Records
  <1>2. new \in States /\ new.tag # "Aliased"
    BY <1>1, StateFields, BuiltStates DEF Vacant
  <1>3. HasRecord(k) /\ SetState(k, new) /\ ~Is(k, "Aliased")
    BY DEF CommitStop, Holds, Is
  <1> QED  BY <1>2, <1>3, PlainByState

LEMMA AbortStopPlain ==
    ASSUME RegistryTypeOK, NEW k \in Keys, NEW op \in Ops, NEW gen \in Nat,
           AbortStop(k, op, gen)
    PROVE  PlainStep
  <1> DEFINE s == reg[k].state
             new == LiveState(s.owner, s.priorGen)
  <1>1. reg[k] \in Records /\ s \in States  BY RecordTyped DEF AbortStop, Holds, Is, Records
  <1>2. new \in States /\ new.tag # "Aliased"
    BY <1>1, StateFields, BuiltStates DEF LiveState, AbortStop, Holds, Is, OptOwner, OptGen
  <1>3. HasRecord(k) /\ SetState(k, new) /\ ~Is(k, "Aliased")
    BY DEF AbortStop, Holds, Is
  <1> QED  BY <1>2, <1>3, PlainByState

LEMMA ReleasePlain ==
    ASSUME RegistryTypeOK, NEW k \in Keys, NEW owner \in Owners, NEW gen \in Nat,
           Release(k, owner, gen)
    PROVE  PlainStep
  <1> DEFINE s == reg[k].state
             new == Vacant
  <1>1. reg[k] \in Records /\ s \in States  BY RecordTyped DEF Release, LiveMatches, Is, Records
  <1>2. new \in States /\ new.tag # "Aliased"
    BY <1>1, StateFields, BuiltStates DEF Vacant
  <1>3. HasRecord(k) /\ SetState(k, new) /\ ~Is(k, "Aliased")
    BY DEF Release, LiveMatches, Is
  <1> QED  BY <1>2, <1>3, PlainByState

LEMMA ForceReleasePlain ==
    ASSUME RegistryTypeOK, NEW k \in Keys, NEW op \in Ops, NEW gen \in Nat, NEW owner \in OptOwner,
           ForceReleaseForConfirmedKill(k, op, gen, owner)
    PROVE  PlainStep
  <1> DEFINE s == reg[k].state
             new == Vacant
  <1>1. reg[k] \in Records /\ s \in States  BY RecordTyped DEF ForceReleaseForConfirmedKill, Holds, LiveMatches, Is, Records
  <1>2. new \in States /\ new.tag # "Aliased"
    BY <1>1, StateFields, BuiltStates DEF Vacant
  <1>3. HasRecord(k) /\ SetState(k, new) /\ ~Is(k, "Aliased")
    BY DEF ForceReleaseForConfirmedKill, Holds, LiveMatches, Is
  <1> QED  BY <1>2, <1>3, PlainByState

LEMMA ReleaseFencedPlain ==
    ASSUME RegistryTypeOK, NEW k \in Keys, NEW op \in Ops, NEW gen \in Nat,
           ReleaseFenced(k, op, gen)
    PROVE  PlainStep
  <1> DEFINE s == reg[k].state
             new == Vacant
  <1>1. reg[k] \in Records /\ s \in States  BY RecordTyped DEF ReleaseFenced, Holds, Is, Records
  <1>2. new \in States /\ new.tag # "Aliased"
    BY <1>1, StateFields, BuiltStates DEF Vacant
  <1>3. HasRecord(k) /\ SetState(k, new) /\ ~Is(k, "Aliased")
    BY DEF ReleaseFenced, Holds, Is
  <1> QED  BY <1>2, <1>3, PlainByState


LEMMA FailHandoffPlain ==
    ASSUME RegistryTypeOK, NEW k \in Keys, NEW op \in Ops, NEW gen \in Nat, NEW alive \in BOOLEAN,
           FailHandoff(k, op, gen, alive)
    PROVE  PlainStep
  <1> DEFINE s == reg[k].state
             new == IF s.prior # None /\ alive
                      THEN LiveState(s.prior.owner, reg[k].generation)
                      ELSE Vacant
  <1>1. reg[k] \in Records /\ s \in States  BY RecordTyped DEF FailHandoff, Holds, Is, Records
  <1>2. new \in States /\ new.tag # "Aliased"
    BY <1>1, StateFields, BuiltStates DEF LiveState, FailHandoff, Holds, Is, OptEra, Eras, Records, Vacant
  <1>3. HasRecord(k) /\ SetState(k, new) /\ ~Is(k, "Aliased")
    BY DEF FailHandoff, Holds, Is
  <1> QED  BY <1>2, <1>3, PlainByState

LEMMA FenceHandoffPlain ==
    ASSUME RegistryTypeOK, NEW k \in Keys, NEW op \in Ops, NEW gen \in Nat, NEW reason \in FenceReasons, NEW unconfirmed \in OptEra,
           FenceUnconfirmedHandoff(k, op, gen, reason, unconfirmed)
    PROVE  PlainStep
  <1> DEFINE s == reg[k].state
             new == FencedState(IF unconfirmed # None THEN unconfirmed
                                              ELSE s.prior, reason, op, gen)
  <1>1. reg[k] \in Records /\ s \in States  BY RecordTyped DEF FenceUnconfirmedHandoff, Holds, Is, Records
  <1>2. new \in States /\ new.tag # "Aliased"
    BY <1>1, StateFields, BuiltStates DEF FencedState, FenceUnconfirmedHandoff, Holds, Is
  <1>3. HasRecord(k) /\ SetState(k, new) /\ ~Is(k, "Aliased")
    BY DEF FenceUnconfirmedHandoff, Holds, Is
  <1> QED  BY <1>2, <1>3, PlainByState

LEMMA FenceStopPlain ==
    ASSUME RegistryTypeOK, NEW k \in Keys, NEW op \in Ops, NEW gen \in Nat,
           NEW reason \in FenceReasons,
           FenceUnconfirmedStop(k, op, gen, reason)
    PROVE  PlainStep
  <1> DEFINE s == reg[k].state
             era == StoppedEra(s, gen)
             new == FencedState(era, reason, op, gen)
  <1>1. s \in States /\ s.tag = "Stopping"
    BY RecordTyped DEF FenceUnconfirmedStop, Holds, Is, Records
  <1>2. s.owner \in OptOwner /\ s.priorGen \in OptGen  BY <1>1, StateFields
  <1>3. era \in OptEra
    <2>1. CASE s.owner = None  BY <2>1 DEF StoppedEra, OptEra
    <2>2. CASE s.owner # None
      <3>1. s.owner \in Owners  BY <1>2, <2>2 DEF OptOwner
      <3>2. (IF s.priorGen # None THEN s.priorGen
             ELSE IF gen = 0 THEN 0 ELSE gen - 1) \in Nat
        BY <1>2 DEF OptGen
      <3> QED  BY <2>2, <3>1, <3>2 DEF StoppedEra, OptEra, Eras
    <2> QED  BY <2>1, <2>2
  <1>4. new \in States /\ new.tag # "Aliased"
    BY <1>3, BuiltStates DEF FencedState
  <1>5. HasRecord(k) /\ SetState(k, new) /\ ~Is(k, "Aliased")
    BY DEF FenceUnconfirmedStop, Holds, Is
  <1> QED  BY <1>4, <1>5, PlainByState

LEMMA FenceLivePlain ==
    ASSUME RegistryTypeOK, NEW k \in Keys, NEW gen \in Nat, NEW owner \in Owners, NEW reason \in FenceReasons,
           FenceUnconfirmedLive(k, gen, owner, reason)
    PROVE  PlainStep
  <1> DEFINE s == reg[k].state
             new == FencedState([owner |-> owner, gen |-> gen], reason,
                                owner.op, gen)
  <1>1. reg[k] \in Records /\ s \in States  BY RecordTyped DEF FenceUnconfirmedLive, LiveMatches, Is, Records
  <1>2. new \in States /\ new.tag # "Aliased"
    BY <1>1, StateFields, BuiltStates DEF FencedState, OptEra, Owners, Eras
  <1>3. HasRecord(k) /\ SetState(k, new) /\ ~Is(k, "Aliased")
    BY DEF FenceUnconfirmedLive, LiveMatches, Is
  <1> QED  BY <1>2, <1>3, PlainByState

LEMMA RecoverStoppingPlain ==
    ASSUME RegistryTypeOK, NEW k \in Keys,
           RecoverStaleStopping(k)
    PROVE  PlainStep
  <1> DEFINE s == reg[k].state
             new == FencedState(
                        IF s.owner = None THEN None
                        ELSE [owner |-> s.owner,
                              gen |-> IF s.priorGen # None THEN s.priorGen
                                                           ELSE s.gen],
                        "StaleStop", s.op, s.gen)
  <1>1. reg[k] \in Records /\ s \in States  BY RecordTyped DEF RecoverStaleStopping, Is, Records
  <1>2. new \in States /\ new.tag # "Aliased"
    BY <1>1, StateFields, BuiltStates DEF FencedState, RecoverStaleStopping, Is, OptEra, OptOwner, OptGen, Eras, FenceReasons
  <1>3. HasRecord(k) /\ SetState(k, new) /\ ~Is(k, "Aliased")
    BY DEF RecoverStaleStopping, Is
  <1> QED  BY <1>2, <1>3, PlainByState

LEMMA BeginStartPlain ==
    ASSUME RegistryTypeOK, NEW k \in Keys, NEW kind \in Kinds, NEW op \in Ops,
           NEW obs, NEW window, BeginStart(k, kind, op, obs, window)
    PROVE  PlainStep /\ ClaimStep(k)
  <1> DEFINE old == RecordOf(k)
             st == StartingState(kind, op, old.generation + 1)
             r1 == [old EXCEPT !.generation = old.generation + 1]
             r2 == [r1 EXCEPT !.state = st]
             r3 == [r2 EXCEPT !.settle = None]
             new == [r3 EXCEPT !.partial = None]
  <1>1. old \in Records /\ old.generation \in Nat  BY RecordTyped DEF Records
  <1>2. st \in States /\ st.tag # "Aliased"
    BY <1>1, BuiltStates DEF StartingState
  <1>3. reg' = [reg EXCEPT ![k] = new]  BY DEF BeginStart
  <1> HIDE DEF old, st
  <1>4. r1 \in Records /\ r1.generation = old.generation + 1
    BY <1>1, FieldUpdates
  <1> HIDE DEF r1
  <1>5. r2 \in Records /\ r2.generation = r1.generation /\ r2.state = st
    BY <1>2, <1>4, FieldUpdates
  <1> HIDE DEF r2
  <1>6. r3 \in Records /\ r3.generation = r2.generation /\ r3.state = st
    BY <1>5, FieldUpdates
  <1> HIDE DEF r3
  <1>7. new \in Records /\ new.generation = r3.generation /\ new.state = st
    BY <1>6, FieldUpdates DEF OptOwner
  <1>8. old.generation <= new.generation  BY <1>1, <1>4, <1>5, <1>6, <1>7
  <1> HIDE DEF new
  <1>9. ~Is(k, "Aliased")  BY DEF BeginStart, Is, RecordOf
  <1>10. reg'[k] = new /\ new.generation = old.generation + 1
    BY <1>1, <1>2, <1>3, <1>4, <1>5, <1>6, <1>7, <1>8, <1>9 DEF RegistryTypeOK
  <1>11. PlainStep  BY <1>9, <1>2, <1>3, <1>7, <1>8, PlainByRecord DEF old
  <1> QED  BY <1>1, <1>2, <1>3, <1>4, <1>5, <1>6, <1>7, <1>8, <1>9, <1>10, <1>11 DEF ClaimStep, old

LEMMA BeginStopPlain ==
    ASSUME RegistryTypeOK, NEW k \in Keys, NEW op \in Ops, NEW obs, NEW expected,
           BeginStop(k, op, obs, expected)
    PROVE  PlainStep /\ ClaimStep(k)
  <1> DEFINE old == RecordOf(k)
             st == StoppingState(old.state.owner, old.state.gen, op,
                                 old.generation + 1)
             r1 == [old EXCEPT !.generation = old.generation + 1]
             new == [r1 EXCEPT !.state = st]
  <1>1. old \in Records /\ old.generation \in Nat /\ old.state \in States
    BY RecordTyped DEF Records
  <1>2. st \in States /\ st.tag # "Aliased"
    <2>1. old.state.tag = "Live"  BY DEF BeginStop, Is, RecordOf
    <2>2. old.state.owner \in OptOwner /\ old.state.gen \in OptGen
      BY <1>1, <2>1, StateFields DEF OptOwner, OptGen
    <2> QED  BY <1>1, <2>2, BuiltStates DEF StoppingState
  <1>3. reg' = [reg EXCEPT ![k] = new]  BY DEF BeginStop, Is, RecordOf
  <1> HIDE DEF old, st
  <1>4. r1 \in Records /\ r1.generation = old.generation + 1 /\ r1.state = old.state
    BY <1>1, <1>2, <1>3, FieldUpdates
  <1> HIDE DEF r1
  <1>5. new \in Records /\ new.generation = r1.generation /\ new.state = st
    BY <1>1, <1>2, <1>4, FieldUpdates
  <1>6. old.generation <= new.generation  BY <1>1, <1>4, <1>5
  <1> HIDE DEF new
  <1>7. ~Is(k, "Aliased")  BY DEF BeginStop, Is
  <1>8. reg'[k] = new /\ new.generation = old.generation + 1
    BY <1>1, <1>2, <1>3, <1>4, <1>5, <1>6, <1>7 DEF RegistryTypeOK
  <1>9. PlainStep  BY <1>7, <1>2, <1>3, <1>5, <1>6, PlainByRecord DEF old
  <1> QED  BY <1>1, <1>2, <1>3, <1>4, <1>5, <1>6, <1>7, <1>8, <1>9 DEF ClaimStep, old

LEMMA EnterHandoffPlain ==
    ASSUME RegistryTypeOK, NEW k \in Keys, NEW prior \in OptEra,
           NEW to \in Kinds, NEW op \in Ops,
           ~Is(k, "Aliased"), EnterHandoff(k, RecordOf(k), prior, to, op)
    PROVE  PlainStep /\ ClaimStep(k)
  <1> DEFINE old == RecordOf(k)
             st == HandoffState(prior, to, op, old.generation + 1)
             r1 == [old EXCEPT !.generation = old.generation + 1]
             new == [r1 EXCEPT !.state = st]
  <1>1. old \in Records /\ old.generation \in Nat /\ old.state \in States
    BY RecordTyped DEF Records
  <1>2. st \in States /\ st.tag # "Aliased"
    <2>1. old.generation + 1 \in Nat  BY <1>1
    <2>2. st \in States  BY <2>1, BuiltStates
    <2> QED  BY <2>2 DEF HandoffState
  <1>3. reg' = [reg EXCEPT ![k] = new]  BY DEF EnterHandoff
  <1> HIDE DEF old, st
  <1>4. r1 \in Records /\ r1.generation = old.generation + 1 /\ r1.state = old.state
    BY <1>1, <1>2, <1>3, FieldUpdates
  <1> HIDE DEF r1
  <1>5. new \in Records /\ new.generation = r1.generation /\ new.state = st
    BY <1>1, <1>2, <1>4, FieldUpdates
  <1>6. old.generation <= new.generation  BY <1>1, <1>4, <1>5
  <1> HIDE DEF new
  <1>7. reg'[k] = new /\ new.generation = old.generation + 1
    BY <1>1, <1>2, <1>3, <1>4, <1>5, <1>6 DEF RegistryTypeOK
  <1>8. PlainStep  BY <1>2, <1>3, <1>5, <1>6, PlainByRecord DEF old
  <1> QED  BY <1>1, <1>2, <1>3, <1>4, <1>5, <1>6, <1>7, <1>8 DEF ClaimStep, old

LEMMA OpenWindowPlain ==
    ASSUME RegistryTypeOK, NEW k \in Keys, NEW w \in Windows, HasRecord(k),
           OpenWindow(k, w)
    PROVE  PlainStep
  <1> DEFINE old == RecordOf(k)
             n == old.inFlight + 1
             ws == old.armed \cup {w}
             r1 == [old EXCEPT !.inFlight = n]
             new == [r1 EXCEPT !.armed = ws]
  <1>1. old \in Records /\ old.generation \in Nat  BY RecordTyped DEF Records
  <1>2. HasRecord(k) /\ old.state = reg[k].state  BY DEF RecordOf
  <1>3. n \in Nat /\ ws \in SUBSET Windows  BY <1>1 DEF Records
  <1>4. reg' = [reg EXCEPT ![k] = new]  BY DEF OpenWindow, RecordOf
  <1> HIDE DEF old, n, ws
  <1>5. /\ r1 \in Records
        /\ r1.generation = old.generation /\ r1.state = old.state
    BY <1>1, <1>3, FieldUpdates
  <1> HIDE DEF r1
  <1>6. /\ new \in Records
        /\ new.generation = r1.generation /\ new.state = r1.state
    BY <1>3, <1>5, FieldUpdates
  <1>7. old.generation <= new.generation  BY <1>1, <1>5, <1>6
  <1> HIDE DEF new
  <1> QED  BY <1>2, <1>4, <1>5, <1>6, <1>7, PlainByRecord DEF old

LEMMA ReleaseWindowPlain ==
    ASSUME RegistryTypeOK, NEW k \in Keys, NEW w \in Windows, HasRecord(k),
           ReleaseWindow(k, w)
    PROVE  PlainStep
  <1> DEFINE old == RecordOf(k)
             n == IF old.inFlight = 0 THEN 0 ELSE old.inFlight - 1
             ws == old.armed \ {w}
             r1 == [old EXCEPT !.inFlight = n]
             new == [r1 EXCEPT !.armed = ws]
  <1>1. old \in Records /\ old.generation \in Nat  BY RecordTyped DEF Records
  <1>2. HasRecord(k) /\ old.state = reg[k].state  BY DEF RecordOf
  <1>3. n \in Nat /\ ws \in SUBSET Windows  BY <1>1 DEF Records
  <1>4. reg' = [reg EXCEPT ![k] = new]  BY DEF ReleaseWindow, RecordOf
  <1> HIDE DEF old, n, ws
  <1>5. /\ r1 \in Records
        /\ r1.generation = old.generation /\ r1.state = old.state
    BY <1>1, <1>3, FieldUpdates
  <1> HIDE DEF r1
  <1>6. /\ new \in Records
        /\ new.generation = r1.generation /\ new.state = r1.state
    BY <1>3, <1>5, FieldUpdates
  <1>7. old.generation <= new.generation  BY <1>1, <1>5, <1>6
  <1> HIDE DEF new
  <1> QED  BY <1>2, <1>4, <1>5, <1>6, <1>7, PlainByRecord DEF old

LEMMA RegisterCancellationPlain ==
    ASSUME RegistryTypeOK, NEW k \in Keys, NEW op \in Ops, NEW gen \in Nat,
           RegisterStartCancellation(k, op, gen)
    PROVE  PlainStep
  <1> DEFINE old == RecordOf(k)
             new == [old EXCEPT !.settle = op]
  <1>1. old \in Records /\ old.generation \in Nat /\ old.state \in States
    BY RecordTyped DEF Records
  <1>2. HasRecord(k) /\ old.state = reg[k].state
    BY DEF RegisterStartCancellation, Is, RecordOf
  <1>3. reg' = [reg EXCEPT ![k] = new]  BY DEF RegisterStartCancellation, Is, RecordOf
  <1> HIDE DEF old
  <1>4. new \in Records /\ new.generation = old.generation /\ new.state = old.state
    BY <1>1, <1>3, FieldUpdates
  <1>5. old.generation <= new.generation  BY <1>1, <1>4
  <1> HIDE DEF new
  <1> QED  BY <1>2, <1>3, <1>4, <1>5, PlainByRecord DEF old

LEMMA RegisterPartialPlain ==
    ASSUME RegistryTypeOK, NEW k \in Keys, NEW op \in Ops, NEW gen \in Nat,
           NEW owner \in Owners, RegisterPartialRuntime(k, op, gen, owner)
    PROVE  PlainStep
  <1> DEFINE old == RecordOf(k)
             new == [old EXCEPT !.partial = owner]
  <1>1. old \in Records /\ old.generation \in Nat /\ old.state \in States
    BY RecordTyped DEF Records
  <1>2. HasRecord(k) /\ old.state = reg[k].state
    BY DEF RegisterPartialRuntime, Is, RecordOf
  <1>3. reg' = [reg EXCEPT ![k] = new]  BY DEF RegisterPartialRuntime, Is, RecordOf
  <1> HIDE DEF old
  <1>4. new \in Records /\ new.generation = old.generation /\ new.state = old.state
    BY <1>1, <1>3, FieldUpdates DEF OptOwner
  <1>5. old.generation <= new.generation  BY <1>1, <1>4
  <1> HIDE DEF new
  <1> QED  BY <1>2, <1>3, <1>4, <1>5, PlainByRecord DEF old

LEMMA RegisterSettlementPlain ==
    ASSUME RegistryTypeOK, NEW k \in Keys, NEW op \in Ops, NEW gen \in Nat,
           RegisterStopSettlement(k, op, gen)
    PROVE  PlainStep
  <1> DEFINE old == RecordOf(k)
             new == [old EXCEPT !.stopSettled = op]
  <1>1. old \in Records /\ old.generation \in Nat /\ old.state \in States
    BY RecordTyped DEF Records
  <1>2. HasRecord(k) /\ old.state = reg[k].state
    BY DEF RegisterStopSettlement, Is, RecordOf
  <1>3. reg' = [reg EXCEPT ![k] = new]  BY DEF RegisterStopSettlement, Is, RecordOf
  <1> HIDE DEF old
  <1>4. new \in Records /\ new.generation = old.generation /\ new.state = old.state
    BY <1>1, <1>3, FieldUpdates
  <1>5. old.generation <= new.generation  BY <1>1, <1>4
  <1> HIDE DEF new
  <1> QED  BY <1>2, <1>3, <1>4, <1>5, PlainByRecord DEF old

LEMMA RecoverStartPlain ==
    ASSUME RegistryTypeOK, NEW k \in Keys, RecoverStaleStart(k)
    PROVE  PlainStep
  <1> DEFINE old == RecordOf(k)
             st == StoppingState(old.partial, None, old.state.op, old.state.gen)
             r1 == [old EXCEPT !.state = st]
             new == [r1 EXCEPT !.partial = None]
  <1>1. old \in Records /\ old.generation \in Nat /\ old.state \in States
    BY RecordTyped DEF Records
  <1>2. st \in States /\ st.tag # "Aliased"
    <2>1. old.state.tag = "Starting"  BY DEF RecoverStaleStart, Is, RecordOf
    <2>2. old.partial \in OptOwner  BY <1>1 DEF Records
    <2> QED  BY <1>1, <2>1, <2>2, StateFields, BuiltStates DEF StoppingState, OptGen
  <1>3. reg' = [reg EXCEPT ![k] = new]  BY DEF RecoverStaleStart, Is, RecordOf
  <1> HIDE DEF old, st
  <1>4. r1 \in Records /\ r1.generation = old.generation /\ r1.state = st
    BY <1>1, <1>2, <1>3, FieldUpdates
  <1> HIDE DEF r1
  <1>5. new \in Records /\ new.generation = r1.generation /\ new.state = st
    BY <1>1, <1>2, <1>4, FieldUpdates DEF OptOwner
  <1>6. old.generation <= new.generation  BY <1>1, <1>4, <1>5
  <1> HIDE DEF new
  <1>7. ~Is(k, "Aliased")  BY DEF RecoverStaleStart, Is
  <1> QED  BY <1>7, <1>2, <1>3, <1>5, <1>6, PlainByRecord DEF old

LEMMA ClearPlain ==
    ASSUME RegistryTypeOK, NEW k \in Keys, NEW obs,
           ForceReleasePlatformLimited(k, obs)
    PROVE  PlainStep
  <1> DEFINE old == RecordOf(k)
             st == [old.state EXCEPT !.reason = "ClearedUnverified"]
             new == [old EXCEPT !.state = st]
  <1>1. old \in Records /\ old.generation \in Nat /\ old.state \in States
    BY RecordTyped DEF Records
  <1>2. st \in States /\ st.tag # "Aliased"
    <2>1. old.state.tag = "Fenced"
      BY DEF ForceReleasePlatformLimited, Is, RecordOf
    <2> QED  BY <1>1, <2>1 DEF States, FenceReasons
  <1>3. reg' = [reg EXCEPT ![k] = new]  BY DEF ForceReleasePlatformLimited, Is, RecordOf
  <1> HIDE DEF old, st
  <1>4. new \in Records /\ new.generation = old.generation /\ new.state = st
    BY <1>1, <1>2, <1>3, FieldUpdates
  <1>5. old.generation <= new.generation  BY <1>1, <1>4
  <1> HIDE DEF new
  <1>6. ~Is(k, "Aliased")  BY DEF ForceReleasePlatformLimited, Is
  <1> QED  BY <1>6, <1>2, <1>3, <1>4, <1>5, PlainByRecord DEF old

-----------------------------------------------------------------------------
(* The actions that leave a forwarding record.                             *)

LEMMA NewRecord ==
    ASSUME NEW gen \in Nat, NEW st \in States
    PROVE  LET r == [EmptyRecord EXCEPT !.generation = gen, !.state = st]
           IN  r \in Records /\ r.generation = gen /\ r.state = st
  <1> DEFINE r1 == [EmptyRecord EXCEPT !.generation = gen]
             r2 == [r1 EXCEPT !.state = st]
  <1>1. EmptyRecord \in Records
    BY BuiltStates DEF EmptyRecord, Records, OptOwner
  <1>2. r1 \in Records /\ r1.generation = gen  BY <1>1, FieldUpdates
  <1> HIDE DEF r1
  <1>3. r2 \in Records /\ r2.generation = gen /\ r2.state = st
    BY <1>2, FieldUpdates
  <1> QED  BY <1>3 DEF r1

LEMMA NoRecordGeneration ==
    ASSUME NEW k \in Keys, ~HasRecord(k)
    PROVE  RecordOf(k).generation = 0
  BY DEF RecordOf, EmptyRecord

LEMMA CommitLiveRekeyForwards ==
    ASSUME RegistryTypeOK, NEW k \in Keys, NEW to \in Keys, NEW op \in Ops,
           NEW gen \in Nat, NEW owner \in Owners,
           CommitLiveRekey(k, to, op, gen, owner)
    PROVE  ForwardStep
  <1> DEFINE st == AliasedState(to, gen)
             a == [reg[k] EXCEPT !.state = st]
             r == [EmptyRecord EXCEPT !.generation = gen,
                                      !.state = LiveState(owner, gen)]
  <1>1. HasRecord(k) /\ ~HasRecord(to) /\ k # to /\ ~Is(k, "Aliased")
    BY DEF CommitLiveRekey, Holds, Is
  <1>2. st \in States /\ st.tag = "Aliased" /\ st.to = to
    BY BuiltStates DEF AliasedState
  <1>3. LiveState(owner, gen) \in States /\ LiveState(owner, gen).tag # "Aliased"
    BY BuiltStates DEF LiveState
  <1>4. a \in Records /\ a.state = st
    BY <1>1, <1>2, RecordTyped, FieldUpdates
  <1>5. r \in Records /\ r.generation = gen /\ r.state = LiveState(owner, gen)
    BY <1>3, NewRecord
  <1>6. reg' = [reg EXCEPT ![k] = a, ![to] = r]  BY <1>1 DEF CommitLiveRekey
  <1>7. RecordOf(to).generation <= r.generation
    BY <1>1, <1>5, NoRecordGeneration
  <1> HIDE DEF st, a, r
  <1> QED  BY <1>1, <1>2, <1>3, <1>4, <1>5, <1>6, <1>7 DEF ForwardStep, Is

LEMMA RekeyStartingForwards ==
    ASSUME RegistryTypeOK, NEW k \in Keys, NEW to \in Keys, NEW op \in Ops,
           NEW gen \in Nat, RekeyStarting(k, to, op, gen)
    PROVE  ForwardStep
  <1> DEFINE st == AliasedState(to, gen)
             a == [EmptyRecord EXCEPT !.generation = gen, !.state = st]
             r == reg[k]
  <1>1. HasRecord(k) /\ ~HasRecord(to) /\ k # to /\ ~Is(k, "Aliased")
    BY DEF RekeyStarting, Holds, Is
  <1>2. st \in States /\ st.tag = "Aliased" /\ st.to = to
    BY BuiltStates DEF AliasedState
  <1>3. r \in Records /\ r.generation \in Nat /\ r.state.tag # "Aliased"
    BY <1>1, RecordTyped DEF RekeyStarting, Holds, Is, Records
  <1>4. a \in Records /\ a.state = st  BY <1>2, NewRecord
  <1>5. reg' = [reg EXCEPT ![k] = a, ![to] = r]  BY DEF RekeyStarting
  <1>6. RecordOf(to).generation <= r.generation
    BY <1>1, <1>3, NoRecordGeneration
  <1> HIDE DEF st, a, r
  <1> QED  BY <1>1, <1>2, <1>3, <1>4, <1>5, <1>6 DEF ForwardStep, Is

LEMMA RekeyLiveForwards ==
    ASSUME RegistryTypeOK, NEW k \in Keys, NEW to \in Keys, NEW rt \in Ops,
           NEW owner \in Owners, RekeyLive(k, to, rt, owner)
    PROVE  ForwardStep
  <1> DEFINE gen == reg[k].generation + 1
             st == AliasedState(to, gen)
             a1 == [reg[k] EXCEPT !.generation = gen]
             a == [a1 EXCEPT !.state = st]
             r == [EmptyRecord EXCEPT !.generation = gen,
                                      !.state = LiveState(owner, gen)]
  <1>1. HasRecord(k) /\ ~HasRecord(to) /\ k # to /\ ~Is(k, "Aliased")
    BY DEF RekeyLive, Is
  <1>2. reg[k] \in Records /\ gen \in Nat  BY <1>1, RecordTyped DEF Records
  <1>3. reg' = [reg EXCEPT ![k] = a, ![to] = r]  BY <1>1 DEF RekeyLive
  <1> HIDE DEF gen
  <1>4. st \in States /\ st.tag = "Aliased" /\ st.to = to
    BY <1>2, BuiltStates DEF AliasedState
  <1>5. LiveState(owner, gen) \in States /\ LiveState(owner, gen).tag # "Aliased"
    BY <1>2, BuiltStates DEF LiveState
  <1>6. a1 \in Records  BY <1>2, FieldUpdates
  <1> HIDE DEF a1
  <1>7. a \in Records /\ a.state = st  BY <1>4, <1>6, FieldUpdates
  <1>8. r \in Records /\ r.generation = gen /\ r.state = LiveState(owner, gen)
    BY <1>2, <1>5, NewRecord
  <1>9. RecordOf(to).generation <= r.generation
    BY <1>1, <1>2, <1>8, NoRecordGeneration
  <1> HIDE DEF st, a, r
  <1> QED  BY <1>1, <1>3, <1>4, <1>5, <1>7, <1>8, <1>9 DEF ForwardStep, Is

LEMMA RebindForwards ==
    ASSUME RegistryTypeOK, NEW k \in Keys, NEW old \in Keys, NEW op \in Ops,
           NEW gen \in Nat, NEW rt \in Ops, NEW owner \in Owners,
           CommitLiveRekeyFromTerminal(k, old, op, gen, rt, owner)
    PROVE  ForwardStep
  <1> DEFINE aliased == reg[old].state.gen + 1
             st == AliasedState(k, aliased)
             live == LiveState(owner, gen)
             a1 == [reg[old] EXCEPT !.generation = aliased]
             a == [a1 EXCEPT !.state = st]
             r == [reg[k] EXCEPT !.state = live]
  <1>1. /\ HasRecord(k) /\ HasRecord(old) /\ old # k
        /\ ~Is(k, "Aliased") /\ ~Is(old, "Aliased")
    BY DEF CommitLiveRekeyFromTerminal, Is
  <1>2. reg[k] \in Records /\ reg[old] \in Records /\ aliased \in Nat
    <2>1. reg[k] \in Records /\ reg[old] \in Records  BY <1>1, RecordTyped
    <2>2. reg[old].state \in States  BY <2>1 DEF Records
    <2>3. reg[old].state.gen \in Nat
      BY <2>2, StateFields DEF CommitLiveRekeyFromTerminal, Is
    <2> QED  BY <2>1, <2>3
  <1>3. reg' = [reg EXCEPT ![old] = a, ![k] = r]
    BY <1>1 DEF CommitLiveRekeyFromTerminal
  <1> HIDE DEF aliased
  <1>4. st \in States /\ st.tag = "Aliased" /\ st.to = k
    BY <1>2, BuiltStates DEF AliasedState
  <1>5. live \in States /\ live.tag # "Aliased"  BY BuiltStates DEF LiveState
  <1> HIDE DEF live
  <1>6. a1 \in Records  BY <1>2, FieldUpdates
  <1> HIDE DEF a1
  <1>7. a \in Records /\ a.state = st  BY <1>4, <1>6, FieldUpdates
  <1>8. r \in Records /\ r.generation = reg[k].generation /\ r.state = live
    BY <1>2, <1>5, FieldUpdates
  <1>9. RecordOf(k).generation <= r.generation
    BY <1>1, <1>2, <1>8 DEF RecordOf, Records
  <1> HIDE DEF st, a, r
  <1> QED  BY <1>1, <1>3, <1>4, <1>5, <1>7, <1>8, <1>9 DEF ForwardStep

LEMMA AliasVacantKeyForwards ==
    ASSUME RegistryTypeOK, NEW k \in Keys, NEW to \in Keys,
           AliasVacantKey(k, to)
    PROVE  PlaceholderStep
  <1> DEFINE gen == reg[to].generation
             st == AliasedState(to, gen)
             a == [EmptyRecord EXCEPT !.generation = gen, !.state = st]
  <1>1. ~HasRecord(k) /\ HasRecord(to)  BY DEF AliasVacantKey
  <1>2. gen \in Nat  BY <1>1, RecordTyped DEF Records
  <1>3. reg' = [reg EXCEPT ![k] = a]  BY DEF AliasVacantKey
  <1> HIDE DEF gen
  <1>4. st \in States /\ st.tag = "Aliased" /\ st.to = to
    BY <1>2, BuiltStates DEF AliasedState
  <1>5. a \in Records /\ a.state = st  BY <1>2, <1>4, NewRecord
  <1> HIDE DEF st, a
  <1> QED  BY <1>1, <1>3, <1>4, <1>5 DEF PlaceholderStep

-----------------------------------------------------------------------------
(* Every call is one of those steps on the registry.                       *)

RegStep == PlainStep \/ ForwardStep \/ PlaceholderStep \/ reg' = reg

LEMMA TicketFields ==
    ASSUME NEW t \in Tickets
    PROVE  /\ t.key \in Keys /\ t.op \in Ops /\ t.gen \in Nat
           /\ SpawnedBy(t) \in Owners
           /\ Unconfirmed(t) \subseteq OptEra
  BY DEF Tickets, SpawnedBy, Owners, Unconfirmed, OptEra, Eras

LEMMA EraFields ==
    ASSUME NEW e \in LiveEras
    PROVE  /\ e.key \in Keys /\ e.owner \in Owners /\ e.gen \in Nat
           /\ e.owner.op \in Ops /\ e.owner.rt \in Ops
  BY DEF LiveEras, Owners

LEMMA HandoffPriorTyped ==
    ASSUME RegistryTypeOK, NEW k \in Keys
    PROVE  HandoffPrior(RecordOf(k)) \in OptEra
  <1>1. RecordOf(k).state \in States  BY RecordTyped DEF Records
  <1> QED  BY <1>1, StateFields DEF HandoffPrior, OptEra, Eras

LEMMA CallStep ==
    ASSUME TypeOK, Call
    PROVE  RegStep /\ epoch' = epoch /\ dropped' \subseteq Ops
  <1> USE DEF RegStep
  <1>0. /\ RegistryTypeOK /\ dropped \subseteq Ops
        /\ \A t \in granted : t \in Tickets
        /\ \A e \in lived : e \in LiveEras
        /\ \A g \in guards : g.key \in Keys /\ g.window \in Windows
    BY DEF TypeOK, RegistryTypeOK, Guards
  <1>1. CASE Start
    BY <1>0, <1>1, BeginStartPlain DEF Start, BeginStart
  <1>2. CASE Handoff
    <2>1. PICK k \in Keys, to \in Kinds, op \in Ops :
            \E obs \in Observations(k) \cup {None} : BeginHandoff(k, to, op, obs)
      BY <1>2 DEF Handoff
    <2>2. /\ EnterHandoff(k, RecordOf(k), HandoffPrior(RecordOf(k)), to, op)
          /\ ~Is(k, "Aliased")
      BY <2>1 DEF BeginHandoff, Is, RecordOf
    <2> QED  BY <1>0, <2>2, HandoffPriorTyped, EnterHandoffPlain DEF EnterHandoff
  <1>3. CASE AcknowledgedHandoff
    <2>1. PICK k \in Keys, to \in Kinds, op \in Ops :
            \E obs \in Observations(k) : BeginHandoffAcknowledged(k, to, op, obs)
      BY <1>3 DEF AcknowledgedHandoff
    <2>2. HasRecord(k) /\ reg[k] = RecordOf(k) /\ reg[k].state.tag = "Fenced"
      BY <2>1 DEF BeginHandoffAcknowledged, Is, RecordOf
    <2>3. reg[k].state.prior \in OptEra
      BY <1>0, <2>2, RecordTyped, StateFields DEF Records
    <2>4. EnterHandoff(k, RecordOf(k), reg[k].state.prior, to, op)
      BY <2>1, <2>2 DEF BeginHandoffAcknowledged
    <2>5. PlainStep
      BY <1>0, <2>2, <2>3, <2>4, EnterHandoffPlain DEF Is
    <2> QED  BY <1>0, <2>4, <2>5 DEF EnterHandoff
  <1>4. CASE Stop
    BY <1>0, <1>4, BeginStopPlain DEF Stop, BeginStop
  <1>5. CASE Attach
    <2>1. PICK k \in Keys, w \in Windows : HasRecord(k) /\ OpenWindow(k, w)
      BY <1>5 DEF Attach, BeginAttachGuard, BeginAdoptGuard, Is
    <2> QED  BY <1>0, <2>1, OpenWindowPlain DEF OpenWindow
  <1>6. CASE Detach
    <2>1. PICK g \in guards : ReleaseWindow(g.key, g.window)
      BY <1>6 DEF Detach
    <2>2. HasRecord(g.key) => PlainStep  BY <1>0, <2>1, ReleaseWindowPlain
    <2> QED  BY <1>0, <2>1, <2>2 DEF ReleaseWindow
  <1>7. CASE Commit
    BY <1>0, <1>7, TicketFields, CommitLivePlain, CommitLiveRekeyForwards
       DEF Commit, CommitLive, CommitLiveRekey
  <1>8. CASE RekeyStart
    BY <1>0, <1>8, TicketFields, RekeyStartingForwards
       DEF RekeyStart, RekeyStarting
  <1>9. CASE Rebind
    <2>1. PICK t \in granted, old \in Keys, e \in lived :
            CommitLiveRekeyFromTerminal(t.key, old, t.op, t.gen, e.owner.rt,
                [kind |-> "terminal", rt |-> e.owner.rt, op |-> t.op])
      BY <1>9 DEF Rebind
    <2>2. [kind |-> "terminal", rt |-> e.owner.rt, op |-> t.op] \in Owners
      BY <1>0, TicketFields, EraFields DEF Owners, Kinds
    <2> QED  BY <1>0, <2>1, <2>2, TicketFields, EraFields, RebindForwards
             DEF CommitLiveRekeyFromTerminal
  <1>10. CASE Fail
    BY <1>0, <1>10, TicketFields, FailStartPlain, FailHandoffPlain,
       CommitStopPlain, AbortStopPlain
       DEF Fail, FailStart, FailHandoff, CommitStop, AbortStop
  <1>11. CASE Fence
    BY <1>0, <1>11, TicketFields, EraFields, FenceHandoffPlain, FenceStopPlain,
       FenceLivePlain
       DEF Fence, FenceUnconfirmedHandoff, FenceUnconfirmedStop,
           FenceUnconfirmedLive, FenceReasons
  <1>12. CASE Confirm
    BY <1>0, <1>12, TicketFields, EraFields, ReleaseFencedPlain
       DEF Confirm, ReleaseFenced
  <1>13. CASE Clear
    BY <1>0, <1>13, ClearPlain DEF Clear, ForceReleasePlatformLimited
  <1>14. CASE Exit
    BY <1>0, <1>14, TicketFields, EraFields, ReleasePlain, ForceReleasePlain
       DEF Exit, Release, ForceReleaseForConfirmedKill, OptOwner
  <1>15. CASE MoveLive
    <2>1. PICK e \in lived, to \in Keys, op \in Ops :
            RekeyLive(e.key, to, e.owner.rt,
                      [kind |-> "fresh-agent", rt |-> op, op |-> op])
      BY <1>15 DEF MoveLive
    <2>2. [kind |-> "fresh-agent", rt |-> op, op |-> op] \in Owners
      BY DEF Owners, Kinds
    <2> QED  BY <1>0, <2>1, <2>2, EraFields, RekeyLiveForwards DEF RekeyLive
  <1>16. CASE AliasPlaceholder
    BY <1>0, <1>16, AliasVacantKeyForwards DEF AliasPlaceholder, AliasVacantKey
  <1>17. CASE Register
    BY <1>0, <1>17, TicketFields, RegisterCancellationPlain,
       RegisterPartialPlain, RegisterSettlementPlain
       DEF Register, RegisterStartCancellation, RegisterPartialRuntime,
           RegisterStopSettlement
  <1>18. CASE Settle
    BY <1>0, <1>18 DEF Settle, DropSettlementGuard
  <1>19. CASE Sweep
    BY <1>0, <1>19, RecoverStartPlain, RecoverStoppingPlain
       DEF Sweep, RecoverStaleStart, RecoverStaleStopping
  <1>20. CASE RecoverStart
    <2>1. PICK k \in Keys :
            /\ Recovering(k)
            /\ LET st == reg[k].state
               IN  \/ reg[k].settle # None /\ CommitStop(k, st.op, st.gen)
                   \/ FenceUnconfirmedStop(k, st.op, st.gen, "StaleStart")
      BY <1>20 DEF RecoverStart
    <2>2. reg[k].state.op \in Ops /\ reg[k].state.gen \in Nat
      BY <1>0, <2>1, RecordTyped, StateFields DEF Recovering, Is, Records
    <2> QED  BY <1>0, <2>1, <2>2, CommitStopPlain, FenceStopPlain
             DEF CommitStop, FenceUnconfirmedStop, FenceReasons
  <1> QED  BY <1>1, <1>2, <1>3, <1>4, <1>5, <1>6, <1>7, <1>8, <1>9, <1>10,
              <1>11, <1>12, <1>13, <1>14, <1>15, <1>16, <1>17, <1>18, <1>19,
              <1>20
           DEF Call

-----------------------------------------------------------------------------
(* Type correctness.                                                       *)

LEMMA ShapeTyped ==
    ASSUME RegistryTypeOK, RegStep
    PROVE  reg' \in [Keys -> Records \cup {None}]
  BY DEF RegistryTypeOK, RegStep, PlainStep, ForwardStep, PlaceholderStep

LEMMA ObservationsAreFences ==
    ASSUME RegistryTypeOK, NEW k \in Keys
    PROVE  Observations(k) \subseteq Fences
  <1>1. epoch \in Nat  BY DEF RegistryTypeOK
  <1>2. RecordOf(k).generation \in Nat  BY RecordTyped DEF Records
  <1> QED  BY <1>1, <1>2 DEF Observations, Fences

(* A ticket is granted with the generation its key's record has got.       *)
LEMMA GrantTyped ==
    ASSUME granted \subseteq Tickets,
           NEW k \in Keys, NEW op \in Ops, NEW verb \in Verbs,
           NEW kind \in Kinds, NEW obs \in Fences \cup {None},
           NEW w \in Windows \cup {None},
           reg'[k].generation \in Nat, Grant(k, op, verb, kind, obs, w)
    PROVE  granted' \subseteq Tickets
  BY DEF Grant, Tickets

LEMMA CallGhosts ==
    ASSUME TypeOK, Call
    PROVE  granted' \subseteq Tickets /\ guards' \subseteq Guards
  <1>0. /\ RegistryTypeOK /\ reg \in [Keys -> Records \cup {None}]
        /\ granted \subseteq Tickets /\ guards \subseteq Guards
        /\ \A t \in granted : t \in Tickets
        /\ \A e \in lived : e \in LiveEras
        /\ \A g \in guards : g.window \in Windows
        /\ epoch \in Nat
    BY DEF TypeOK, RegistryTypeOK, Guards
  <1>1. CASE Start
    <2>1. PICK k \in Keys, kind \in Kinds, op \in Ops :
            \E obs \in Observations(k) \cup {None},
               w \in {g.window : g \in guards} \cup {None} :
               /\ BeginStart(k, kind, op, obs, w)
               /\ Grant(k, op, "start", kind, obs, w)
      BY <1>1 DEF Start
    <2>2. RecordOf(k) \in Records  BY <1>0, RecordTyped
    <2>3. reg'[k].generation \in Nat
      BY <1>0, <2>1, <2>2 DEF BeginStart, Records
    <2>4. guards' = guards  BY <1>1 DEF Start
    <2> QED  BY <1>0, <2>1, <2>3, <2>4, ObservationsAreFences, GrantTyped
             DEF Verbs
  <1>2. CASE Handoff
    <2>1. PICK k \in Keys, to \in Kinds, op \in Ops :
            \E obs \in Observations(k) \cup {None} :
               /\ BeginHandoff(k, to, op, obs)
               /\ Grant(k, op, "handoff", to, obs, None)
      BY <1>2 DEF Handoff
    <2>2. RecordOf(k) \in Records  BY <1>0, RecordTyped
    <2>3. reg'[k].generation \in Nat
      BY <1>0, <2>1, <2>2 DEF BeginHandoff, EnterHandoff, Records
    <2>4. guards' = guards  BY <1>2 DEF Handoff
    <2> QED  BY <1>0, <2>1, <2>3, <2>4, ObservationsAreFences, GrantTyped
             DEF Verbs
  <1>3. CASE AcknowledgedHandoff
    <2>1. PICK k \in Keys, to \in Kinds, op \in Ops :
            \E obs \in Observations(k) :
               /\ BeginHandoffAcknowledged(k, to, op, obs)
               /\ Grant(k, op, "handoff", to, obs, None)
      BY <1>3 DEF AcknowledgedHandoff
    <2>2. reg[k] \in Records
      BY <1>0, <2>1, RecordTyped DEF BeginHandoffAcknowledged, Is
    <2>3. reg'[k].generation \in Nat
      BY <1>0, <2>1, <2>2 DEF BeginHandoffAcknowledged, EnterHandoff, Records
    <2>4. guards' = guards  BY <1>3 DEF AcknowledgedHandoff
    <2> QED  BY <1>0, <2>1, <2>3, <2>4, ObservationsAreFences, GrantTyped
             DEF Verbs
  <1>4. CASE Stop
    <2>1. PICK k \in Keys, op \in Ops, e \in lived :
            \E expected \in Descriptions(e.owner) :
               /\ BeginStop(k, op, EraFence(e), expected)
               /\ Grant(k, op, "stop", expected.kind, EraFence(e), None)
      BY <1>4 DEF Stop
    <2>2. reg[k] \in Records
      BY <1>0, <2>1, RecordTyped DEF BeginStop, Is
    <2>3. reg'[k].generation \in Nat
      BY <1>0, <2>1, <2>2 DEF BeginStop, Records
    <2>4. EraFence(e) \in Fences
      BY <1>0, EraFields DEF EraFence, Fences
    <2>5. \A expected \in Descriptions(e.owner) : expected.kind \in Kinds
      BY <1>0, EraFields DEF Descriptions, Owners
    <2>6. guards' = guards  BY <1>4 DEF Stop
    <2> QED  BY <1>0, <2>1, <2>3, <2>4, <2>5, <2>6, GrantTyped DEF Verbs
  <1>5. CASE Attach
    BY <1>0, <1>5 DEF Attach, Guards
  <1>6. CASE Detach
    BY <1>0, <1>6 DEF Detach
  <1>7. CASE RekeyStart
    <2>1. PICK t \in granted, to \in Keys :
            granted' = granted \cup
              {[t EXCEPT !.key = to, !.obs = None, !.window = None]}
      BY <1>7 DEF RekeyStart
    <2>2. t \in Tickets  BY <1>0
    <2>3. [t EXCEPT !.key = to, !.obs = None, !.window = None] \in Tickets
      BY <2>2 DEF Tickets
    <2>4. guards' = guards  BY <1>7 DEF RekeyStart
    <2> QED  BY <1>0, <2>1, <2>3, <2>4
  <1>8. CASE granted' = granted /\ guards' = guards
    BY <1>0, <1>8
  <1> QED  BY <1>1, <1>2, <1>3, <1>4, <1>5, <1>6, <1>7, <1>8
           DEF Call, Commit, Rebind, Fail, Fence, Confirm, Clear, Exit,
               MoveLive, AliasPlaceholder, Register, Settle, Sweep,
               RecoverStart

LEMMA LivedTyped ==
    ASSUME lived \subseteq LiveEras, lived' = lived \cup LiveNow',
           reg' \in [Keys -> Records \cup {None}]
    PROVE  lived' \subseteq LiveEras
  <1>1. ASSUME NEW k \in Keys, Is(k, "Live")'
        PROVE  reg'[k].state.owner \in Owners /\ reg'[k].state.gen \in Nat
    <2>1. reg'[k] \in Records  BY <1>1 DEF Is, HasRecord
    <2>2. reg'[k].state \in States /\ reg'[k].state.tag = "Live"
      BY <1>1, <2>1 DEF Is, Records
    <2> QED  BY <2>2, StateFields
  <1>2. LiveNow' \subseteq LiveEras  BY <1>1 DEF LiveNow, LiveEras
  <1> QED  BY <1>2

LEMMA TypeInit == Init => TypeOK
  BY DEF Init, RegistryInit, TypeOK, RegistryTypeOK

LEMMA TypeStep == TypeOK /\ [Next]_vars => TypeOK'
  <1> SUFFICES ASSUME TypeOK, [Next]_vars PROVE TypeOK'
    OBVIOUS
  <1>1. CASE Call /\ lived' = lived \cup LiveNow'
    <2>1. RegistryTypeOK /\ epoch \in Nat /\ lived \subseteq LiveEras
      BY DEF TypeOK, RegistryTypeOK
    <2>2. RegStep /\ epoch' = epoch /\ dropped' \subseteq Ops
      BY <1>1, CallStep
    <2>3. reg' \in [Keys -> Records \cup {None}]  BY <2>1, <2>2, ShapeTyped
    <2>4. granted' \subseteq Tickets /\ guards' \subseteq Guards
      BY <1>1, CallGhosts
    <2>5. lived' \subseteq LiveEras  BY <1>1, <2>1, <2>3, LivedTyped
    <2> QED  BY <2>1, <2>2, <2>3, <2>4, <2>5 DEF TypeOK, RegistryTypeOK
  <1>2. CASE Restart
    BY <1>2 DEF Restart, TypeOK, RegistryTypeOK
  <1>3. CASE UNCHANGED vars
    BY <1>3 DEF vars, TypeOK, RegistryTypeOK
  <1> QED  BY <1>1, <1>2, <1>3 DEF Next

(* Type correctness of the registry and of what its callers hold, for any  *)
(* set of session ids, operations and windows (every method of lib.rs).    *)
THEOREM TypeCorrect == Spec => []TypeOK
  BY TypeInit, TypeStep, PTL DEF Spec

-----------------------------------------------------------------------------
(* Forwarding.                                                             *)

Forwarding == AliasTargetExists /\ NoAliasCycle

(* A key that had a record keeps one, and an Aliased key its target.       *)
LEMMA RecordsStay ==
    ASSUME RegistryTypeOK, RegStep, NEW k \in Keys
    PROVE  /\ HasRecord(k) => HasRecord(k)'
           /\ Is(k, "Aliased") =>
                 \/ Is(k, "Aliased")' /\ AliasTarget(k)' = AliasTarget(k)
                 \/ ForwardStep
  BY NoRecordAssumption
     DEF RegistryTypeOK, RegStep, PlainStep, ForwardStep, PlaceholderStep,
         HasRecord, Is, AliasTarget

LEMMA PlainForwarding ==
    ASSUME RegistryTypeOK, Forwarding, PlainStep \/ reg' = reg
    PROVE  Forwarding'
  <1>1. \A k \in Keys : HasRecord(k) => HasRecord(k)'
    BY RecordsStay DEF RegStep
  <1>2. \A k \in Keys : Is(k, "Aliased")' =>
          Is(k, "Aliased") /\ AliasTarget(k)' = AliasTarget(k)
    BY DEF RegistryTypeOK, PlainStep, HasRecord, Is, AliasTarget
  <1>3. \A k \in Keys : Is(k, "Aliased") => HasRecord(AliasTarget(k))
    BY DEF Forwarding, AliasTargetExists
  <1>4. AliasTargetExists'
    <2> SUFFICES ASSUME NEW k \in Keys, Is(k, "Aliased")'
                 PROVE  HasRecord(AliasTarget(k))'
      BY DEF AliasTargetExists
    <2>1. reg[k] \in Records /\ reg[k].state.tag = "Aliased"
      BY <1>2, RecordTyped DEF Is
    <2>2. AliasTarget(k) \in Keys
      BY <2>1, StateFields DEF AliasTarget, Records
    <2>3. HasRecord(AliasTarget(k))  BY <1>2, <1>3
    <2>4. AliasTarget(k)' = AliasTarget(k)  BY <1>2
    <2> QED  BY <1>1, <2>2, <2>3, <2>4 DEF HasRecord
  <1>5. NoAliasCycle'  BY <1>2 DEF Forwarding, NoAliasCycle
  <1> QED  BY <1>4, <1>5 DEF Forwarding

(* The new edge leads to a key that forwards nowhere.                      *)
LEMMA ForwardForwarding ==
    ASSUME RegistryTypeOK, Forwarding, ForwardStep
    PROVE  Forwarding'
  <1>1. PICK from \in Keys, to \in Keys, a \in Records, r \in Records :
          /\ from # to
          /\ a.state.tag = "Aliased" /\ a.state.to = to
          /\ r.state.tag # "Aliased"
          /\ ~Is(from, "Aliased") /\ ~Is(to, "Aliased")
          /\ RecordOf(to).generation <= r.generation
          /\ reg' = [reg EXCEPT ![from] = a, ![to] = r]
    BY DEF ForwardStep
  <1>2. reg \in [Keys -> Records \cup {None}]  BY DEF RegistryTypeOK
  <1>3. reg'[from] = a /\ reg'[to] = r  BY <1>1, <1>2
  <1>4. \A k \in Keys \ {from, to} : reg'[k] = reg[k]  BY <1>1, <1>2
  <1>5. ~Is(to, "Aliased")'  BY <1>1, <1>3 DEF Is
  <1>6. Is(from, "Aliased")' /\ AliasTarget(from)' = to
    BY <1>1, <1>3, NoRecordAssumption DEF Is, HasRecord, AliasTarget
  <1>7. \A k \in Keys \ {from, to} :
          Is(k, "Aliased")' =>
             Is(k, "Aliased") /\ AliasTarget(k)' = AliasTarget(k)
    BY <1>4 DEF Is, HasRecord, AliasTarget
  <1>8. \A k \in Keys : HasRecord(k) => HasRecord(k)'
    BY RecordsStay DEF RegStep
  <1>9. AliasTargetExists'
    <2> SUFFICES ASSUME NEW k \in Keys, Is(k, "Aliased")'
                 PROVE  HasRecord(AliasTarget(k))'
      BY DEF AliasTargetExists
    <2>1. CASE k = from
      BY <1>1, <1>3, <1>6, <2>1, NoRecordAssumption DEF HasRecord
    <2>2. CASE k # from
      <3>1. k \in Keys \ {from, to}  BY <1>5, <2>2
      <3>2. Is(k, "Aliased") /\ AliasTarget(k)' = AliasTarget(k)
        BY <1>7, <3>1
      <3>3. AliasTarget(k) \in Keys
        <4>1. reg[k] \in Records /\ reg[k].state.tag = "Aliased"
          BY <3>2, RecordTyped DEF Is
        <4> QED  BY <4>1, StateFields DEF AliasTarget, Records
      <3>4. HasRecord(AliasTarget(k))
        BY <3>2 DEF Forwarding, AliasTargetExists
      <3> QED  BY <1>8, <3>2, <3>3, <3>4 DEF HasRecord
    <2> QED  BY <2>1, <2>2
  <1>10. NoAliasCycle'
    <2> SUFFICES ASSUME NEW S \in (SUBSET Keys) \ {{}}
                 PROVE  \E k \in S :
                          ~(Is(k, "Aliased")' /\ AliasTarget(k)' \in S)
      BY DEF NoAliasCycle
    <2>1. CASE to \in S  BY <1>5, <2>1
    <2>2. CASE to \notin S /\ from \in S  BY <1>6, <2>2
    <2>3. CASE to \notin S /\ from \notin S
      <3>1. PICK k \in S : ~(Is(k, "Aliased") /\ AliasTarget(k) \in S)
        BY DEF Forwarding, NoAliasCycle
      <3>2. k \in Keys \ {from, to}  BY <2>3
      <3> QED  BY <1>7, <3>1, <3>2
    <2> QED  BY <2>1, <2>2, <2>3
  <1> QED  BY <1>9, <1>10 DEF Forwarding

(* The new edge leaves a key that nothing forwards to.                     *)
LEMMA PlaceholderForwarding ==
    ASSUME RegistryTypeOK, Forwarding, PlaceholderStep
    PROVE  Forwarding'
  <1>1. PICK from \in Keys, to \in Keys, a \in Records :
          /\ ~HasRecord(from) /\ HasRecord(to)
          /\ a.state.tag = "Aliased" /\ a.state.to = to
          /\ reg' = [reg EXCEPT ![from] = a]
    BY DEF PlaceholderStep
  <1>2. reg \in [Keys -> Records \cup {None}]  BY DEF RegistryTypeOK
  <1>3. reg'[from] = a  BY <1>1, <1>2
  <1>4. \A k \in Keys \ {from} : reg'[k] = reg[k]  BY <1>1, <1>2
  <1>5. AliasTarget(from)' = to /\ from # to
    BY <1>1, <1>3 DEF AliasTarget, HasRecord
  <1>6. \A k \in Keys \ {from} :
          Is(k, "Aliased")' =>
             Is(k, "Aliased") /\ AliasTarget(k)' = AliasTarget(k)
    BY <1>4 DEF Is, HasRecord, AliasTarget
  <1>7. \A k \in Keys : HasRecord(k) => HasRecord(k)'
    BY RecordsStay DEF RegStep
  <1>8. \A k \in Keys : Is(k, "Aliased") =>
          HasRecord(AliasTarget(k)) /\ AliasTarget(k) # from
    BY <1>1 DEF Forwarding, AliasTargetExists
  <1>9. AliasTargetExists'
    <2> SUFFICES ASSUME NEW k \in Keys, Is(k, "Aliased")'
                 PROVE  HasRecord(AliasTarget(k))'
      BY DEF AliasTargetExists
    <2>1. CASE k = from
      <3>1. HasRecord(to)'  BY <1>1, <1>7
      <3> QED  BY <1>5, <2>1, <3>1 DEF HasRecord
    <2>2. CASE k # from
      <3>1. Is(k, "Aliased") /\ AliasTarget(k)' = AliasTarget(k)
        BY <1>6, <2>2
      <3>2. AliasTarget(k) \in Keys
        <4>1. reg[k] \in Records /\ reg[k].state.tag = "Aliased"
          BY <3>1, RecordTyped DEF Is
        <4> QED  BY <4>1, StateFields DEF AliasTarget, Records
      <3> QED  BY <1>7, <1>8, <3>1, <3>2 DEF HasRecord
    <2> QED  BY <2>1, <2>2
  <1>10. NoAliasCycle'
    <2> SUFFICES ASSUME NEW S \in (SUBSET Keys) \ {{}}
                 PROVE  \E k \in S :
                          ~(Is(k, "Aliased")' /\ AliasTarget(k)' \in S)
      BY DEF NoAliasCycle
    <2>1. CASE S = {from}  BY <1>5, <2>1
    <2>2. CASE S # {from}
      <3>1. PICK k \in S \ {from} :
              ~(Is(k, "Aliased") /\ AliasTarget(k) \in S \ {from})
        <4>1. S \ {from} \in (SUBSET Keys) \ {{}}  BY <2>2
        <4> QED  BY <4>1 DEF Forwarding, NoAliasCycle
      <3>2. ~(Is(k, "Aliased") /\ AliasTarget(k) \in S)  BY <1>8, <3>1
      <3>3. k \in Keys \ {from}  BY <3>1
      <3> QED  BY <1>6, <3>2, <3>3
    <2> QED  BY <2>1, <2>2
  <1> QED  BY <1>9, <1>10 DEF Forwarding

LEMMA ForwardingStep == TypeOK /\ Forwarding /\ [Next]_vars => Forwarding'
  <1> SUFFICES ASSUME TypeOK, Forwarding, [Next]_vars PROVE Forwarding'
    OBVIOUS
  <1>1. RegistryTypeOK  BY DEF TypeOK
  <1>2. CASE Call
    <2>1. RegStep  BY <1>2, CallStep
    <2> QED  BY <1>1, <2>1, PlainForwarding, ForwardForwarding,
                PlaceholderForwarding DEF RegStep
  <1>3. CASE Restart
    <2>1. reg' = [k \in Keys |-> None]  BY <1>3 DEF Restart
    <2>2. \A k \in Keys : ~Is(k, "Aliased")'  BY <2>1 DEF Is, HasRecord
    <2> QED  BY <2>2 DEF Forwarding, AliasTargetExists, NoAliasCycle
  <1>4. CASE UNCHANGED vars
    <2>1. reg' = reg  BY <1>4 DEF vars
    <2> QED  BY <1>1, <2>1, PlainForwarding
  <1> QED  BY <1>2, <1>3, <1>4 DEF Next

(* Forwarding records never form a cycle and never dangle, whatever moves  *)
(* of session ids the lanes combine (commit_live_rekey, rekey_starting,    *)
(* rekey_live, commit_live_rekey_from_terminal, alias_vacant_key).         *)
THEOREM ForwardingEnds == Spec => [](NoAliasCycle /\ AliasTargetExists)
  <1>1. Init => Forwarding
    BY DEF Init, RegistryInit, Forwarding, AliasTargetExists, NoAliasCycle,
           Is, HasRecord
  <1>2. Forwarding => NoAliasCycle /\ AliasTargetExists  BY DEF Forwarding
  <1> QED  BY <1>1, <1>2, TypeCorrect, ForwardingStep, PTL DEF Spec

-----------------------------------------------------------------------------
(* Generations.                                                            *)

(* The strengthening: the counter of a key bounds the tickets granted for  *)
(* it until the key is forwarded, and nobody is granted a forwarded key.   *)
TicketsBounded ==
    \A t \in granted :
        /\ HasRecord(t.key)
        /\ ~Is(t.key, "Aliased") => t.gen <= reg[t.key].generation

(* A step grants at most one ticket, at a generation above the counter of  *)
(* a key that is not forwarded.                                            *)
GrantStep ==
    \/ granted' = granted
    \/ \E n \in Tickets :
          /\ granted' = granted \cup {n}
          /\ HasRecord(n.key)' /\ n.gen <= reg'[n.key].generation
          /\ HasRecord(n.key) =>
                ~Is(n.key, "Aliased") /\ reg[n.key].generation < n.gen

LEMMA CounterGrows ==
    ASSUME RegistryTypeOK, RegStep, NEW k \in Keys, HasRecord(k)
    PROVE  /\ HasRecord(k)'
           /\ ~Is(k, "Aliased")' =>
                 ~Is(k, "Aliased") /\ reg[k].generation <= reg'[k].generation
  <1>0. /\ reg \in [Keys -> Records \cup {None}] /\ reg[k] \in Records
        /\ RecordOf(k) = reg[k] /\ reg[k].generation \in Nat
    BY RecordTyped DEF RegistryTypeOK, RecordOf, Records
  <1>1. CASE PlainStep
    <2>1. PICK j \in Keys, r \in Records :
            /\ reg' = [reg EXCEPT ![j] = r]
            /\ \/ r.state.tag # "Aliased" /\ ~Is(j, "Aliased")
               \/ HasRecord(j) /\ r.state = reg[j].state
            /\ RecordOf(j).generation <= r.generation
      BY <1>1 DEF PlainStep
    <2>2. CASE j = k
      BY <1>0, <2>1, <2>2, NoRecordAssumption DEF HasRecord, Is
    <2>3. CASE j # k  BY <1>0, <2>1, <2>3 DEF HasRecord, Is
    <2> QED  BY <2>2, <2>3
  <1>2. CASE ForwardStep
    <2>1. PICK from \in Keys, to \in Keys, a \in Records, r \in Records :
            /\ from # to
            /\ a.state.tag = "Aliased" /\ a.state.to = to
            /\ r.state.tag # "Aliased"
            /\ ~Is(from, "Aliased") /\ ~Is(to, "Aliased")
            /\ RecordOf(to).generation <= r.generation
            /\ reg' = [reg EXCEPT ![from] = a, ![to] = r]
      BY <1>2 DEF ForwardStep
    <2>2. CASE k = from
      BY <1>0, <2>1, <2>2, NoRecordAssumption DEF HasRecord, Is
    <2>3. CASE k = to
      BY <1>0, <2>1, <2>3, NoRecordAssumption DEF HasRecord, Is
    <2>4. CASE k # from /\ k # to
      BY <1>0, <2>1, <2>4 DEF HasRecord, Is
    <2> QED  BY <2>2, <2>3, <2>4
  <1>3. CASE PlaceholderStep
    BY <1>0, <1>3 DEF PlaceholderStep, HasRecord, Is
  <1>4. CASE reg' = reg
    BY <1>0, <1>4 DEF HasRecord, Is
  <1> QED  BY <1>1, <1>2, <1>3, <1>4 DEF RegStep

LEMMA FreshGrant ==
    ASSUME RegistryTypeOK, NEW k \in Keys, NEW op, NEW verb, NEW kind,
           NEW obs, NEW w, ClaimStep(k), Grant(k, op, verb, kind, obs, w),
           granted' \subseteq Tickets
    PROVE  GrantStep
  <1>1. PICK n \in Tickets :
          /\ granted' = granted \cup {n}
          /\ n.key = k /\ n.gen = reg'[k].generation
    BY DEF Grant
  <1>2. HasRecord(n.key)' /\ n.gen <= reg'[n.key].generation
    <2>1. reg'[k].generation \in Nat  BY DEF ClaimStep, Records
    <2> QED  BY <1>1, <2>1, NoRecordAssumption DEF HasRecord, ClaimStep
  <1>3. HasRecord(n.key) => reg[n.key].generation < n.gen
    <2>1. RecordOf(k).generation \in Nat  BY RecordTyped DEF Records
    <2> QED  BY <1>1, <2>1 DEF RecordOf, HasRecord, ClaimStep
  <1> QED  BY <1>1, <1>2, <1>3 DEF GrantStep, ClaimStep

LEMMA CallGrants ==
    ASSUME TypeOK, Call
    PROVE  GrantStep
  <1>0. /\ RegistryTypeOK /\ reg \in [Keys -> Records \cup {None}]
        /\ granted' \subseteq Tickets /\ granted \subseteq Tickets
        /\ reg' \in [Keys -> Records \cup {None}]
    <2>1. RegistryTypeOK /\ granted \subseteq Tickets  BY DEF TypeOK
    <2> QED  BY <2>1, CallGhosts, CallStep, ShapeTyped DEF RegistryTypeOK
  <1>1. \A k \in Keys : RecordOf(k) \in Records /\ RecordOf(k).generation \in Nat
    BY <1>0, RecordTyped DEF Records
  <1>2. CASE Start
    <2>1. PICK k \in Keys, kind \in Kinds, op \in Ops :
            \E obs \in Observations(k) \cup {None},
               w \in {g.window : g \in guards} \cup {None} :
               /\ BeginStart(k, kind, op, obs, w)
               /\ Grant(k, op, "start", kind, obs, w)
      BY <1>2 DEF Start
    <2>2. ClaimStep(k)  BY <1>0, <2>1, BeginStartPlain
    <2> QED  BY <1>0, <2>1, <2>2, FreshGrant
  <1>3. CASE Handoff
    <2>1. PICK k \in Keys, to \in Kinds, op \in Ops :
            \E obs \in Observations(k) \cup {None} :
               /\ BeginHandoff(k, to, op, obs)
               /\ Grant(k, op, "handoff", to, obs, None)
      BY <1>3 DEF Handoff
    <2>2. ~Is(k, "Aliased") /\ HandoffPrior(RecordOf(k)) \in OptEra
      BY <1>0, <2>1, HandoffPriorTyped DEF BeginHandoff, Is, RecordOf
    <2>3. ClaimStep(k)
      BY <1>0, <2>1, <2>2, EnterHandoffPlain DEF BeginHandoff
    <2> QED  BY <1>0, <2>1, <2>3, FreshGrant
  <1>4. CASE AcknowledgedHandoff
    <2>1. PICK k \in Keys, to \in Kinds, op \in Ops :
            \E obs \in Observations(k) :
               /\ BeginHandoffAcknowledged(k, to, op, obs)
               /\ Grant(k, op, "handoff", to, obs, None)
      BY <1>4 DEF AcknowledgedHandoff
    <2>2. HasRecord(k) /\ reg[k] = RecordOf(k) /\ reg[k].state.tag = "Fenced"
      BY <2>1 DEF BeginHandoffAcknowledged, Is, RecordOf
    <2>3. reg[k].state.prior \in OptEra
      BY <1>0, <2>2, RecordTyped, StateFields DEF Records
    <2>4. EnterHandoff(k, RecordOf(k), reg[k].state.prior, to, op)
      BY <2>1, <2>2 DEF BeginHandoffAcknowledged
    <2>5. ClaimStep(k)
      BY <1>0, <2>2, <2>3, <2>4, EnterHandoffPlain DEF Is
    <2> QED  BY <1>0, <2>1, <2>5, FreshGrant
  <1>5. CASE Stop
    <2>1. PICK k \in Keys, op \in Ops, e \in lived :
            \E expected \in Descriptions(e.owner) :
               /\ BeginStop(k, op, EraFence(e), expected)
               /\ Grant(k, op, "stop", expected.kind, EraFence(e), None)
      BY <1>5 DEF Stop
    <2>2. ClaimStep(k)  BY <1>0, <2>1, BeginStopPlain
    <2> QED  BY <1>0, <2>1, <2>2, FreshGrant
  <1>6. CASE RekeyStart
    <2>1. PICK t \in granted, to \in Keys :
            /\ RekeyStarting(t.key, to, t.op, t.gen)
            /\ granted' = granted \cup
                 {[t EXCEPT !.key = to, !.obs = None, !.window = None]}
      BY <1>6 DEF RekeyStart
    <2>2. PICK n \in Tickets : granted' = granted \cup {n} /\ n.key = to
                                /\ n.gen = t.gen
      BY <1>0, <2>1 DEF Tickets
    <2>3. /\ ~HasRecord(to) /\ reg'[to] = reg[t.key]
          /\ HasRecord(t.key) /\ reg[t.key].generation = t.gen
      BY <1>0, <2>1 DEF RekeyStarting, Holds, Is
    <2>4. n.gen \in Nat  BY DEF Tickets
    <2> QED  BY <2>2, <2>3, <2>4 DEF GrantStep, HasRecord
  <1>7. CASE granted' = granted
    BY <1>7 DEF GrantStep
  <1> QED  BY <1>2, <1>3, <1>4, <1>5, <1>6, <1>7
           DEF Call, Attach, Detach, Commit, Rebind, Fail, Fence, Confirm,
               Clear, Exit, MoveLive, AliasPlaceholder, Register, Settle,
               Sweep, RecoverStart

LEMMA GenerationsStep ==
    TypeOK /\ TicketsBounded /\ GenerationNamesOneOperation /\ [Next]_vars
        => (TicketsBounded /\ GenerationNamesOneOperation)'
  <1> SUFFICES ASSUME TypeOK, TicketsBounded, GenerationNamesOneOperation,
                      [Next]_vars
               PROVE  (TicketsBounded /\ GenerationNamesOneOperation)'
    OBVIOUS
  <1>0. RegistryTypeOK /\ granted \subseteq Tickets
    BY DEF TypeOK
  <1>1. ASSUME RegStep, GrantStep
        PROVE  (TicketsBounded /\ GenerationNamesOneOperation)'
    <2>1. ASSUME NEW t \in granted
          PROVE  /\ HasRecord(t.key)'
                 /\ ~Is(t.key, "Aliased")' => t.gen <= reg'[t.key].generation
      <3>1. t.key \in Keys /\ t.gen \in Nat  BY <1>0 DEF Tickets
      <3>2. HasRecord(t.key) /\ reg[t.key].generation \in Nat
        BY <1>0, <3>1, RecordTyped DEF TicketsBounded, Records
      <3>3. reg'[t.key].generation \in Nat
        BY <1>0, <1>1, <3>1, <3>2, CounterGrows, ShapeTyped DEF HasRecord, Records
      <3> QED  BY <1>0, <1>1, <3>1, <3>2, <3>3, CounterGrows
               DEF TicketsBounded
    <2>2. CASE granted' = granted
      BY <2>1, <2>2 DEF TicketsBounded, GenerationNamesOneOperation
    <2>3. CASE \E n \in Tickets :
                 /\ granted' = granted \cup {n}
                 /\ HasRecord(n.key)' /\ n.gen <= reg'[n.key].generation
                 /\ HasRecord(n.key) =>
                       ~Is(n.key, "Aliased") /\ reg[n.key].generation < n.gen
      <3>1. PICK n \in Tickets :
              /\ granted' = granted \cup {n}
              /\ HasRecord(n.key)' /\ n.gen <= reg'[n.key].generation
              /\ HasRecord(n.key) =>
                    ~Is(n.key, "Aliased") /\ reg[n.key].generation < n.gen
        BY <2>3
      <3>2. TicketsBounded'  BY <2>1, <3>1 DEF TicketsBounded
      <3>3. ASSUME NEW t \in granted, t.key = n.key
            PROVE  t.gen # n.gen
        <4>1. t.gen \in Nat /\ n.gen \in Nat /\ n.key \in Keys
          BY <1>0 DEF Tickets
        <4>2. HasRecord(n.key) /\ t.gen <= reg[n.key].generation
          BY <3>1, <3>3 DEF TicketsBounded
        <4>3. reg[n.key].generation \in Nat
          BY <1>0, <4>1, <4>2, RecordTyped DEF Records
        <4> QED  BY <3>1, <4>1, <4>2, <4>3
      <3>4. GenerationNamesOneOperation'
        BY <3>1, <3>3 DEF GenerationNamesOneOperation
      <3> QED  BY <3>2, <3>4
    <2> QED  BY <1>1, <2>2, <2>3 DEF GrantStep
  <1>2. CASE Call
    BY <1>1, <1>2, CallStep, CallGrants
  <1>3. CASE Restart
    BY <1>3 DEF Restart, TicketsBounded, GenerationNamesOneOperation
  <1>4. CASE UNCHANGED vars
    BY <1>1, <1>4 DEF vars, RegStep, GrantStep
  <1> QED  BY <1>2, <1>3, <1>4 DEF Next

(* A generation is granted to one operation: begin_start, begin_handoff,   *)
(* begin_stop and the moves of a record never hand out a generation of a   *)
(* key twice, so a stale (operation, generation) pair matches nothing.     *)
THEOREM GenerationsAreUnique == Spec => []GenerationNamesOneOperation
  <1>1. Init => TicketsBounded /\ GenerationNamesOneOperation
    BY DEF Init, TicketsBounded, GenerationNamesOneOperation
  <1> QED  BY <1>1, TypeCorrect, GenerationsStep, PTL DEF Spec

=============================================================================
