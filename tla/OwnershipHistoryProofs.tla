----------------------- MODULE OwnershipHistoryProofs -----------------------
(***************************************************************************)
(* What Ownership promises beyond one record: the Live eras a key had,     *)
(* the requests it granted, the witnesses and windows on its record.       *)
(***************************************************************************)
EXTENDS OwnershipProofs, FiniteSetTheorems, WellFoundedInduction

-----------------------------------------------------------------------------
(* What a step may do to one record.                                       *)

Keeps(k) ==
    /\ HasRecord(k)' <=> HasRecord(k)
    /\ RecordOf(k)'.state = RecordOf(k).state
    /\ RecordOf(k)'.generation = RecordOf(k).generation

Forwards(k) == Is(k, "Aliased")'

(* begin_start and begin_handoff.                                          *)
Claims(k) ==
    /\ ~Is(k, "Aliased")
    /\ Is(k, "Starting")' \/ Is(k, "Handoff")'
    /\ reg'[k].generation = RecordOf(k).generation + 1
    /\ reg'[k].state.gen = reg'[k].generation

(* begin_stop.                                                             *)
Interrupts(k) ==
    /\ Is(k, "Live") /\ Is(k, "Stopping")'
    /\ reg'[k].generation = reg[k].generation + 1
    /\ reg'[k].state.owner = reg[k].state.owner
    /\ reg'[k].state.priorGen = reg[k].state.gen

(* A start or a handoff goes Live at its own generation, or fails back to  *)
(* the prior at that generation.                                           *)
GoesLive(k) ==
    /\ Is(k, "Starting") \/ Is(k, "Handoff")
    /\ Is(k, "Live")'
    /\ reg'[k].generation = reg[k].generation
    /\ reg'[k].state.gen = reg'[k].generation

(* abort_stop.                                                             *)
Resumes(k) ==
    /\ Is(k, "Stopping") /\ Is(k, "Live")'
    /\ reg[k].state.owner # None /\ reg[k].state.priorGen # None
    /\ reg'[k].generation = reg[k].generation
    /\ reg'[k].state.owner = reg[k].state.owner
    /\ reg'[k].state.gen = reg[k].state.priorGen

(* Failures, releases, fences, and the stop the watchdog makes of a start. *)
Closes(k) ==
    /\ HasRecord(k) /\ ~Is(k, "Aliased")
    /\ \/ Is(k, "Vacant")' \/ Is(k, "Fenced")'
       \/ Is(k, "Stopping")' /\ reg'[k].state.priorGen = None
    /\ reg'[k].generation = reg[k].generation

(* A session id gets its first record from another one.                    *)
Appears(k) ==
    /\ ~HasRecord(k)
    /\ Is(k, "Live")' \/ Is(k, "Starting")'
    /\ reg'[k].state.gen = reg'[k].generation

Change(k) == Keeps(k) \/ Forwards(k) \/ Claims(k) \/ Interrupts(k)
               \/ GoesLive(k) \/ Resumes(k) \/ Closes(k) \/ Appears(k)

(* A claimed record is in the generation of its claim.                     *)
ClaimIsCurrent ==
    \A k \in Keys : Is(k, "Starting") \/ Is(k, "Handoff") =>
        reg[k].state.gen = reg[k].generation

(* A start that goes on has the registrations it had or its own, or it     *)
(* moved here with them.                                                   *)
Witnesses(k) ==
    Is(k, "Starting")' =>
        \/ /\ Is(k, "Starting") /\ reg'[k].state = reg[k].state
           /\ reg'[k].settle \in {reg[k].settle, reg[k].state.op}
           /\ \/ reg'[k].partial = reg[k].partial
              \/ reg'[k].partial.rt = reg[k].state.op
        \/ \E j \in Keys : Is(j, "Starting") /\ reg'[k] = reg[j]

(* A start that is claimed now has none.                                   *)
Blank(k) == reg'[k].settle = None /\ reg'[k].partial = None

SameWindows(k) ==
    /\ RecordOf(k)'.inFlight = RecordOf(k).inFlight
    /\ RecordOf(k)'.armed = RecordOf(k).armed

Step(k) == Change(k) /\ Witnesses(k) /\ SameWindows(k)

LEMMA Untouched ==
    ASSUME NEW k \in Keys, reg'[k] = reg[k]
    PROVE  Step(k)
  BY DEF Step, Change, Keeps, Witnesses, SameWindows, RecordOf, HasRecord, Is

(* The effect of replacing the state of a record.                          *)
LEMMA SetStateEffect ==
    ASSUME RegistryTypeOK, RegStep, NEW k \in Keys, HasRecord(k), NEW s,
           SetState(k, s)
    PROVE  /\ HasRecord(k)' /\ reg'[k].state = s
           /\ reg'[k].generation = reg[k].generation
           /\ SameWindows(k)
           /\ \A j \in Keys \ {k} : Step(j)
  <1>1. reg[k] \in Records /\ reg \in [Keys -> Records \cup {None}]
    BY RecordTyped DEF RegistryTypeOK
  <1>2. reg'[k] = [reg[k] EXCEPT !.state = s]  BY <1>1 DEF SetState
  <1>3. \A j \in Keys \ {k} : reg'[j] = reg[j]  BY <1>1 DEF SetState
  <1>4. /\ reg'[k].state = s
        /\ reg'[k].generation = reg[k].generation
        /\ reg'[k].inFlight = reg[k].inFlight
        /\ reg'[k].armed = reg[k].armed
    BY <1>1, <1>2 DEF Records
  <1>5. HasRecord(k)'  BY CounterGrows
  <1>6. SameWindows(k)  BY <1>4, <1>5 DEF SameWindows, RecordOf, HasRecord
  <1> QED  BY <1>3, <1>4, <1>5, <1>6, Untouched

(* Ends of an operation that leave nobody Live.                            *)
LEMMA ClosingSteps ==
    ASSUME RegistryTypeOK, RegStep, NEW k \in Keys, NEW op, NEW gen,
           NEW owner, NEW reason, NEW unconfirmed,
           \/ FailStart(k, op, gen) \/ CommitStop(k, op, gen)
           \/ Release(k, owner, gen) \/ ReleaseFenced(k, op, gen)
           \/ ForceReleaseForConfirmedKill(k, op, gen, owner)
           \/ FenceUnconfirmedHandoff(k, op, gen, reason, unconfirmed)
           \/ FenceUnconfirmedStop(k, op, gen, reason)
           \/ FenceUnconfirmedLive(k, gen, owner, reason)
           \/ RecoverStaleStopping(k)
    PROVE  \A j \in Keys : Step(j)
  <1>1. PICK s : SetState(k, s) /\ (s.tag = "Vacant" \/ s.tag = "Fenced")
    BY DEF FailStart, CommitStop, Release, ReleaseFenced,
           ForceReleaseForConfirmedKill, FenceUnconfirmedHandoff,
           FenceUnconfirmedStop, FenceUnconfirmedLive, RecoverStaleStopping,
           Vacant, FencedState
  <1>2. HasRecord(k) /\ ~Is(k, "Aliased")
    BY DEF FailStart, CommitStop, Release, ReleaseFenced,
           ForceReleaseForConfirmedKill, FenceUnconfirmedHandoff,
           FenceUnconfirmedStop, FenceUnconfirmedLive, RecoverStaleStopping,
           Holds, LiveMatches, Is
  <1>3. Closes(k) /\ ~Is(k, "Starting")' /\ SameWindows(k)
    BY <1>1, <1>2, SetStateEffect DEF Closes, Is
  <1>4. \A j \in Keys \ {k} : Step(j)
    BY <1>1, <1>2, SetStateEffect
  <1> QED  BY <1>3, <1>4 DEF Step, Change, Witnesses

LEMMA CommitLiveSteps ==
    ASSUME RegistryTypeOK, RegStep, NEW k \in Keys, NEW op, NEW gen,
           NEW owner, CommitLive(k, op, gen, owner)
    PROVE  \A j \in Keys : Step(j)
  <1>1. GoesLive(k) /\ ~Is(k, "Starting")' /\ SameWindows(k)
    BY SetStateEffect DEF CommitLive, Holds, Is, GoesLive, LiveState
  <1>2. \A j \in Keys \ {k} : Step(j)
    BY SetStateEffect DEF CommitLive, Holds, Is
  <1> QED  BY <1>1, <1>2 DEF Step, Change, Witnesses

LEMMA AbortStopSteps ==
    ASSUME RegistryTypeOK, RegStep, NEW k \in Keys, NEW op, NEW gen,
           AbortStop(k, op, gen)
    PROVE  \A j \in Keys : Step(j)
  <1>1. Resumes(k) /\ ~Is(k, "Starting")' /\ SameWindows(k)
    BY SetStateEffect DEF AbortStop, Holds, Is, Resumes, LiveState
  <1>2. \A j \in Keys \ {k} : Step(j)
    BY SetStateEffect DEF AbortStop, Holds, Is
  <1> QED  BY <1>1, <1>2 DEF Step, Change, Witnesses

LEMMA FailHandoffSteps ==
    ASSUME RegistryTypeOK, RegStep, NEW k \in Keys, NEW op, NEW gen,
           NEW alive, FailHandoff(k, op, gen, alive)
    PROVE  \A j \in Keys : Step(j)
  <1>1. Is(k, "Handoff") /\ HasRecord(k) /\ reg[k].generation = gen
    BY DEF FailHandoff, Holds, Is
  <1>2. (GoesLive(k) \/ Closes(k)) /\ ~Is(k, "Starting")' /\ SameWindows(k)
    <2>1. CASE SetState(k, Vacant)
      BY <1>1, <2>1, SetStateEffect DEF Is, Closes, Vacant
    <2>2. CASE SetState(k, LiveState(reg[k].state.prior.owner,
                                     reg[k].generation))
      BY <1>1, <2>2, SetStateEffect DEF Is, GoesLive, LiveState
    <2> QED  BY <2>1, <2>2 DEF FailHandoff
  <1>3. \A j \in Keys \ {k} : Step(j)
    BY <1>1, SetStateEffect DEF FailHandoff
  <1> QED  BY <1>2, <1>3 DEF Step, Change, Witnesses

-----------------------------------------------------------------------------
(* Steps that replace whole records.                                       *)

LEMMA PlacedRecord ==
    ASSUME RegistryTypeOK, NEW k \in Keys, NEW r, reg' = [reg EXCEPT ![k] = r]
    PROVE  reg'[k] = r /\ \A j \in Keys \ {k} : Step(j)
  <1>1. reg \in [Keys -> Records \cup {None}]  BY DEF RegistryTypeOK
  <1> QED  BY <1>1, Untouched

LEMMA StartingFields ==
    ASSUME NEW r \in Records, NEW gen, NEW st, NEW x, NEW y
    PROVE  LET n == [r EXCEPT !.generation = gen, !.state = st,
                              !.settle = x, !.partial = y]
           IN  /\ n.state = st /\ n.settle = x /\ n.partial = y
               /\ n.inFlight = r.inFlight /\ n.armed = r.armed
  BY DEF Records

LEMMA StoppingFields ==
    ASSUME NEW r \in Records, NEW st, NEW x
    PROVE  LET n == [r EXCEPT !.state = st, !.partial = x]
           IN  /\ n.state = st /\ n.generation = r.generation
               /\ n.inFlight = r.inFlight /\ n.armed = r.armed
  BY DEF Records

LEMMA BeginStartSteps ==
    ASSUME RegistryTypeOK, NEW k \in Keys, NEW kind \in Kinds, NEW op \in Ops,
           NEW obs, NEW window, BeginStart(k, kind, op, obs, window)
    PROVE  /\ \A j \in Keys : Change(j) /\ SameWindows(j)
           /\ \A j \in Keys \ {k} : Step(j)
           /\ Blank(k)
           /\ RecordOf(k).inFlight = 0 \/ window \in RecordOf(k).armed
           /\ reg'[k].state = StartingState(kind, op, reg'[k].generation)
  <1> DEFINE old == RecordOf(k)
             st == StartingState(kind, op, old.generation + 1)
             new == [old EXCEPT !.generation = old.generation + 1, !.state = st,
                                !.settle = None, !.partial = None]
  <1>1. ClaimStep(k)  BY BeginStartPlain
  <1>2. old \in Records /\ reg' = [reg EXCEPT ![k] = new]
    BY RecordTyped DEF BeginStart
  <1> HIDE DEF old, st
  <1>3. reg'[k] = new /\ \A j \in Keys \ {k} : Step(j)
    BY <1>2, PlacedRecord
  <1>6. /\ new.state = st /\ new.settle = None /\ new.partial = None
        /\ new.inFlight = old.inFlight /\ new.armed = old.armed
    BY <1>2, StartingFields
  <1> HIDE DEF new
  <1>4. HasRecord(k)'  BY <1>1, NoRecordAssumption DEF ClaimStep, HasRecord
  <1>5. Claims(k) /\ Blank(k) /\ SameWindows(k)
    BY <1>1, <1>3, <1>4, <1>6 DEF Claims, ClaimStep, Blank, SameWindows,
       Is, RecordOf, HasRecord, StartingState, old, st
  <1>7. reg'[k].state = StartingState(kind, op, reg'[k].generation)
    BY <1>1, <1>3, <1>6 DEF ClaimStep, old, st
  <1> QED  BY <1>3, <1>5, <1>7 DEF Step, Change, BeginStart

LEMMA EnterHandoffSteps ==
    ASSUME RegistryTypeOK, NEW k \in Keys, NEW prior \in OptEra,
           NEW to \in Kinds, NEW op \in Ops,
           ~Is(k, "Aliased"), EnterHandoff(k, RecordOf(k), prior, to, op)
    PROVE  \A j \in Keys : Step(j)
  <1> DEFINE old == RecordOf(k)
             st == HandoffState(prior, to, op, old.generation + 1)
             new == [old EXCEPT !.generation = old.generation + 1, !.state = st]
  <1>1. ClaimStep(k)  BY EnterHandoffPlain
  <1>2. old \in Records /\ reg' = [reg EXCEPT ![k] = new]
    BY RecordTyped DEF EnterHandoff
  <1> HIDE DEF old, st
  <1>3. reg'[k] = new /\ \A j \in Keys \ {k} : Step(j)
    BY <1>2, PlacedRecord
  <1>6. /\ reg'[k].state = st
        /\ reg'[k].inFlight = old.inFlight
        /\ reg'[k].armed = old.armed
    BY <1>2, <1>3 DEF Records
  <1>4. HasRecord(k)'  BY <1>1, NoRecordAssumption DEF ClaimStep, HasRecord
  <1>5. Claims(k) /\ Witnesses(k) /\ SameWindows(k)
    BY <1>1, <1>4, <1>6 DEF Claims, ClaimStep, Witnesses, SameWindows, Is,
       RecordOf, HasRecord, HandoffState, old, st
  <1> QED  BY <1>3, <1>5 DEF Step, Change

LEMMA BeginStopSteps ==
    ASSUME RegistryTypeOK, NEW k \in Keys, NEW op \in Ops, NEW obs,
           NEW expected, BeginStop(k, op, obs, expected)
    PROVE  \A j \in Keys : Step(j)
  <1> DEFINE old == reg[k]
             st == StoppingState(old.state.owner, old.state.gen, op,
                                 old.generation + 1)
             new == [old EXCEPT !.generation = old.generation + 1, !.state = st]
  <1>1. ClaimStep(k)  BY BeginStopPlain
  <1>2. /\ Is(k, "Live") /\ RecordOf(k) = old /\ old \in Records
        /\ reg' = [reg EXCEPT ![k] = new]
    BY RecordTyped DEF BeginStop, Is, RecordOf
  <1> HIDE DEF old, st
  <1>3. reg'[k] = new /\ \A j \in Keys \ {k} : Step(j)
    BY <1>2, PlacedRecord
  <1>6. /\ reg'[k].state = st
        /\ reg'[k].inFlight = old.inFlight
        /\ reg'[k].armed = old.armed
    BY <1>2, <1>3 DEF Records
  <1>4. HasRecord(k)'  BY <1>1, NoRecordAssumption DEF ClaimStep, HasRecord
  <1>5. Interrupts(k) /\ Witnesses(k) /\ SameWindows(k)
    BY <1>1, <1>2, <1>4, <1>6 DEF Interrupts, ClaimStep, Witnesses,
       SameWindows, Is, RecordOf, HasRecord, StoppingState, old, st
  <1> QED  BY <1>3, <1>5 DEF Step, Change

LEMMA RegisterSteps ==
    ASSUME RegistryTypeOK, RegStep, NEW k \in Keys, NEW op \in Ops, NEW gen,
           NEW owner, owner.rt = op,
           \/ RegisterStartCancellation(k, op, gen)
           \/ RegisterPartialRuntime(k, op, gen, owner)
           \/ RegisterStopSettlement(k, op, gen)
    PROVE  \A j \in Keys : Step(j)
  <1>1. HasRecord(k) /\ HasRecord(k)' /\ reg[k] \in Records
    BY CounterGrows, RecordTyped
       DEF RegisterStartCancellation, RegisterPartialRuntime,
           RegisterStopSettlement, Is
  <1>2. /\ reg'[k].state = reg[k].state
        /\ reg'[k].generation = reg[k].generation
        /\ reg'[k].inFlight = reg[k].inFlight
        /\ reg'[k].armed = reg[k].armed
        /\ \A j \in Keys \ {k} : Step(j)
        /\ Is(k, "Starting") =>
              /\ reg'[k].settle \in {reg[k].settle, reg[k].state.op}
              /\ \/ reg'[k].partial = reg[k].partial
                 \/ reg'[k].partial.rt = reg[k].state.op
    <2>1. CASE RegisterStartCancellation(k, op, gen)
      <3>1. reg' = [reg EXCEPT ![k] = [reg[k] EXCEPT !.settle = op]]
        BY <2>1 DEF RegisterStartCancellation
      <3>2. /\ reg'[k] = [reg[k] EXCEPT !.settle = op]
            /\ \A j \in Keys \ {k} : Step(j)
        BY <3>1, PlacedRecord
      <3> QED  BY <1>1, <2>1, <3>2 DEF RegisterStartCancellation, Records
    <2>2. CASE RegisterPartialRuntime(k, op, gen, owner)
      <3>1. reg' = [reg EXCEPT ![k] = [reg[k] EXCEPT !.partial = owner]]
        BY <2>2 DEF RegisterPartialRuntime
      <3>2. /\ reg'[k] = [reg[k] EXCEPT !.partial = owner]
            /\ \A j \in Keys \ {k} : Step(j)
        BY <3>1, PlacedRecord
      <3> QED  BY <1>1, <2>2, <3>2 DEF RegisterPartialRuntime, Records
    <2>3. CASE RegisterStopSettlement(k, op, gen)
      <3>1. reg' = [reg EXCEPT ![k] = [reg[k] EXCEPT !.stopSettled = op]]
        BY <2>3 DEF RegisterStopSettlement
      <3>2. /\ reg'[k] = [reg[k] EXCEPT !.stopSettled = op]
            /\ \A j \in Keys \ {k} : Step(j)
        BY <3>1, PlacedRecord
      <3> QED  BY <1>1, <3>2 DEF Records
    <2> QED  BY <2>1, <2>2, <2>3
  <1>3. Keeps(k) /\ Witnesses(k) /\ SameWindows(k)
    BY <1>1, <1>2 DEF Keeps, Witnesses, SameWindows, RecordOf, HasRecord, Is
  <1> QED  BY <1>2, <1>3 DEF Step, Change

LEMMA RecoverStartSteps ==
    ASSUME RegistryTypeOK, RegStep, NEW k \in Keys, RecoverStaleStart(k)
    PROVE  \A j \in Keys : Step(j)
  <1>1. /\ HasRecord(k) /\ HasRecord(k)' /\ reg[k] \in Records
        /\ Is(k, "Starting")
    BY CounterGrows, RecordTyped DEF RecoverStaleStart, Is
  <1> DEFINE st == StoppingState(reg[k].partial, None, reg[k].state.op,
                                 reg[k].state.gen)
             new == [reg[k] EXCEPT !.state = st, !.partial = None]
  <1>4. /\ reg' = [reg EXCEPT ![k] = new]
        /\ st.tag = "Stopping" /\ st.priorGen = None
    BY DEF RecoverStaleStart, StoppingState
  <1> HIDE DEF st
  <1>5. reg'[k] = new /\ \A j \in Keys \ {k} : Step(j)
    BY <1>4, PlacedRecord
  <1>2. /\ new.state = st /\ new.generation = reg[k].generation
        /\ new.inFlight = reg[k].inFlight /\ new.armed = reg[k].armed
    BY <1>1, StoppingFields
  <1> HIDE DEF new
  <1>3. Closes(k) /\ Witnesses(k) /\ SameWindows(k)
    BY <1>1, <1>2, <1>4, <1>5
       DEF Closes, Witnesses, SameWindows, RecordOf, HasRecord, Is
  <1> QED  BY <1>3, <1>5 DEF Step, Change

LEMMA ClearSteps ==
    ASSUME RegistryTypeOK, RegStep, NEW k \in Keys, NEW obs,
           ForceReleasePlatformLimited(k, obs)
    PROVE  \A j \in Keys : Step(j)
  <1>1. /\ HasRecord(k) /\ HasRecord(k)' /\ reg[k] \in Records
        /\ reg[k].state \in States /\ reg[k].state.tag = "Fenced"
    BY CounterGrows, RecordTyped DEF ForceReleasePlatformLimited, Is, Records
  <1> DEFINE st == [reg[k].state EXCEPT !.reason = "ClearedUnverified"]
  <1>2. st.tag = "Fenced" /\ SetState(k, st)
    BY <1>1 DEF States, ForceReleasePlatformLimited, SetState
  <1> HIDE DEF st
  <1>3. /\ reg'[k].state = st /\ reg'[k].generation = reg[k].generation
        /\ SameWindows(k) /\ \A j \in Keys \ {k} : Step(j)
    BY <1>1, <1>2, SetStateEffect
  <1>4. Closes(k) /\ Witnesses(k)
    BY <1>1, <1>2, <1>3
       DEF Closes, Witnesses, SameWindows, RecordOf, HasRecord, Is
  <1> QED  BY <1>3, <1>4 DEF Step, Change

-----------------------------------------------------------------------------
(* Steps that move a session to another key.                               *)

LEMMA PlacedRecords ==
    ASSUME RegistryTypeOK, NEW k \in Keys, NEW to \in Keys, k # to,
           NEW a, NEW r, reg' = [reg EXCEPT ![k] = a, ![to] = r]
    PROVE  /\ reg'[k] = a /\ reg'[to] = r
           /\ \A j \in Keys \ {k, to} : Step(j)
  <1>1. reg \in [Keys -> Records \cup {None}]  BY DEF RegistryTypeOK
  <1> QED  BY <1>1, Untouched

(* The first record of a key, built from the default, has no windows.      *)
LEMMA NewFields ==
    ASSUME NEW gen, NEW st
    PROVE  LET n == [EmptyRecord EXCEPT !.generation = gen, !.state = st]
           IN  n.inFlight = 0 /\ n.armed = {}
  BY DEF EmptyRecord

(* A record whose counter and state are replaced, windows and all else     *)
(* left.                                                                   *)
LEMMA MovedFields ==
    ASSUME NEW r \in Records, NEW gen, NEW st
    PROVE  /\ LET n == [r EXCEPT !.state = st]
              IN  /\ n.state = st /\ n.generation = r.generation
                  /\ n.inFlight = r.inFlight /\ n.armed = r.armed
           /\ LET n == [r EXCEPT !.generation = gen, !.state = st]
              IN  /\ n.state = st /\ n.generation = gen
                  /\ n.inFlight = r.inFlight /\ n.armed = r.armed
  BY DEF Records

(* The key left behind becomes a forwarding record, its windows stay.      *)
LEMMA LeftBehind ==
    ASSUME NEW k \in Keys, HasRecord(k), HasRecord(k)',
           reg'[k].state.tag = "Aliased",
           reg'[k].inFlight = reg[k].inFlight, reg'[k].armed = reg[k].armed
    PROVE  Step(k)
  BY DEF Step, Change, Forwards, Witnesses, SameWindows, RecordOf, HasRecord, Is

(* The key moved to has its first record, Live and without windows.        *)
LEMMA BornLive ==
    ASSUME NEW to \in Keys, ~HasRecord(to), reg'[to] # None,
           reg'[to].state.tag = "Live",
           reg'[to].state.gen = reg'[to].generation,
           reg'[to].inFlight = 0, reg'[to].armed = {}
    PROVE  Step(to)
  BY DEF Step, Change, Appears, Witnesses, SameWindows, RecordOf, HasRecord,
         Is, EmptyRecord

LEMMA CommitLiveRekeySteps ==
    ASSUME RegistryTypeOK, RegStep, NEW k \in Keys, NEW to \in Keys,
           NEW op, NEW gen \in Nat, NEW owner \in Owners,
           CommitLiveRekey(k, to, op, gen, owner)
    PROVE  \A j \in Keys : Step(j)
  <1> DEFINE al == AliasedState(to, gen)
             st == LiveState(owner, gen)
             a == [reg[k] EXCEPT !.state = al]
             r == [EmptyRecord EXCEPT !.generation = gen, !.state = st]
  <1>1. /\ HasRecord(k) /\ ~HasRecord(to) /\ k # to /\ reg[k] \in Records
        /\ HasRecord(k)'
    BY RecordTyped, CounterGrows DEF CommitLiveRekey, Holds, Is
  <1>2. reg' = [reg EXCEPT ![k] = a, ![to] = r]
    BY <1>1 DEF CommitLiveRekey
  <1>3. al.tag = "Aliased" /\ st.tag = "Live" /\ st.gen = gen
    BY DEF AliasedState, LiveState
  <1>10. st \in States  BY BuiltStates
  <1> HIDE DEF al, st
  <1>4. a.state = al /\ a.inFlight = reg[k].inFlight /\ a.armed = reg[k].armed
    BY <1>1, MovedFields
  <1>5. r \in Records /\ r.generation = gen /\ r.state = st
    BY <1>10, NewRecord
  <1>9. r.inFlight = 0 /\ r.armed = {}  BY NewFields
  <1> HIDE DEF a, r
  <1>6. reg'[k] = a /\ reg'[to] = r /\ \A j \in Keys \ {k, to} : Step(j)
    BY <1>1, <1>2, PlacedRecords
  <1>7. Step(k)  BY <1>1, <1>3, <1>4, <1>6, LeftBehind
  <1>8. Step(to)
    BY <1>1, <1>3, <1>5, <1>6, <1>9, BornLive, NoRecordAssumption
  <1> QED  BY <1>6, <1>7, <1>8

LEMMA RekeyLiveSteps ==
    ASSUME RegistryTypeOK, RegStep, NEW k \in Keys, NEW to \in Keys,
           NEW rt, NEW owner \in Owners, RekeyLive(k, to, rt, owner)
    PROVE  \A j \in Keys : Step(j)
  <1> DEFINE gen == reg[k].generation + 1
             al == AliasedState(to, gen)
             st == LiveState(owner, gen)
             a == [reg[k] EXCEPT !.generation = gen, !.state = al]
             r == [EmptyRecord EXCEPT !.generation = gen, !.state = st]
  <1>1. /\ HasRecord(k) /\ ~HasRecord(to) /\ k # to /\ reg[k] \in Records
        /\ HasRecord(k)' /\ gen \in Nat
    BY RecordTyped, CounterGrows DEF RekeyLive, Is, Records
  <1>2. reg' = [reg EXCEPT ![k] = a, ![to] = r]  BY <1>1 DEF RekeyLive
  <1> HIDE DEF gen
  <1>3. al.tag = "Aliased" /\ st.tag = "Live" /\ st.gen = gen
    BY DEF AliasedState, LiveState
  <1>11. gen \in Nat  BY <1>1
  <1>10. st \in States  BY <1>11, BuiltStates
  <1> HIDE DEF al, st
  <1>4. a.state = al /\ a.inFlight = reg[k].inFlight /\ a.armed = reg[k].armed
    BY <1>1, MovedFields
  <1>5. r \in Records /\ r.generation = gen /\ r.state = st
    BY <1>10, <1>11, NewRecord
  <1>9. r.inFlight = 0 /\ r.armed = {}  BY NewFields
  <1> HIDE DEF a, r
  <1>6. reg'[k] = a /\ reg'[to] = r /\ \A j \in Keys \ {k, to} : Step(j)
    BY <1>1, <1>2, PlacedRecords
  <1>7. Step(k)  BY <1>1, <1>3, <1>4, <1>6, LeftBehind
  <1>8. Step(to)
    BY <1>1, <1>3, <1>5, <1>6, <1>9, BornLive, NoRecordAssumption
  <1> QED  BY <1>6, <1>7, <1>8

LEMMA RebindSteps ==
    ASSUME RegistryTypeOK, RegStep, ClaimIsCurrent,
           NEW k \in Keys, NEW old \in Keys, NEW op, NEW gen \in Nat, NEW rt,
           NEW owner, CommitLiveRekeyFromTerminal(k, old, op, gen, rt, owner)
    PROVE  \A j \in Keys : Step(j)
  <1> DEFINE aliased == reg[old].state.gen + 1
             al == AliasedState(k, aliased)
             st == LiveState(owner, gen)
             a == [reg[old] EXCEPT !.generation = aliased, !.state = al]
             r == [reg[k] EXCEPT !.state = st]
  <1>1. /\ Is(k, "Starting") /\ reg[k].state.gen = gen
        /\ HasRecord(k) /\ HasRecord(old) /\ k # old
        /\ reg[k] \in Records /\ reg[old] \in Records
        /\ HasRecord(k)' /\ HasRecord(old)'
    BY RecordTyped, CounterGrows DEF CommitLiveRekeyFromTerminal, Is
  <1>2. reg' = [reg EXCEPT ![k] = r, ![old] = a]
    BY <1>1 DEF CommitLiveRekeyFromTerminal
  <1>3. al.tag = "Aliased" /\ st.tag = "Live" /\ st.gen = gen
    BY DEF AliasedState, LiveState
  <1> HIDE DEF aliased, al, st
  <1>4. /\ a.state = al
        /\ a.inFlight = reg[old].inFlight /\ a.armed = reg[old].armed
        /\ r.state = st /\ r.generation = reg[k].generation
        /\ r.inFlight = reg[k].inFlight /\ r.armed = reg[k].armed
    BY <1>1, MovedFields
  <1> HIDE DEF a, r
  <1>5. reg'[k] = r /\ reg'[old] = a /\ \A j \in Keys \ {k, old} : Step(j)
    BY <1>1, <1>2, PlacedRecords
  <1>6. Step(old)  BY <1>1, <1>3, <1>4, <1>5, LeftBehind
  <1>7. reg[k].generation = gen  BY <1>1 DEF ClaimIsCurrent
  <1>8. GoesLive(k) /\ Witnesses(k) /\ SameWindows(k)
    BY <1>1, <1>3, <1>4, <1>5, <1>7
       DEF GoesLive, Witnesses, SameWindows, RecordOf, HasRecord, Is
  <1> QED  BY <1>5, <1>6, <1>8 DEF Step, Change

LEMMA AliasVacantKeySteps ==
    ASSUME RegistryTypeOK, NEW k \in Keys, NEW to \in Keys,
           AliasVacantKey(k, to)
    PROVE  \A j \in Keys : Step(j)
  <1> DEFINE gen == reg[to].generation
             st == AliasedState(to, gen)
             r == [EmptyRecord EXCEPT !.generation = gen, !.state = st]
  <1>1. /\ ~HasRecord(k) /\ gen \in Nat /\ reg' = [reg EXCEPT ![k] = r]
    BY RecordTyped DEF AliasVacantKey, Records
  <1> HIDE DEF gen
  <1>2. st.tag = "Aliased" /\ st \in States
    BY <1>1, BuiltStates DEF AliasedState
  <1> HIDE DEF st
  <1>3. r \in Records /\ r.state = st  BY <1>1, <1>2, NewRecord
  <1>6. r.inFlight = 0 /\ r.armed = {}  BY NewFields
  <1>7. r # None  BY <1>3, NoRecordAssumption
  <1> HIDE DEF r
  <1>4. reg'[k] = r /\ \A j \in Keys \ {k} : Step(j)
    BY <1>1, PlacedRecord
  <1>5. Forwards(k) /\ Witnesses(k) /\ SameWindows(k)
    BY <1>1, <1>2, <1>3, <1>4, <1>6, <1>7
       DEF Forwards, Witnesses, SameWindows, RecordOf, HasRecord, Is,
           EmptyRecord
  <1> QED  BY <1>4, <1>5 DEF Step, Change

(* rekey_starting moves the record as it is; windows are for later.        *)
LEMMA RekeyStartingSteps ==
    ASSUME RegistryTypeOK, RegStep, ClaimIsCurrent,
           NEW k \in Keys, NEW to \in Keys, NEW op, NEW gen \in Nat,
           RekeyStarting(k, to, op, gen)
    PROVE  /\ \A j \in Keys : Change(j) /\ Witnesses(j)
           /\ \A j \in Keys \ {k, to} : SameWindows(j)
           /\ k # to /\ Is(k, "Starting") /\ ~HasRecord(to)
           /\ reg'[to] = reg[k]
           /\ RecordOf(k)'.inFlight = 0 /\ RecordOf(k)'.armed = {}
  <1> DEFINE st == AliasedState(to, gen)
             a == [EmptyRecord EXCEPT !.generation = gen, !.state = st]
  <1>1. /\ HasRecord(k) /\ Is(k, "Starting") /\ ~HasRecord(to) /\ k # to
        /\ HasRecord(k)' /\ reg' = [reg EXCEPT ![k] = a, ![to] = reg[k]]
    BY CounterGrows DEF RekeyStarting, Holds, Is
  <1>2. st.tag = "Aliased" /\ st \in States
    BY BuiltStates DEF AliasedState
  <1> HIDE DEF st
  <1>3. a.state = st  BY <1>2, NewRecord
  <1>7. a.inFlight = 0 /\ a.armed = {}  BY NewFields
  <1> HIDE DEF a
  <1>4. reg'[k] = a /\ reg'[to] = reg[k] /\ \A j \in Keys \ {k, to} : Step(j)
    BY <1>1, PlacedRecords
  <1>5. Forwards(k) /\ Witnesses(k)
    BY <1>1, <1>2, <1>3, <1>4 DEF Forwards, Witnesses, HasRecord, Is
  <1>6. Appears(to) /\ Witnesses(to)
    BY <1>1, <1>4 DEF Appears, Witnesses, HasRecord, Is, ClaimIsCurrent
  <1> QED  BY <1>1, <1>4, <1>5, <1>6, <1>7
           DEF Step, Change, RecordOf, HasRecord

(* An attach guard's coming and going touches nothing but the windows.     *)
LEMMA WindowSteps ==
    ASSUME RegistryTypeOK, RegStep, NEW k \in Keys, HasRecord(k),
           NEW n, NEW ws,
           reg' = [reg EXCEPT ![k].inFlight = n, ![k].armed = ws]
    PROVE  /\ \A j \in Keys : Change(j) /\ Witnesses(j)
           /\ \A j \in Keys \ {k} : SameWindows(j)
           /\ RecordOf(k)'.inFlight = n /\ RecordOf(k)'.armed = ws
  <1> DEFINE r == [reg[k] EXCEPT !.inFlight = n, !.armed = ws]
  <1>1. reg[k] \in Records /\ reg' = [reg EXCEPT ![k] = r] /\ HasRecord(k)'
    BY RecordTyped, CounterGrows
  <1>2. /\ r.state = reg[k].state /\ r.generation = reg[k].generation
        /\ r.settle = reg[k].settle /\ r.partial = reg[k].partial
        /\ r.inFlight = n /\ r.armed = ws
    BY <1>1 DEF Records
  <1> HIDE DEF r
  <1>3. reg'[k] = r /\ \A j \in Keys \ {k} : Step(j)
    BY <1>1, PlacedRecord
  <1>4. Keeps(k) /\ Witnesses(k)
    BY <1>1, <1>2, <1>3 DEF Keeps, Witnesses, RecordOf, HasRecord, Is
  <1> QED  BY <1>1, <1>2, <1>3, <1>4
           DEF Step, Change, RecordOf, HasRecord

-----------------------------------------------------------------------------
(* Every call changes each record in one of those ways.                    *)

Steps == \A j \in Keys : Step(j)

LEMMA CallChanges ==
    ASSUME TypeOK, ClaimIsCurrent, Call
    PROVE  /\ \A j \in Keys : Change(j) /\ (Witnesses(j) \/ Blank(j))
           /\ Start \/ \A j \in Keys : Witnesses(j)
           /\ Start \/ Attach \/ Detach \/ RekeyStart \/ Steps
  <1>0. /\ RegistryTypeOK /\ RegStep
        /\ \A t \in granted : t \in Tickets
        /\ \A e \in lived : e \in LiveEras
        /\ \A g \in guards : g.key \in Keys
    BY CallStep DEF TypeOK, Guards
  <1> SUFFICES \/ Steps
               \/ /\ \A j \in Keys : Change(j) /\ (Witnesses(j) \/ Blank(j))
                  /\ Start
               \/ /\ \A j \in Keys : Change(j) /\ Witnesses(j)
                  /\ Attach \/ Detach \/ RekeyStart
    BY DEF Steps, Step
  <1>1. CASE Start
    <2>1. PICK k \in Keys, kind \in Kinds, op \in Ops :
            \E obs \in Observations(k) \cup {None},
               w \in {g.window : g \in guards} \cup {None} :
               BeginStart(k, kind, op, obs, w)
      BY <1>1 DEF Start
    <2> QED  BY <1>0, <1>1, <2>1, BeginStartSteps DEF Step
  <1>2. CASE Handoff
    <2>1. PICK k \in Keys, to \in Kinds, op \in Ops :
            \E obs \in Observations(k) \cup {None} :
              BeginHandoff(k, to, op, obs)
      BY <1>2 DEF Handoff
    <2>2. /\ EnterHandoff(k, RecordOf(k), HandoffPrior(RecordOf(k)), to, op)
          /\ ~Is(k, "Aliased")
      BY <2>1 DEF BeginHandoff, Is, RecordOf
    <2> QED  BY <1>0, <2>2, HandoffPriorTyped, EnterHandoffSteps DEF Steps
  <1>3. CASE AcknowledgedHandoff
    <2>1. PICK k \in Keys, to \in Kinds, op \in Ops :
            \E obs \in Observations(k) :
              BeginHandoffAcknowledged(k, to, op, obs)
      BY <1>3 DEF AcknowledgedHandoff
    <2>2. HasRecord(k) /\ reg[k] = RecordOf(k) /\ reg[k].state.tag = "Fenced"
      BY <2>1 DEF BeginHandoffAcknowledged, Is, RecordOf
    <2>3. reg[k].state.prior \in OptEra
      BY <1>0, <2>2, RecordTyped, StateFields DEF Records
    <2>4. EnterHandoff(k, RecordOf(k), reg[k].state.prior, to, op)
      BY <2>1, <2>2 DEF BeginHandoffAcknowledged
    <2> QED  BY <1>0, <2>2, <2>3, <2>4, EnterHandoffSteps DEF Is, Steps
  <1>4. CASE Stop
    BY <1>0, <1>4, BeginStopSteps DEF Stop, Steps
  <1>5. CASE Attach
    <2>1. PICK k \in Keys, w \in Windows : HasRecord(k) /\ OpenWindow(k, w)
      BY <1>5 DEF Attach, BeginAttachGuard, BeginAdoptGuard, Is
    <2>2. reg' = [reg EXCEPT ![k].inFlight = reg[k].inFlight + 1,
                             ![k].armed = reg[k].armed \cup {w}]
      BY <2>1 DEF OpenWindow
    <2> QED  BY <1>0, <1>5, <2>1, <2>2, WindowSteps
  <1>6. CASE Detach
    <2>1. PICK g \in guards : ReleaseWindow(g.key, g.window)
      BY <1>6 DEF Detach
    <2>2. CASE HasRecord(g.key)
      <3>1. reg' = [reg EXCEPT
              ![g.key].inFlight = IF reg[g.key].inFlight = 0 THEN 0
                                  ELSE reg[g.key].inFlight - 1,
              ![g.key].armed = reg[g.key].armed \ {g.window}]
        BY <2>1, <2>2 DEF ReleaseWindow
      <3> QED  BY <1>0, <1>6, <2>2, <3>1, WindowSteps
    <2>3. CASE ~HasRecord(g.key)
      BY <2>1, <2>3, Untouched DEF ReleaseWindow, Steps
    <2> QED  BY <2>2, <2>3
  <1>7. CASE Commit
    BY <1>0, <1>7, TicketFields, CommitLiveSteps, CommitLiveRekeySteps
       DEF Commit, Steps
  <1>8. CASE RekeyStart
    BY <1>0, <1>8, TicketFields, RekeyStartingSteps DEF RekeyStart
  <1>9. CASE Rebind
    BY <1>0, <1>9, TicketFields, RebindSteps DEF Rebind, Steps
  <1>10. CASE Fail
    BY <1>0, <1>10, TicketFields, ClosingSteps, FailHandoffSteps,
       AbortStopSteps DEF Fail, Steps
  <1>11. CASE Fence
    BY <1>0, <1>11, TicketFields, EraFields, ClosingSteps DEF Fence, Steps
  <1>12. CASE Confirm
    BY <1>0, <1>12, TicketFields, EraFields, ClosingSteps DEF Confirm, Steps
  <1>13. CASE Clear
    BY <1>0, <1>13, ClearSteps DEF Clear, Steps
  <1>14. CASE Exit
    BY <1>0, <1>14, TicketFields, EraFields, ClosingSteps DEF Exit, Steps
  <1>15. CASE MoveLive
    <2>1. PICK e \in lived, to \in Keys, op \in Ops :
            RekeyLive(e.key, to, e.owner.rt,
                      [kind |-> "fresh-agent", rt |-> op, op |-> op])
      BY <1>15 DEF MoveLive
    <2>2. [kind |-> "fresh-agent", rt |-> op, op |-> op] \in Owners
      BY DEF Owners, Kinds
    <2> QED  BY <1>0, <2>1, <2>2, EraFields, RekeyLiveSteps DEF Steps
  <1>16. CASE AliasPlaceholder
    BY <1>0, <1>16, AliasVacantKeySteps DEF AliasPlaceholder, Steps
  <1>17. CASE Register
    <2>1. PICK t \in granted :
            \/ RegisterStartCancellation(t.key, t.op, t.gen)
            \/ RegisterPartialRuntime(t.key, t.op, t.gen, SpawnedBy(t))
            \/ RegisterStopSettlement(t.key, t.op, t.gen)
      BY <1>17 DEF Register
    <2>2. SpawnedBy(t).rt = t.op  BY DEF SpawnedBy
    <2> QED  BY <1>0, <2>1, <2>2, TicketFields, RegisterSteps DEF Steps
  <1>18. CASE Settle
    BY <1>18, Untouched DEF Settle, DropSettlementGuard, Steps
  <1>19. CASE Sweep
    BY <1>0, <1>19, RecoverStartSteps, ClosingSteps DEF Sweep, Steps
  <1>20. CASE RecoverStart
    BY <1>0, <1>20, ClosingSteps DEF RecoverStart, Steps
  <1> QED  BY <1>1, <1>2, <1>3, <1>4, <1>5, <1>6, <1>7, <1>8, <1>9, <1>10,
              <1>11, <1>12, <1>13, <1>14, <1>15, <1>16, <1>17, <1>18, <1>19,
              <1>20
           DEF Call

(* Witnesses are a start's own.                                            *)

LEMMA ClaimIsCurrentStep ==
    ASSUME \A k \in Keys : Change(k), ClaimIsCurrent
    PROVE  ClaimIsCurrent'
  <1> SUFFICES ASSUME NEW k \in Keys, Is(k, "Starting")' \/ Is(k, "Handoff")'
               PROVE  reg'[k].state.gen = reg'[k].generation
    BY DEF ClaimIsCurrent
  <1>1. CASE Keeps(k)
    BY <1>1 DEF Keeps, ClaimIsCurrent, Is, RecordOf, HasRecord
  <1>2. CASE ~Keeps(k)
    BY <1>2 DEF Change, Forwards, Claims, Interrupts, GoesLive, Resumes,
       Closes, Appears, Is
  <1> QED  BY <1>1, <1>2

LEMMA WitnessesAreOwn ==
    ASSUME \A k \in Keys : Witnesses(k) \/ Blank(k), NoInheritedWitness
    PROVE  NoInheritedWitness'
  <1> SUFFICES ASSUME NEW k \in Keys, Is(k, "Starting")'
               PROVE  /\ reg'[k].settle \in {None, reg'[k].state.op}
                      /\ reg'[k].partial # None =>
                            reg'[k].partial.rt = reg'[k].state.op
    BY DEF NoInheritedWitness
  <1> QED  BY DEF Witnesses, Blank, NoInheritedWitness, Is

LEMMA WitnessStep ==
    TypeOK /\ ClaimIsCurrent /\ NoInheritedWitness /\ [Next]_vars
        => (ClaimIsCurrent /\ NoInheritedWitness)'
  <1> SUFFICES ASSUME TypeOK, ClaimIsCurrent, NoInheritedWitness, [Next]_vars
               PROVE  (ClaimIsCurrent /\ NoInheritedWitness)'
    OBVIOUS
  <1>1. CASE Call
    BY <1>1, CallChanges, ClaimIsCurrentStep, WitnessesAreOwn
  <1>2. CASE Restart
    BY <1>2 DEF Restart, ClaimIsCurrent, NoInheritedWitness, Is, HasRecord
  <1>3. CASE UNCHANGED vars
    BY <1>3 DEF vars, ClaimIsCurrent, NoInheritedWitness, Is, HasRecord
  <1> QED  BY <1>1, <1>2, <1>3 DEF Next

(* What the watchdog cancels and reaps for a start is what that start      *)
(* registered: begin_start clears the registrations before it, and a       *)
(* record that moves (rekey_starting) takes its own along.                 *)
THEOREM WitnessesAreNeverInherited == Spec => []NoInheritedWitness
  <1>1. Init => ClaimIsCurrent /\ NoInheritedWitness
    BY DEF Init, RegistryInit, ClaimIsCurrent, NoInheritedWitness, Is,
           HasRecord
  <1> QED  BY <1>1, TypeCorrect, WitnessStep, PTL DEF Spec

-----------------------------------------------------------------------------
(* The eras of a key.                                                      *)

Era(k, gen) == [key |-> k, owner |-> reg[k].state.owner, gen |-> gen]

ErasUpTo(k, gen) == \A e \in lived : e.key = k => e.gen <= gen

ErasBelow(k, gen) == \A e \in lived : e.key = k => e.gen < gen

(* A stop that remembers the era it interrupts.                            *)
Restores(k) ==
    /\ Is(k, "Stopping")
    /\ reg[k].state.owner # None /\ reg[k].state.priorGen # None

(* While a key is not forwarded its published generation bounds its eras;  *)
(* a claim is above all of them; a Live owner, and the owner a stop would  *)
(* restore, is the latest of them.                                         *)
KeyBook(k) ==
    /\ (HasRecord(k) /\ ~Is(k, "Aliased")) =>
          ErasUpTo(k, SnapshotGeneration(reg[k]))
    /\ (Is(k, "Starting") \/ Is(k, "Handoff")) =>
          ErasBelow(k, reg[k].generation)
    /\ Is(k, "Live") =>
          /\ Era(k, reg[k].state.gen) \in lived
          /\ reg[k].state.gen <= reg[k].generation
    /\ Restores(k) =>
          /\ Era(k, reg[k].state.priorGen) \in lived
          /\ reg[k].state.priorGen <= reg[k].generation
          /\ ErasUpTo(k, reg[k].state.priorGen)

EraBook ==
    /\ ClaimIsCurrent
    /\ \A e \in lived : HasRecord(e.key)
    /\ \A k \in Keys : KeyBook(k)

(* What the generations of a record are.                                   *)
LEMMA RecordNumbers ==
    ASSUME reg \in [Keys -> Records \cup {None}], NEW k \in Keys, HasRecord(k)
    PROVE  /\ reg[k].generation \in Nat
           /\ Is(k, "Live") => reg[k].state.gen \in Nat
           /\ Restores(k) => reg[k].state.priorGen \in Nat
  <1>1. reg[k] \in Records  BY DEF HasRecord
  <1>2. reg[k].generation \in Nat /\ reg[k].state \in States
    BY <1>1 DEF Records
  <1> QED  BY <1>2, StateFields DEF Is, Restores, OptGen

(* A step makes at most one era of a key; one that is new is above all     *)
(* before it and has the record's own generation.                          *)
LEMMA NewEra ==
    ASSUME TypeOK, EraBook, NEW k \in Keys, Change(k), Is(k, "Live")'
    PROVE  \/ Era(k, reg[k].state.gen)' \in lived
           \/ /\ ErasBelow(k, reg'[k].state.gen)
              /\ reg'[k].state.gen = reg'[k].generation
  <1>1. CASE Keeps(k)
    <2>1. Is(k, "Live") /\ reg'[k].state = reg[k].state
      BY <1>1 DEF Keeps, Is, RecordOf, HasRecord
    <2> QED  BY <2>1 DEF EraBook, KeyBook, Era
  <1>2. CASE GoesLive(k)
    BY <1>2 DEF GoesLive, EraBook, KeyBook
  <1>3. CASE Resumes(k)
    BY <1>3 DEF Resumes, EraBook, KeyBook, Restores, Era
  <1>4. CASE Appears(k)
    BY <1>4 DEF Appears, EraBook, ErasBelow
  <1>5. Keeps(k) \/ GoesLive(k) \/ Resumes(k) \/ Appears(k)
    BY DEF Change, Forwards, Claims, Interrupts, Closes, Is
  <1> QED  BY <1>1, <1>2, <1>3, <1>4, <1>5

LEMMA ErasAfter ==
    ASSUME lived' = lived \cup LiveNow', NEW k \in Keys
    PROVE  /\ \A e \in lived' : e.key = k =>
                 \/ e \in lived
                 \/ Is(k, "Live")' /\ e = Era(k, reg[k].state.gen)'
           /\ Is(k, "Live")' => Era(k, reg[k].state.gen)' \in lived'
           /\ ~Is(k, "Live")' => \A e \in lived' : e.key = k => e \in lived
  BY DEF LiveNow, Era

LEMMA KeyBookStep ==
    ASSUME TypeOK, TypeOK', EraBook, lived' = lived \cup LiveNow',
           NEW k \in Keys, Change(k)
    PROVE  KeyBook(k)'
  <1>0. /\ reg \in [Keys -> Records \cup {None}]
        /\ reg' \in [Keys -> Records \cup {None}]
        /\ \A e \in lived : e.gen \in Nat
        /\ KeyBook(k)
    BY DEF TypeOK, RegistryTypeOK, LiveEras, EraBook
  <1>1. HasRecord(k) =>
          /\ reg[k].generation \in Nat
          /\ Is(k, "Live") => reg[k].state.gen \in Nat
          /\ Restores(k) => reg[k].state.priorGen \in Nat
    BY <1>0, RecordNumbers
  <1>2. HasRecord(k)' => reg'[k].generation \in Nat
    BY <1>0 DEF HasRecord, Records
  <1>3. CASE Is(k, "Live")'
    <2>1. reg'[k].state.gen \in Nat
      <3>1. reg'[k].state \in States  BY <1>0, <1>3 DEF Is, HasRecord, Records
      <3> QED  BY <1>3, <3>1, StateFields DEF Is
    <2>2. reg'[k].state.gen <= reg'[k].generation
      <3>1. CASE Keeps(k)
        BY <1>0, <1>3, <3>1 DEF Keeps, KeyBook, Is, RecordOf, HasRecord
      <3>2. CASE Resumes(k)
        BY <1>0, <3>2 DEF Resumes, KeyBook, Restores
      <3>3. CASE ~Keeps(k) /\ ~Resumes(k)
        BY <1>2, <1>3, <3>3 DEF Change, Forwards, Claims, Interrupts,
           GoesLive, Closes, Appears, Is
      <3> QED  BY <3>1, <3>2, <3>3
    <2>3. ErasUpTo(k, reg'[k].state.gen)
      <3>1. CASE Keeps(k)
        <4>1. Is(k, "Live") /\ reg'[k].state = reg[k].state
          BY <1>3, <3>1 DEF Keeps, Is, RecordOf, HasRecord
        <4> QED  BY <1>0, <4>1 DEF KeyBook, SnapshotGeneration, Is
      <3>2. CASE Resumes(k)
        BY <1>0, <3>2 DEF Resumes, KeyBook, Restores
      <3>3. CASE GoesLive(k)
        BY <1>0, <2>1, <3>3 DEF GoesLive, KeyBook, ErasUpTo, ErasBelow
      <3>4. CASE Appears(k)
        BY <3>4 DEF Appears, EraBook, ErasUpTo
      <3>5. Keeps(k) \/ GoesLive(k) \/ Resumes(k) \/ Appears(k)
        BY <1>3 DEF Change, Forwards, Claims, Interrupts, Closes, Is
      <3> QED  BY <3>1, <3>2, <3>3, <3>4, <3>5
    <2>4. ErasUpTo(k, reg[k].state.gen)'
      <3>1. SUFFICES ASSUME NEW e \in lived', e.key = k
                     PROVE  e.gen <= reg'[k].state.gen
        BY DEF ErasUpTo
      <3>2. e \in lived \/ e = Era(k, reg[k].state.gen)'
        BY <3>1, ErasAfter
      <3>3. e \in lived \/ e.gen = reg'[k].state.gen
        BY <3>2 DEF Era
      <3> QED  BY <2>1, <2>3, <3>1, <3>3 DEF ErasUpTo
    <2> QED  BY <1>3, <2>2, <2>4, ErasAfter
             DEF KeyBook, SnapshotGeneration, Is, Restores
  <1>4. CASE ~Is(k, "Live")'
    <2>1. \A e \in lived' : e.key = k => e \in lived  BY <1>4, ErasAfter
    <2>2. ASSUME NEW gen, ErasUpTo(k, gen) PROVE ErasUpTo(k, gen)'
      BY <2>1, <2>2 DEF ErasUpTo
    <2>3. \A e \in lived : e \in lived'  OBVIOUS
    <2>4. CASE Keeps(k)
      <3>1. CASE HasRecord(k)
        <4>1. /\ reg'[k].state = reg[k].state
              /\ reg'[k].generation = reg[k].generation
              /\ HasRecord(k)'
          BY <2>4, <3>1 DEF Keeps, RecordOf, HasRecord
        <4> QED  BY <1>0, <1>4, <2>1, <2>3, <3>1, <4>1
                 DEF KeyBook, Is, HasRecord, Restores, Era, ErasUpTo,
                     ErasBelow, SnapshotGeneration
      <3>2. CASE ~HasRecord(k)
        BY <2>4, <3>2 DEF Keeps, KeyBook, Is, Restores, HasRecord
      <3> QED  BY <3>1, <3>2
    <2>5. CASE Forwards(k)
      BY <2>5 DEF Forwards, KeyBook, Is, Restores, HasRecord
    <2>6. CASE Claims(k)
      <3>1. ErasUpTo(k, RecordOf(k).generation)
        <4>1. CASE HasRecord(k)
          BY <1>0, <1>1, <2>6, <4>1
             DEF Claims, KeyBook, SnapshotGeneration, ErasUpTo, RecordOf, Is
        <4>2. CASE ~HasRecord(k)
          BY <4>2 DEF EraBook, ErasUpTo
        <4> QED  BY <4>1, <4>2
      <3>2. RecordOf(k).generation \in Nat
        BY <1>1 DEF RecordOf, EmptyRecord
      <3>3. ErasBelow(k, reg[k].generation)'
        BY <1>0, <2>1, <2>6, <3>1, <3>2 DEF Claims, ErasUpTo, ErasBelow
      <3>4. ErasUpTo(k, reg[k].generation)'
        BY <1>0, <2>1, <2>6, <3>1, <3>2 DEF Claims, ErasUpTo
      <3> QED  BY <1>4, <2>6, <3>3, <3>4
               DEF Claims, KeyBook, Is, Restores, SnapshotGeneration
    <2>7. CASE Interrupts(k)
      <3>1. ErasUpTo(k, reg[k].state.gen) /\ Era(k, reg[k].state.gen) \in lived
            /\ reg[k].state.gen <= reg[k].generation
            /\ reg[k].generation \in Nat /\ reg[k].state.gen \in Nat
        BY <1>0, <1>1, <2>7 DEF Interrupts, KeyBook, SnapshotGeneration, Is
      <3>2. ErasUpTo(k, reg[k].state.priorGen)'
        BY <2>1, <2>7, <3>1 DEF Interrupts, ErasUpTo
      <3>3. Era(k, reg[k].state.priorGen)' \in lived'
        BY <2>3, <2>7, <3>1 DEF Interrupts, Era
      <3>4. reg'[k].state.priorGen <= reg'[k].generation
        BY <2>7, <3>1 DEF Interrupts
      <3>5. ErasUpTo(k, reg[k].generation)'
        BY <1>0, <2>1, <2>7, <3>1 DEF Interrupts, ErasUpTo
      <3> QED  BY <1>4, <2>7, <3>2, <3>3, <3>4, <3>5
               DEF Interrupts, KeyBook, Is, Restores, SnapshotGeneration
    <2>8. CASE Closes(k)
      <3>1. ErasUpTo(k, reg[k].generation)
        BY <1>0, <1>1, <2>8 DEF Closes, KeyBook, SnapshotGeneration, ErasUpTo,
           Is
      <3>2. ErasUpTo(k, reg[k].generation)'
        BY <2>1, <2>8, <3>1 DEF Closes, ErasUpTo
      <3> QED  BY <1>4, <2>8, <3>2
               DEF Closes, KeyBook, Is, Restores, SnapshotGeneration
    <2>9. CASE Appears(k)
      <3>1. \A e \in lived' : e.key # k
        BY <2>1, <2>9 DEF Appears, EraBook
      <3> QED  BY <1>4, <2>9, <3>1
               DEF Appears, KeyBook, Is, Restores, SnapshotGeneration,
                   ErasUpTo, ErasBelow
    <2> QED  BY <1>4, <2>4, <2>5, <2>6, <2>7, <2>8, <2>9
             DEF Change, GoesLive, Resumes
  <1> QED  BY <1>3, <1>4

LEMMA EraBookStep ==
    ASSUME TypeOK, TypeOK', EraBook, Call, lived' = lived \cup LiveNow'
    PROVE  EraBook'
  <1>0. RegistryTypeOK /\ \A k \in Keys : Change(k)
    BY CallChanges DEF EraBook, TypeOK
  <1>1. ClaimIsCurrent'  BY <1>0, ClaimIsCurrentStep DEF EraBook
  <1>2. \A k \in Keys : KeyBook(k)'  BY <1>0, KeyBookStep
  <1>3. ASSUME NEW e \in lived' PROVE HasRecord(e.key)'
    <2>1. CASE e \in lived
      <3>1. e.key \in Keys  BY <2>1 DEF TypeOK, LiveEras
      <3> QED  BY <1>0, <2>1, <3>1, CallStep, CounterGrows DEF EraBook
    <2>2. CASE e \in LiveNow'
      BY <2>2 DEF LiveNow, Is
    <2> QED  BY <2>1, <2>2
  <1> QED  BY <1>1, <1>2, <1>3 DEF EraBook

LEMMA EraBookNext ==
    TypeOK /\ TypeOK' /\ EraBook /\ [Next]_vars => EraBook'
  <1> SUFFICES ASSUME TypeOK, TypeOK', EraBook, [Next]_vars PROVE EraBook'
    OBVIOUS
  <1>1. CASE Call /\ lived' = lived \cup LiveNow'
    BY <1>1, EraBookStep
  <1>2. CASE Restart
    BY <1>2 DEF Restart, EraBook, ClaimIsCurrent, KeyBook, Restores, Is,
       HasRecord
  <1>3. CASE UNCHANGED vars
    BY <1>3 DEF vars, EraBook, ClaimIsCurrent, KeyBook, Restores, Era, ErasUpTo,
       ErasBelow, SnapshotGeneration, Is, HasRecord
  <1> QED  BY <1>1, <1>2, <1>3 DEF Next

LEMMA EraBookInit == Init => EraBook
  BY DEF Init, RegistryInit, EraBook, ClaimIsCurrent, KeyBook, Restores, Is,
         HasRecord

LEMMA OneOwnerStep ==
    TypeOK /\ TypeOK' /\ EraBook /\ GenerationNamesOneOwner /\ [Next]_vars
        => GenerationNamesOneOwner'
  <1> SUFFICES ASSUME TypeOK, TypeOK', EraBook, GenerationNamesOneOwner,
                      [Next]_vars
               PROVE  GenerationNamesOneOwner'
    OBVIOUS
  <1>1. CASE Call /\ lived' = lived \cup LiveNow'
    <2>0. \A k \in Keys : Change(k)  BY <1>1, CallChanges DEF EraBook
    <2>1. SUFFICES ASSUME NEW a \in lived', NEW b \in lived', a.key = b.key,
                          a.gen = b.gen
                   PROVE  a.owner = b.owner
      BY DEF GenerationNamesOneOwner
    <2>2. /\ a.key \in Keys /\ a.gen \in Nat /\ b.gen \in Nat
          /\ a.owner \in Owners /\ b.owner \in Owners
      BY DEF TypeOK, LiveEras
    <2> DEFINE new == Era(a.key, reg[a.key].state.gen)'
    <2>3. /\ a \in lived \/ (Is(a.key, "Live")' /\ a = new)
          /\ b \in lived \/ (Is(a.key, "Live")' /\ b = new)
      BY <1>1, <2>1, <2>2, ErasAfter
    <2>4. Is(a.key, "Live")' =>
             \/ new \in lived
             \/ \A e \in lived : e.key = a.key => e.gen < new.gen
      BY <2>0, <2>2, NewEra DEF ErasBelow, Era
    <2> HIDE DEF new
    <2>5. CASE a \in lived /\ b \in lived
      BY <2>1, <2>5 DEF GenerationNamesOneOwner
    <2>6. CASE ~(a \in lived /\ b \in lived)
      BY <2>1, <2>2, <2>3, <2>4, <2>6
    <2> QED  BY <2>5, <2>6
  <1>2. CASE Restart
    BY <1>2 DEF Restart, GenerationNamesOneOwner
  <1>3. CASE UNCHANGED vars
    BY <1>3 DEF vars, GenerationNamesOneOwner
  <1> QED  BY <1>1, <1>2, <1>3 DEF Next

(* A key has one owner per generation: commit_live and fail_handoff use    *)
(* the operation's own fresh generation, abort_stop restores the very era  *)
(* the stop interrupted, so the claim of an exit watcher (release) or of a *)
(* stop (begin_stop) never fits a later runtime.                           *)
THEOREM OneOwnerPerGeneration == Spec => []GenerationNamesOneOwner
  <1>1. Init => EraBook /\ GenerationNamesOneOwner
    BY EraBookInit DEF Init, GenerationNamesOneOwner
  <1> QED  BY <1>1, TypeCorrect, EraBookNext, OneOwnerStep, PTL DEF Spec

-----------------------------------------------------------------------------
(* The requests of a key.                                                  *)

(* A fence that is up to date with a key saw all eras of the key.          *)
UpToDate(k, obs) == obs.epoch = epoch /\ ErasUpTo(k, obs.gen)

LEMMA FenceSawAll ==
    ASSUME TypeOK, EraBook, NEW k \in Keys, NEW obs \in Fences,
           obs.epoch = epoch, ~Is(k, "Aliased"),
           obs.gen >= SnapshotGeneration(RecordOf(k))
    PROVE  UpToDate(k, obs)
  <1>1. obs.gen \in Nat /\ \A e \in lived : e.gen \in Nat
    BY DEF Fences, TypeOK, LiveEras
  <1>2. CASE HasRecord(k)
    <2>1. SnapshotGeneration(reg[k]) \in Nat
      BY <1>2, RecordNumbers
         DEF TypeOK, RegistryTypeOK, SnapshotGeneration, Is
    <2>2. ErasUpTo(k, SnapshotGeneration(reg[k]))
      BY <1>2 DEF EraBook, KeyBook
    <2> QED  BY <1>1, <1>2, <2>1, <2>2 DEF ErasUpTo, RecordOf, UpToDate
  <1>3. CASE ~HasRecord(k)
    BY <1>3 DEF EraBook, ErasUpTo, UpToDate
  <1> QED  BY <1>2, <1>3

LEMMA NewTicket ==
    ASSUME NEW k, NEW op, NEW verb, NEW kind, NEW obs, NEW w,
           Grant(k, op, verb, kind, obs, w), obs # None => UpToDate(k, obs)
    PROVE  \A t \in granted' \ granted : t.obs # None => UpToDate(t.key, t.obs)
  BY DEF Grant

LEMMA GrantsAreUpToDate ==
    ASSUME TypeOK, EraBook, Call
    PROVE  \A t \in granted' \ granted : t.obs # None => UpToDate(t.key, t.obs)
  <1>0. /\ RegistryTypeOK /\ epoch \in Nat
        /\ \A e \in lived : e.key \in Keys /\ e.gen \in Nat
    BY DEF TypeOK, RegistryTypeOK, LiveEras
  <1>1. CASE Start
    <2>1. PICK k \in Keys, kind \in Kinds, op \in Ops :
            \E obs \in Observations(k) \cup {None},
               w \in {g.window : g \in guards} \cup {None} :
               /\ BeginStart(k, kind, op, obs, w)
               /\ Grant(k, op, "start", kind, obs, w)
      BY <1>1 DEF Start
    <2>2. PICK obs \in Observations(k) \cup {None},
               w \in {g.window : g \in guards} \cup {None} :
            /\ BeginStart(k, kind, op, obs, w)
            /\ Grant(k, op, "start", kind, obs, w)
      BY <2>1
    <2>3. obs # None => UpToDate(k, obs)
      BY <1>0, <2>2, ObservationsAreFences, FenceSawAll
         DEF BeginStart, NotStale, Is, RecordOf
    <2> QED  BY <2>2, <2>3, NewTicket
  <1>2. CASE Handoff
    <2>1. PICK k \in Keys, to \in Kinds, op \in Ops :
            \E obs \in Observations(k) \cup {None} :
               /\ BeginHandoff(k, to, op, obs)
               /\ Grant(k, op, "handoff", to, obs, None)
      BY <1>2 DEF Handoff
    <2>2. PICK obs \in Observations(k) \cup {None} :
            /\ BeginHandoff(k, to, op, obs)
            /\ Grant(k, op, "handoff", to, obs, None)
      BY <2>1
    <2>3. obs # None => UpToDate(k, obs)
      BY <1>0, <2>2, ObservationsAreFences, FenceSawAll
         DEF BeginHandoff, NotStale, Is, RecordOf
    <2> QED  BY <2>2, <2>3, NewTicket
  <1>3. CASE AcknowledgedHandoff
    <2>1. PICK k \in Keys, to \in Kinds, op \in Ops :
            \E obs \in Observations(k) :
               /\ BeginHandoffAcknowledged(k, to, op, obs)
               /\ Grant(k, op, "handoff", to, obs, None)
      BY <1>3 DEF AcknowledgedHandoff
    <2>2. PICK obs \in Observations(k) :
            /\ BeginHandoffAcknowledged(k, to, op, obs)
            /\ Grant(k, op, "handoff", to, obs, None)
      BY <2>1
    <2>3. /\ Is(k, "Fenced") /\ RecordOf(k) = reg[k]
          /\ obs.epoch = epoch /\ obs.gen = reg[k].generation
          /\ reg[k].generation \in Nat
      BY <1>0, <2>2, RecordTyped
         DEF BeginHandoffAcknowledged, Is, RecordOf, Records
    <2>4. UpToDate(k, obs)
      BY <1>0, <2>3, ObservationsAreFences, FenceSawAll
         DEF Is, SnapshotGeneration
    <2> QED  BY <2>2, <2>4, NewTicket
  <1>4. CASE Stop
    <2>1. PICK k \in Keys, op \in Ops, e \in lived :
            \E expected \in Descriptions(e.owner) :
               /\ BeginStop(k, op, EraFence(e), expected)
               /\ Grant(k, op, "stop", expected.kind, EraFence(e), None)
      BY <1>4 DEF Stop
    <2>2. /\ Is(k, "Live") /\ RecordOf(k) = reg[k]
          /\ EraFence(e).epoch = epoch /\ EraFence(e).gen = reg[k].state.gen
          /\ EraFence(e) \in Fences /\ EraFence(e).gen \in Nat
      BY <1>0, <2>1 DEF BeginStop, EraFence, Is, RecordOf, Fences
    <2>3. UpToDate(k, EraFence(e))
      BY <2>2, FenceSawAll DEF Is, SnapshotGeneration
    <2> QED  BY <2>1, <2>3, NewTicket
  <1>5. CASE RekeyStart
    <2>1. PICK t \in granted, to \in Keys :
            granted' = granted \cup
              {[t EXCEPT !.key = to, !.obs = None, !.window = None]}
      BY <1>5 DEF RekeyStart
    <2>2. [t EXCEPT !.key = to, !.obs = None, !.window = None].obs = None
      BY DEF TypeOK, Tickets
    <2> QED  BY <2>1, <2>2
  <1>6. CASE granted' = granted
    BY <1>6
  <1> QED  BY <1>1, <1>2, <1>3, <1>4, <1>5, <1>6
           DEF Call, Attach, Detach, Commit, Rebind, Fail, Fence, Confirm,
               Clear, Exit, MoveLive, AliasPlaceholder, Register, Settle,
               Sweep, RecoverStart

LEMMA StaleRequestStep ==
    TypeOK /\ TypeOK' /\ EraBook /\ TicketsBounded'
      /\ StaleRequestTakesNothing /\ [Next]_vars
        => StaleRequestTakesNothing'
  <1> SUFFICES ASSUME TypeOK, TypeOK', EraBook, TicketsBounded',
                      StaleRequestTakesNothing, [Next]_vars
               PROVE  StaleRequestTakesNothing'
    OBVIOUS
  <1>1. CASE Call /\ lived' = lived \cup LiveNow'
    <2>0. epoch' = epoch /\ \A k \in Keys : Change(k)
      BY <1>1, CallStep, CallChanges DEF EraBook
    <2>1. SUFFICES ASSUME NEW t \in granted', t.obs # None
                   PROVE  /\ t.obs.epoch = epoch
                          /\ \A e \in lived' :
                               ~(e.key = t.key /\ t.obs.gen < e.gen
                                   /\ e.gen < t.gen)
      BY <2>0 DEF StaleRequestTakesNothing
    <2>2. t.key \in Keys /\ t.gen \in Nat /\ t.obs.gen \in Nat
      BY <2>1 DEF TypeOK, Tickets, Fences
    <2>3. /\ t.obs.epoch = epoch
          /\ \A e \in lived :
               ~(e.key = t.key /\ t.obs.gen < e.gen /\ e.gen < t.gen)
      <3>1. CASE t \in granted  BY <2>1, <3>1 DEF StaleRequestTakesNothing
      <3>2. CASE t \notin granted
        <4>1. UpToDate(t.key, t.obs)
          BY <1>1, <2>1, <3>2, GrantsAreUpToDate
        <4>2. \A e \in lived : e.gen \in Nat  BY DEF TypeOK, LiveEras
        <4> QED  BY <2>2, <4>1, <4>2 DEF UpToDate, ErasUpTo
      <3> QED  BY <3>1, <3>2
    <2>4. ASSUME NEW e \in lived', e \notin lived, e.key = t.key
          PROVE  ~(e.gen < t.gen)
      <3>1. Is(t.key, "Live")' /\ e = Era(t.key, reg[t.key].state.gen)'
        BY <1>1, <2>2, <2>4, ErasAfter
      <3>2. reg'[t.key].state.gen = reg'[t.key].generation
        BY <2>0, <2>2, <2>4, <3>1, NewEra
      <3>3. e.gen = reg'[t.key].generation  BY <3>1, <3>2 DEF Era
      <3>4. t.gen <= reg'[t.key].generation
        BY <2>1, <3>1 DEF TicketsBounded, Is
      <3>5. e.gen \in Nat  BY DEF TypeOK, LiveEras
      <3> QED  BY <2>2, <3>3, <3>4, <3>5
    <2> QED  BY <2>3, <2>4
  <1>2. CASE Restart
    BY <1>2 DEF Restart, StaleRequestTakesNothing
  <1>3. CASE UNCHANGED vars
    BY <1>3 DEF vars, StaleRequestTakesNothing
  <1> QED  BY <1>1, <1>2, <1>3 DEF Next

(* A request wins a key only if it saw the key's latest era, and nothing   *)
(* went Live between the moment it was decided and its grant: begin_start, *)
(* begin_handoff, begin_handoff_acknowledged and begin_stop compare its    *)
(* fence with the published generation under the registry's lock.          *)
THEOREM StaleRequestsTakeNothing == Spec => []StaleRequestTakesNothing
  <1>1. Init => /\ EraBook /\ StaleRequestTakesNothing
                /\ TicketsBounded /\ GenerationNamesOneOperation
    BY EraBookInit
       DEF Init, StaleRequestTakesNothing, TicketsBounded,
           GenerationNamesOneOperation
  <1> QED  BY <1>1, TypeCorrect, EraBookNext, GenerationsStep,
              StaleRequestStep, PTL DEF Spec

-----------------------------------------------------------------------------
(* Attach windows.                                                         *)

(* The kind of a start is the kind of the ticket of its operation.         *)
KindBook ==
    /\ \A a, b \in granted : a.op = b.op => a.kind = b.kind
    /\ \A k \in Keys : Is(k, "Starting") =>
          \E t \in granted : /\ t.op = reg[k].state.op
                             /\ t.kind = reg[k].state.kind

Held(k) == {g.window : g \in {h \in guards : h.key = k}}

(* The windows of a key are the guards out on it; a fresh-agent start has  *)
(* none, so rekey_starting leaves none behind.                             *)
WindowBook ==
    /\ GuardsBalanced
    /\ \A k \in Keys : IsFiniteSet(RecordOf(k).armed)
    /\ \A k \in Keys : (Is(k, "Starting") /\ reg[k].state.kind = "fresh-agent")
          => reg[k].inFlight = 0 /\ reg[k].armed = {}

LEMMA BalancedAt ==
    ASSUME NEW k \in Keys, GuardsBalanced
    PROVE  /\ RecordOf(k).armed = Held(k)
           /\ RecordOf(k).inFlight = Cardinality(RecordOf(k).armed)
  BY DEF GuardsBalanced, Held

LEMMA BalancedBy ==
    ASSUME \A k \in Keys : /\ RecordOf(k)'.armed = Held(k)'
                           /\ RecordOf(k)'.inFlight
                                = Cardinality(RecordOf(k)'.armed)
    PROVE  GuardsBalanced'
  BY DEF GuardsBalanced, Held

(* Only a begin makes an operation's first ticket, under a fresh name.     *)
LEMMA KindsAgree ==
    ASSUME TypeOK, KindBook, Call
    PROVE  \A a, b \in granted' : a.op = b.op => a.kind = b.kind
  <1>0. /\ \A t \in granted : t \in Tickets
        /\ \A a, b \in granted : a.op = b.op => a.kind = b.kind
    BY DEF TypeOK, KindBook
  <1>1. ASSUME NEW k, NEW op, NEW verb, NEW kind, NEW obs, NEW w,
               FreshOp(op), Grant(k, op, verb, kind, obs, w)
        PROVE  \A a, b \in granted' : a.op = b.op => a.kind = b.kind
    BY <1>0, <1>1 DEF FreshOp, Grant
  <1>2. CASE Start \/ Handoff \/ AcknowledgedHandoff \/ Stop
    BY <1>1, <1>2 DEF Start, Handoff, AcknowledgedHandoff, Stop
  <1>3. CASE RekeyStart
    <2>1. PICK t \in granted, to \in Keys :
            granted' = granted \cup
              {[t EXCEPT !.key = to, !.obs = None, !.window = None]}
      BY <1>3 DEF RekeyStart
    <2> DEFINE n == [t EXCEPT !.key = to, !.obs = None, !.window = None]
    <2>2. n.op = t.op /\ n.kind = t.kind  BY <1>0 DEF Tickets
    <2> HIDE DEF n
    <2>3. granted' = granted \cup {n}  BY <2>1 DEF n
    <2> QED  BY <1>0, <2>2, <2>3
  <1>4. CASE granted' = granted
    BY <1>0, <1>4
  <1> QED  BY <1>2, <1>3, <1>4
           DEF Call, Attach, Detach, Commit, Rebind, Fail, Fence, Confirm,
               Clear, Exit, MoveLive, AliasPlaceholder, Register, Settle,
               Sweep, RecoverStart

LEMMA TicketsStay ==
    ASSUME Call
    PROVE  granted \subseteq granted'
  BY DEF Call, Start, Handoff, AcknowledgedHandoff, Stop, Grant, RekeyStart,
         Attach, Detach, Commit, Rebind, Fail, Fence, Confirm, Clear, Exit,
         MoveLive, AliasPlaceholder, Register, Settle, Sweep, RecoverStart

LEMMA KindBookStep ==
    ASSUME TypeOK, ClaimIsCurrent, KindBook, Call
    PROVE  KindBook'
  <1>1. \A a, b \in granted' : a.op = b.op => a.kind = b.kind
    BY KindsAgree
  <1>2. granted \subseteq granted'  BY TicketsStay
  <1>3. ASSUME NEW j \in Keys, Is(j, "Starting")'
        PROVE  \E t \in granted' : /\ t.op = reg'[j].state.op
                                   /\ t.kind = reg'[j].state.kind
    <2>1. CASE Witnesses(j)
      BY <1>2, <1>3, <2>1 DEF Witnesses, KindBook
    <2>2. CASE Start /\ ~Witnesses(j)
      <3>0. RegistryTypeOK  BY DEF TypeOK
      <3>1. PICK k \in Keys, kind \in Kinds, op \in Ops :
              \E obs \in Observations(k) \cup {None},
                 w \in {g.window : g \in guards} \cup {None} :
                 /\ BeginStart(k, kind, op, obs, w)
                 /\ Grant(k, op, "start", kind, obs, w)
        BY <2>2 DEF Start
      <3>2. /\ j # k => Step(j)
            /\ reg'[k].state = StartingState(kind, op, reg'[k].generation)
        BY <3>0, <3>1, BeginStartSteps
      <3>3. j = k  BY <2>2, <3>2 DEF Step
      <3>4. reg'[j].state.op = op /\ reg'[j].state.kind = kind
        BY <3>2, <3>3 DEF StartingState
      <3>5. \E t \in granted' : t.op = op /\ t.kind = kind
        <4>1. PICK obs, w : Grant(k, op, "start", kind, obs, w)
          BY <3>1
        <4> DEFINE n == [key |-> k, op |-> op, gen |-> reg'[k].generation,
                         verb |-> "start", kind |-> kind, obs |-> obs,
                         window |-> w]
        <4>2. n \in granted'  BY <4>1 DEF Grant
        <4>3. n.op = op /\ n.kind = kind  OBVIOUS
        <4> QED  BY <4>2, <4>3
      <3> QED  BY <3>4, <3>5
    <2> QED  BY <2>1, <2>2, CallChanges
  <1> QED  BY <1>1, <1>3 DEF KindBook

(* rekey_starting finds no window to leave behind.                         *)
LEMMA RekeyStartWindows ==
    ASSUME TypeOK, ClaimIsCurrent, KindBook, WindowBook, Call, RekeyStart
    PROVE  \A j \in Keys : SameWindows(j)
  <1>0. /\ RegistryTypeOK /\ RegStep /\ \A t \in granted : t \in Tickets
    BY CallStep DEF TypeOK
  <1>1. PICK t \in granted, to \in Keys :
          t.kind = "fresh-agent" /\ RekeyStarting(t.key, to, t.op, t.gen)
    BY DEF RekeyStart
  <1>2. t.key \in Keys /\ t.gen \in Nat  BY <1>0, TicketFields
  <1>3. /\ \A j \in Keys \ {t.key, to} : SameWindows(j)
        /\ Is(t.key, "Starting") /\ ~HasRecord(to)
        /\ reg'[to] = reg[t.key]
        /\ RecordOf(t.key)'.inFlight = 0 /\ RecordOf(t.key)'.armed = {}
    BY <1>0, <1>1, <1>2, RekeyStartingSteps
  <1>4. reg[t.key].state.op = t.op  BY <1>1 DEF RekeyStarting, Holds
  <1>5. reg[t.key].state.kind = "fresh-agent"
    BY <1>1, <1>2, <1>3, <1>4 DEF KindBook
  <1>6. reg[t.key].inFlight = 0 /\ reg[t.key].armed = {}
    BY <1>2, <1>3, <1>5 DEF WindowBook
  <1>7. SameWindows(t.key)
    BY <1>3, <1>6 DEF SameWindows, RecordOf, Is
  <1>8. SameWindows(to)
    BY <1>3, <1>6 DEF SameWindows, RecordOf, HasRecord, Is, EmptyRecord
  <1> QED  BY <1>3, <1>7, <1>8

(* A fresh-agent start is claimed on a key without windows.                *)
LEMMA StartsBare ==
    ASSUME TypeOK, ClaimIsCurrent, WindowBook, Start,
           NEW j \in Keys, Is(j, "Starting")', ~Witnesses(j),
           reg'[j].state.kind = "fresh-agent"
    PROVE  RecordOf(j).inFlight = 0 /\ RecordOf(j).armed = {}
  <1>0. RegistryTypeOK  BY DEF TypeOK
  <1>1. PICK k \in Keys, kind \in Kinds, op \in Ops :
          \E obs \in Observations(k) \cup {None},
             w \in {g.window : g \in guards} \cup {None} :
             (w # None => kind = "terminal") /\ BeginStart(k, kind, op, obs, w)
    BY DEF Start
  <1>2. PICK obs \in Observations(k) \cup {None},
             w \in {g.window : g \in guards} \cup {None} :
             (w # None => kind = "terminal") /\ BeginStart(k, kind, op, obs, w)
    BY <1>1
  <1>3. /\ j # k => Step(j)
        /\ reg'[k].state = StartingState(kind, op, reg'[k].generation)
        /\ RecordOf(k).inFlight = 0 \/ w \in RecordOf(k).armed
    BY <1>0, <1>2, BeginStartSteps
  <1>4. j = k  BY <1>3 DEF Step
  <1>5. w = None  BY <1>2, <1>3, <1>4 DEF StartingState
  <1>6. RecordOf(k).armed \subseteq Windows  BY <1>0, RecordTyped DEF Records
  <1>7. RecordOf(k).inFlight = 0
    BY <1>3, <1>5, <1>6, NoneAssumption
  <1>8. RecordOf(k).armed = {}
    BY <1>7, BalancedAt, FS_EmptySet DEF WindowBook
  <1> QED  BY <1>4, <1>7, <1>8

(* Where no window opens or closes the books stay as they are.             *)
LEMMA SameWindowsStep ==
    ASSUME TypeOK, ClaimIsCurrent, WindowBook, Call,
           \A j \in Keys : SameWindows(j), guards' = guards
    PROVE  WindowBook'
  <1>1. \A k \in Keys : /\ RecordOf(k).armed = Held(k)
                        /\ RecordOf(k).inFlight = Cardinality(RecordOf(k).armed)
    BY BalancedAt DEF WindowBook
  <1>2. \A k \in Keys : Held(k)' = Held(k)  BY DEF Held
  <1>3. GuardsBalanced'
    BY <1>1, <1>2, BalancedBy DEF SameWindows
  <1>4. \A k \in Keys : IsFiniteSet(RecordOf(k)'.armed)
    BY DEF WindowBook, SameWindows
  <1>5. ASSUME NEW j \in Keys, Is(j, "Starting")',
               reg'[j].state.kind = "fresh-agent"
        PROVE  reg'[j].inFlight = 0 /\ reg'[j].armed = {}
    <2>1. RecordOf(j)' = reg'[j]  BY <1>5 DEF RecordOf, Is
    <2>2. CASE Witnesses(j)
      <3>1. CASE Is(j, "Starting") /\ reg'[j].state = reg[j].state
        BY <1>5, <2>1, <3>1 DEF WindowBook, SameWindows, RecordOf, Is
      <3>2. CASE \E i \in Keys : Is(i, "Starting") /\ reg'[j] = reg[i]
        BY <1>5, <3>2 DEF WindowBook
      <3> QED  BY <1>5, <2>2, <3>1, <3>2 DEF Witnesses
    <2>3. CASE Start /\ ~Witnesses(j)
      BY <1>5, <2>1, <2>3, StartsBare DEF SameWindows
    <2> QED  BY <2>2, <2>3, CallChanges
  <1> QED  BY <1>3, <1>4, <1>5 DEF WindowBook

(* What a guard's coming or going does to a start: nothing.                *)
LEMMA BareStays ==
    ASSUME WindowBook, NEW k \in Keys, NEW j \in Keys, j # k, Witnesses(j),
           SameWindows(j), Is(j, "Starting")',
           reg'[j].state.kind = "fresh-agent"
    PROVE  reg'[j].inFlight = 0 /\ reg'[j].armed = {}
  <1>1. CASE Is(j, "Starting") /\ reg'[j].state = reg[j].state
    BY <1>1 DEF WindowBook, SameWindows, RecordOf, Is
  <1>2. CASE \E i \in Keys : Is(i, "Starting") /\ reg'[j] = reg[i]
    BY <1>2 DEF WindowBook
  <1> QED  BY <1>1, <1>2 DEF Witnesses

LEMMA AttachWindows ==
    ASSUME TypeOK, ClaimIsCurrent, WindowBook, Call, Attach
    PROVE  WindowBook'
  <1>0. RegistryTypeOK /\ RegStep /\ guards \subseteq Guards
    BY CallStep DEF TypeOK
  <1>1. PICK k \in Keys, w \in Windows :
          /\ FreshWindow(w) /\ Is(k, "Live") /\ OpenWindow(k, w)
          /\ guards' = guards \cup {[key |-> k, window |-> w]}
    BY DEF Attach, BeginAttachGuard, BeginAdoptGuard
  <1>2. HasRecord(k) /\ RecordOf(k) = reg[k]  BY <1>1 DEF Is, RecordOf
  <1>3. reg' = [reg EXCEPT ![k].inFlight = reg[k].inFlight + 1,
                           ![k].armed = reg[k].armed \cup {w}]
    BY <1>1 DEF OpenWindow
  <1>4. /\ \A j \in Keys : Change(j) /\ Witnesses(j)
        /\ \A j \in Keys \ {k} : SameWindows(j)
        /\ RecordOf(k)'.inFlight = reg[k].inFlight + 1
        /\ RecordOf(k)'.armed = reg[k].armed \cup {w}
    BY <1>0, <1>2, <1>3, WindowSteps
  <1>5. \A j \in Keys : /\ RecordOf(j).armed = Held(j)
                        /\ RecordOf(j).inFlight = Cardinality(RecordOf(j).armed)
                        /\ IsFiniteSet(RecordOf(j).armed)
    BY BalancedAt DEF WindowBook
  <1>6. \A j \in Keys \ {k} : Held(j)' = Held(j)  BY <1>1 DEF Held
  <1>7. Held(k)' = Held(k) \cup {w}
    <2> DEFINE n == [key |-> k, window |-> w]
    <2>1. n.key = k /\ n.window = w  OBVIOUS
    <2>2. guards' = guards \cup {n}  BY <1>1
    <2> HIDE DEF n
    <2> QED  BY <2>1, <2>2 DEF Held
  <1>8. w \notin Held(k)  BY <1>1 DEF FreshWindow, Held
  <1>9. /\ IsFiniteSet(reg[k].armed \cup {w})
        /\ Cardinality(reg[k].armed \cup {w}) = Cardinality(reg[k].armed) + 1
    <2>1. IsFiniteSet(reg[k].armed) /\ w \notin reg[k].armed
      BY <1>2, <1>5, <1>8
    <2> QED  BY <2>1, FS_AddElement
  <1>10. GuardsBalanced'
    <2>1. ASSUME NEW j \in Keys
          PROVE  /\ RecordOf(j)'.armed = Held(j)'
                 /\ RecordOf(j)'.inFlight = Cardinality(RecordOf(j)'.armed)
      <3>1. CASE j = k  BY <1>2, <1>4, <1>5, <1>7, <1>9, <3>1
      <3>2. CASE j # k  BY <1>4, <1>5, <1>6, <3>2 DEF SameWindows
      <3> QED  BY <3>1, <3>2
    <2> QED  BY <2>1, BalancedBy
  <1>11. \A j \in Keys : IsFiniteSet(RecordOf(j)'.armed)
    BY <1>4, <1>5, <1>9 DEF SameWindows
  <1>12. ~Is(k, "Starting")'
    <2>1. ~Is(k, "Starting")  BY <1>1 DEF Is
    <2>2. reg'[k].state = reg[k].state
      BY <1>0, <1>2, <1>3, RecordTyped DEF Records, RegistryTypeOK
    <2> QED  BY <1>1, <2>2 DEF Is
  <1>13. \A j \in Keys : (Is(j, "Starting")' /\ reg'[j].state.kind = "fresh-agent")
            => reg'[j].inFlight = 0 /\ reg'[j].armed = {}
    BY <1>4, <1>12, BareStays
  <1> QED  BY <1>10, <1>11, <1>13 DEF WindowBook

LEMMA DetachWindows ==
    ASSUME TypeOK, ClaimIsCurrent, WindowBook, Call, Detach
    PROVE  WindowBook'
  <1>0. RegistryTypeOK /\ RegStep /\ guards \subseteq Guards
    BY CallStep DEF TypeOK
  <1>1. PICK g \in guards :
          ReleaseWindow(g.key, g.window) /\ guards' = guards \ {g}
    BY DEF Detach
  <1>2. PICK k \in Keys, w \in Windows : g = [key |-> k, window |-> w]
    BY <1>0 DEF Guards
  <1>16. g.key = k /\ g.window = w  BY <1>2
  <1>3. \A j \in Keys : /\ RecordOf(j).armed = Held(j)
                        /\ RecordOf(j).inFlight = Cardinality(RecordOf(j).armed)
                        /\ IsFiniteSet(RecordOf(j).armed)
    BY BalancedAt DEF WindowBook
  <1>4. w \in Held(k)  BY <1>16 DEF Held
  <1>5. w \in RecordOf(k).armed  BY <1>2, <1>3, <1>4
  <1>6. HasRecord(k)
    BY <1>5 DEF RecordOf, EmptyRecord
  <1>7. RecordOf(k) = reg[k] /\ reg[k].inFlight \in Nat /\ reg[k].inFlight # 0
    <2>1. RecordOf(k) = reg[k]  BY <1>6 DEF RecordOf
    <2>2. reg[k].armed # {}  BY <1>5, <2>1
    <2>3. Cardinality(reg[k].armed) \in Nat /\ Cardinality(reg[k].armed) # 0
      BY <1>2, <1>3, <2>1, <2>2, FS_CardinalityType, FS_EmptySet
    <2> QED  BY <1>2, <1>3, <2>1, <2>3
  <1>8. reg' = [reg EXCEPT ![k].inFlight = reg[k].inFlight - 1,
                           ![k].armed = reg[k].armed \ {w}]
    BY <1>1, <1>6, <1>7, <1>16 DEF ReleaseWindow
  <1>9. /\ \A j \in Keys : Change(j) /\ Witnesses(j)
        /\ \A j \in Keys \ {k} : SameWindows(j)
        /\ RecordOf(k)'.inFlight = reg[k].inFlight - 1
        /\ RecordOf(k)'.armed = reg[k].armed \ {w}
    <2> DEFINE n == reg[k].inFlight - 1
               ws == reg[k].armed \ {w}
    <2>1. reg' = [reg EXCEPT ![k].inFlight = n, ![k].armed = ws]  BY <1>8
    <2> HIDE DEF n, ws
    <2>2. /\ \A j \in Keys : Change(j) /\ Witnesses(j)
          /\ \A j \in Keys \ {k} : SameWindows(j)
          /\ RecordOf(k)'.inFlight = n /\ RecordOf(k)'.armed = ws
      BY <1>0, <1>6, <2>1, WindowSteps
    <2> QED  BY <2>2 DEF n, ws
  <1>10. \A j \in Keys \ {k} : Held(j)' = Held(j)
    BY <1>1, <1>16 DEF Held
  <1>11. Held(k)' = Held(k) \ {w}
    <2>1. \A h \in guards : h.key = k /\ h.window = w => h = g
      BY <1>0, <1>2 DEF Guards
    <2> QED  BY <1>1, <1>16, <2>1 DEF Held
  <1>12. /\ IsFiniteSet(reg[k].armed \ {w})
         /\ Cardinality(reg[k].armed \ {w}) = Cardinality(reg[k].armed) - 1
    BY <1>2, <1>3, <1>5, <1>7, FS_RemoveElement
  <1>13. GuardsBalanced'
    <2>1. ASSUME NEW j \in Keys
          PROVE  /\ RecordOf(j)'.armed = Held(j)'
                 /\ RecordOf(j)'.inFlight = Cardinality(RecordOf(j)'.armed)
      <3>1. CASE j = k  BY <1>3, <1>7, <1>9, <1>11, <1>12, <3>1
      <3>2. CASE j # k  BY <1>3, <1>9, <1>10, <3>2 DEF SameWindows
      <3> QED  BY <3>1, <3>2
    <2> QED  BY <2>1, BalancedBy
  <1>14. \A j \in Keys : IsFiniteSet(RecordOf(j)'.armed)
    BY <1>3, <1>9, <1>12 DEF SameWindows
  <1>15. \A j \in Keys : (Is(j, "Starting")' /\ reg'[j].state.kind = "fresh-agent")
            => reg'[j].inFlight = 0 /\ reg'[j].armed = {}
    <2>1. ~(Is(k, "Starting")' /\ reg'[k].state.kind = "fresh-agent")
      <3>1. reg'[k].state = reg[k].state
        BY <1>0, <1>2, <1>6, <1>8, RecordTyped DEF Records, RegistryTypeOK
      <3> QED  BY <1>2, <1>6, <1>7, <3>1 DEF WindowBook, Is
    <2> QED  BY <1>2, <1>9, <2>1, BareStays
  <1> QED  BY <1>13, <1>14, <1>15 DEF WindowBook

LEMMA WindowBookStep ==
    TypeOK /\ ClaimIsCurrent /\ KindBook /\ WindowBook /\ [Next]_vars
        => (ClaimIsCurrent /\ KindBook /\ WindowBook)'
  <1> SUFFICES ASSUME TypeOK, ClaimIsCurrent, KindBook, WindowBook, [Next]_vars
               PROVE  (ClaimIsCurrent /\ KindBook /\ WindowBook)'
    OBVIOUS
  <1>1. CASE Call
    <2>1. ClaimIsCurrent' /\ KindBook'
      BY <1>1, CallChanges, ClaimIsCurrentStep, KindBookStep
    <2>2. CASE Attach  BY <1>1, <2>1, <2>2, AttachWindows
    <2>3. CASE Detach  BY <1>1, <2>1, <2>3, DetachWindows
    <2>4. CASE ~Attach /\ ~Detach
      <3>1. guards' = guards
        BY <1>1, <2>4
           DEF Call, Start, Handoff, AcknowledgedHandoff, Stop, RekeyStart,
               Commit, Rebind, Fail, Fence, Confirm, Clear, Exit, MoveLive,
               AliasPlaceholder, Register, Settle, Sweep, RecoverStart
      <3>2. \A j \in Keys : SameWindows(j)
        <4>1. CASE Start
          <5>1. RegistryTypeOK  BY DEF TypeOK
          <5>2. PICK k \in Keys, kind \in Kinds, op \in Ops :
                  \E obs \in Observations(k) \cup {None},
                     w \in {g.window : g \in guards} \cup {None} :
                     BeginStart(k, kind, op, obs, w)
            BY <4>1 DEF Start
          <5> QED  BY <5>1, <5>2, BeginStartSteps
        <4>2. CASE RekeyStart  BY <1>1, <4>2, RekeyStartWindows
        <4>3. CASE Steps  BY <4>3 DEF Steps, Step
        <4> QED  BY <1>1, <2>4, <4>1, <4>2, <4>3, CallChanges
      <3> QED  BY <1>1, <2>1, <3>1, <3>2, SameWindowsStep
    <2> QED  BY <2>2, <2>3, <2>4
  <1>2. CASE Restart
    <2>1. \A k \in Keys : RecordOf(k)' = EmptyRecord /\ Held(k)' = {}
      BY <1>2 DEF Restart, RecordOf, HasRecord, Held
    <2>6. EmptyRecord.armed = {} /\ EmptyRecord.inFlight = Cardinality({})
      BY FS_EmptySet DEF EmptyRecord
    <2>2. GuardsBalanced'
      BY <2>1, <2>6, BalancedBy
    <2>3. \A k \in Keys : IsFiniteSet(RecordOf(k)'.armed)
      BY <2>1, FS_EmptySet DEF EmptyRecord
    <2>4. \A k \in Keys : ~Is(k, "Starting")' /\ ~Is(k, "Handoff")'
      BY <1>2 DEF Restart, Is, HasRecord
    <2>5. granted' = {}  BY <1>2 DEF Restart
    <2> QED  BY <2>2, <2>3, <2>4, <2>5
             DEF ClaimIsCurrent, KindBook, WindowBook
  <1>3. CASE UNCHANGED vars
    BY <1>3 DEF vars, ClaimIsCurrent, KindBook, WindowBook, GuardsBalanced,
       RecordOf, Is, HasRecord
  <1> QED  BY <1>1, <1>2, <1>3 DEF Next

LEMMA WindowBookInit == Init => ClaimIsCurrent /\ KindBook /\ WindowBook
  <1> SUFFICES ASSUME Init PROVE ClaimIsCurrent /\ KindBook /\ WindowBook
    OBVIOUS
  <1>1. \A k \in Keys : RecordOf(k) = EmptyRecord /\ ~HasRecord(k)
    BY DEF Init, RegistryInit, RecordOf, HasRecord
  <1>2. GuardsBalanced
    <2>1. {} = {g.window : g \in {}}  OBVIOUS
    <2> QED  BY <1>1, <2>1, FS_EmptySet DEF Init, GuardsBalanced, EmptyRecord
  <1>3. \A k \in Keys : IsFiniteSet(RecordOf(k).armed)
    BY <1>1, FS_EmptySet DEF EmptyRecord
  <1> QED  BY <1>1, <1>2, <1>3
           DEF Init, ClaimIsCurrent, KindBook, WindowBook, Is

(* No attach window is lost or left open: whatever the owner becomes and   *)
(* wherever the session moves, a record counts exactly the guards that     *)
(* callers hold on its id (begin_attach_guard, begin_adopt_guard,          *)
(* release_attach_window; begin_start, rekey_starting keep the count).     *)
THEOREM WindowsAreBalanced == Spec => []GuardsBalanced
  <1>1. Init => ClaimIsCurrent /\ KindBook /\ WindowBook  BY WindowBookInit
  <1>2. WindowBook => GuardsBalanced  BY DEF WindowBook
  <1> QED  BY <1>1, <1>2, TypeCorrect, WindowBookStep, PTL DEF Spec

-----------------------------------------------------------------------------
(* What an open window keeps out.                                          *)

(* A key with a guard out goes only to a start from inside its windows.    *)
KeptOut(t) ==
    (~Is(t.key, "Fenced") /\ \E g \in guards : g.key = t.key) =>
        [key |-> t.key, window |-> t.window] \in guards

LEMMA GuardIsHeld ==
    ASSUME TypeOK, WindowBook, NEW k \in Keys, NEW w, w \in RecordOf(k).armed
    PROVE  [key |-> k, window |-> w] \in guards
  <1>1. w \in Held(k)  BY BalancedAt DEF WindowBook
  <1>2. PICK g \in guards : g.key = k /\ g.window = w  BY <1>1 DEF Held
  <1>3. g \in Guards  BY DEF TypeOK
  <1>4. g = [key |-> k, window |-> w]  BY <1>2, <1>3 DEF Guards
  <1> QED  BY <1>4

LEMMA NoWindowNoGuard ==
    ASSUME WindowBook, NEW k \in Keys, RecordOf(k).inFlight = 0
    PROVE  ~\E g \in guards : g.key = k
  <1>1. RecordOf(k).armed = {}
    <2>1. /\ RecordOf(k).armed = Held(k)
          /\ RecordOf(k).inFlight = Cardinality(RecordOf(k).armed)
          /\ IsFiniteSet(RecordOf(k).armed)
      BY BalancedAt DEF WindowBook
    <2> QED  BY <2>1, FS_EmptySet
  <1>2. Held(k) = {}  BY <1>1, BalancedAt DEF WindowBook
  <1> QED  BY <1>2 DEF Held

LEMMA GrantedNow ==
    ASSUME NEW k, NEW op, NEW verb, NEW kind, NEW obs, NEW w,
           Grant(k, op, verb, kind, obs, w)
    PROVE  \A t \in granted' \ granted : t.key = k /\ t.window = w
  BY DEF Grant

LEMMA WindowsKeepOut ==
    ASSUME TypeOK, WindowBook, Call
    PROVE  \A t \in granted' \ granted : KeptOut(t)
  <1>0. RegistryTypeOK /\ \A t \in granted : t \in Tickets  BY DEF TypeOK
  <1>1. CASE Start
    <2>1. PICK k \in Keys, kind \in Kinds, op \in Ops :
            \E obs \in Observations(k) \cup {None},
               w \in {g.window : g \in guards} \cup {None} :
               /\ BeginStart(k, kind, op, obs, w)
               /\ Grant(k, op, "start", kind, obs, w)
      BY <1>1 DEF Start
    <2>2. PICK obs \in Observations(k) \cup {None},
               w \in {g.window : g \in guards} \cup {None} :
            /\ BeginStart(k, kind, op, obs, w)
            /\ Grant(k, op, "start", kind, obs, w)
      BY <2>1
    <2>3. RecordOf(k).inFlight = 0 \/ w \in RecordOf(k).armed
      BY <2>2 DEF BeginStart
    <2>4. \A t \in granted' \ granted : t.key = k /\ t.window = w
      BY <2>2, GrantedNow
    <2> QED  BY <2>3, <2>4, GuardIsHeld, NoWindowNoGuard DEF KeptOut
  <1>2. CASE Handoff
    <2>1. PICK k \in Keys, to \in Kinds, op \in Ops :
            \E obs \in Observations(k) \cup {None} :
               /\ BeginHandoff(k, to, op, obs)
               /\ Grant(k, op, "handoff", to, obs, None)
      BY <1>2 DEF Handoff
    <2>2. RecordOf(k).inFlight = 0  BY <2>1 DEF BeginHandoff
    <2>3. \A t \in granted' \ granted : t.key = k  BY <2>1, GrantedNow
    <2> QED  BY <2>2, <2>3, NoWindowNoGuard DEF KeptOut
  <1>3. CASE AcknowledgedHandoff
    <2>1. PICK k \in Keys, to \in Kinds, op \in Ops :
            \E obs \in Observations(k) :
               /\ BeginHandoffAcknowledged(k, to, op, obs)
               /\ Grant(k, op, "handoff", to, obs, None)
      BY <1>3 DEF AcknowledgedHandoff
    <2>2. Is(k, "Fenced")  BY <2>1 DEF BeginHandoffAcknowledged
    <2>3. \A t \in granted' \ granted : t.key = k  BY <2>1, GrantedNow
    <2> QED  BY <2>2, <2>3 DEF KeptOut
  <1>4. CASE Stop
    <2>1. PICK k \in Keys, op \in Ops, e \in lived :
            \E expected \in Descriptions(e.owner) :
               /\ BeginStop(k, op, EraFence(e), expected)
               /\ Grant(k, op, "stop", expected.kind, EraFence(e), None)
      BY <1>4 DEF Stop
    <2>2. RecordOf(k).inFlight = 0  BY <2>1 DEF BeginStop, Is, RecordOf
    <2>3. \A t \in granted' \ granted : t.key = k  BY <2>1, GrantedNow
    <2> QED  BY <2>2, <2>3, NoWindowNoGuard DEF KeptOut
  <1>5. CASE RekeyStart
    <2>1. PICK t \in granted, to \in Keys :
            /\ RekeyStarting(t.key, to, t.op, t.gen)
            /\ granted' = granted \cup
                 {[t EXCEPT !.key = to, !.obs = None, !.window = None]}
      BY <1>5 DEF RekeyStart
    <2>2. [t EXCEPT !.key = to, !.obs = None, !.window = None].key = to
      BY <1>0 DEF Tickets
    <2>3. RecordOf(to).inFlight = 0
      BY <2>1 DEF RekeyStarting, RecordOf, EmptyRecord
    <2>4. \A n \in granted' \ granted : n.key = to  BY <2>1, <2>2
    <2> QED  BY <2>3, <2>4, NoWindowNoGuard DEF KeptOut
  <1>6. CASE granted' = granted
    BY <1>6
  <1> QED  BY <1>1, <1>2, <1>3, <1>4, <1>5, <1>6
           DEF Call, Attach, Detach, Commit, Rebind, Fail, Fence, Confirm,
               Clear, Exit, MoveLive, AliasPlaceholder, Register, Settle,
               Sweep, RecoverStart

(* While an attach guard is out on a session nobody takes the session but  *)
(* a start from inside one of its own windows: begin_start, begin_handoff  *)
(* and begin_stop refuse on the window counter, and the counter is the     *)
(* guards that callers hold.  An acknowledged start over a fence does not  *)
(* ask.                                                                    *)
THEOREM AttachWindowsExclude == Spec => AttachWindowExcludes
  <1>1. Init => ClaimIsCurrent /\ KindBook /\ WindowBook
    BY WindowBookInit
  <1>2. TypeOK /\ WindowBook /\ [Next]_vars
          => [\A t \in granted' \ granted :
                (~Is(t.key, "Fenced") /\ \E g \in guards : g.key = t.key) =>
                    [key |-> t.key, window |-> t.window] \in guards]_vars
    BY WindowsKeepOut DEF Next, Restart, KeptOut
  <1> QED  BY <1>1, <1>2, TypeCorrect, WindowBookStep, PTL
           DEF Spec, AttachWindowExcludes

-----------------------------------------------------------------------------
(* Where an id leads.                                                      *)

LEMMA LeastNumber ==
    ASSUME NEW S \in SUBSET Nat, S # {}
    PROVE  \E m \in S : \A y \in S : m <= y
  <1> DEFINE R == {pair \in Nat \X Nat : pair[1] < pair[2]}
  <1>1. IsWellFoundedOn(R, Nat)
    BY NatLessThanWellFounded DEF OpToRel
  <1>2. PICK m \in S : \A y \in S : <<y, m>> \notin R
    <2> HIDE DEF R
    <2> QED  BY <1>1, WFMin
  <1>3. ASSUME NEW y \in S PROVE m <= y
    <2>1. <<y, m>> \in Nat \X Nat /\ ~(y < m)  BY <1>2
    <2> QED  BY <2>1
  <1> QED  BY <1>3

(* One turn of the loop of resolve_canonical.                              *)
Hop(c) == IF Is(c, "Aliased") THEN AliasTarget(c) ELSE c

(* w visits the keys from k on, in n turns.                                *)
Walks(w, k, n) ==
    w = [i \in 0 .. n |-> IF i = 0 THEN k ELSE Hop(w[i - 1])]

LEMMA HopTyped ==
    ASSUME RegistryTypeOK, NEW c \in Keys
    PROVE  Hop(c) \in Keys
  <1>1. CASE Is(c, "Aliased")
    <2>1. reg[c] \in Records /\ reg[c].state.tag = "Aliased"
      BY <1>1, RecordTyped DEF Is
    <2> QED  BY <1>1, <2>1, StateFields DEF Hop, AliasTarget, Records
  <1> QED  BY <1>1 DEF Hop

LEMMA WalkExists ==
    ASSUME NEW k, NEW n \in Nat
    PROVE  \E w : Walks(w, k, n)
  <1> DEFINE S == {m \in Nat : ~\E w : Walks(w, k, m)}
  <1> SUFFICES ASSUME S # {} PROVE FALSE
    OBVIOUS
  <1>1. PICK m \in S : \A y \in S : m <= y
    <2> HIDE DEF S
    <2>1. S \in SUBSET Nat  BY DEF S
    <2> QED  BY <2>1, LeastNumber
  <1>2. m # 0
    <2>1. Walks([i \in 0 .. 0 |-> k], k, 0)  BY DEF Walks
    <2> QED  BY <1>1, <2>1
  <1>3. m - 1 \in Nat /\ m - 1 \notin S  BY <1>1, <1>2
  <1>4. PICK v : Walks(v, k, m - 1)  BY <1>3
  <1>5. PICK w : w = [i \in 0 .. m |-> IF i = 0 THEN k ELSE Hop(v[i - 1])]
    OBVIOUS
  <1>6. \A i \in 0 .. m - 1 : w[i] = v[i]
    BY <1>3, <1>4, <1>5 DEF Walks
  <1>7. \A i \in 0 .. m : w[i] = IF i = 0 THEN k ELSE Hop(w[i - 1])
    <2> SUFFICES ASSUME NEW i \in 0 .. m
                 PROVE  w[i] = IF i = 0 THEN k ELSE Hop(w[i - 1])
      OBVIOUS
    <2>1. CASE i = 0  BY <1>5, <2>1
    <2>2. CASE i # 0
      <3>1. i - 1 \in 0 .. m - 1  BY <1>3, <2>2
      <3>2. w[i] = Hop(v[i - 1])  BY <1>5, <2>2
      <3> QED  BY <1>6, <2>2, <3>1, <3>2
    <2> QED  BY <2>1, <2>2
  <1>8. Walks(w, k, m)  BY <1>5, <1>7 DEF Walks
  <1> QED  BY <1>1, <1>8

Turns == Cardinality(Keys)

LEMMA TurnsTyped == Turns \in Nat
  BY KeysAssumption, FS_CardinalityType DEF Turns

LEMMA CanonicalByWalk ==
    ASSUME NEW k
    PROVE  \E w : Walks(w, k, Turns) /\ CanonicalKey(k) = w[Turns]
  <1> DEFINE W == CHOOSE w : Walks(w, k, Turns)
  <1>1. Walks(W, k, Turns)  BY TurnsTyped, WalkExists
  <1>2. CanonicalKey(k) = W[Turns]
    BY DEF CanonicalKey, Walks, Hop, Turns
  <1> HIDE DEF W
  <1> QED  BY <1>1, <1>2

LEMMA WalkTurns ==
    ASSUME RegistryTypeOK, NEW k \in Keys, NEW w, Walks(w, k, Turns)
    PROVE  /\ w[0] = k
           /\ \A i \in 1 .. Turns : w[i] = Hop(w[i - 1])
           /\ \A i \in 0 .. Turns : w[i] \in Keys
  <1>0. Turns \in Nat  BY TurnsTyped
  <1>1. w[0] = k  BY <1>0 DEF Walks
  <1>2. \A i \in 1 .. Turns : w[i] = Hop(w[i - 1])
    <2> SUFFICES ASSUME NEW i \in 1 .. Turns PROVE w[i] = Hop(w[i - 1])
      OBVIOUS
    <2>1. i \in 0 .. Turns /\ i # 0  BY <1>0
    <2> QED  BY <2>1 DEF Walks
  <1>3. \A i \in 0 .. Turns : w[i] \in Keys
    <2> DEFINE S == {i \in 0 .. Turns : w[i] \notin Keys}
    <2> SUFFICES ASSUME S # {} PROVE FALSE
      OBVIOUS
    <2>1. PICK m \in S : \A y \in S : m <= y
      <3> HIDE DEF S
      <3>1. S \in SUBSET Nat  BY <1>0 DEF S
      <3> QED  BY <3>1, LeastNumber
    <2>2. m \in 1 .. Turns  BY <1>0, <1>1, <2>1
    <2>3. m - 1 \in 0 .. Turns /\ m - 1 \notin S  BY <1>0, <2>1, <2>2
    <2>4. w[m - 1] \in Keys  BY <2>3
    <2> QED  BY <1>2, <2>1, <2>2, <2>4, HopTyped
  <1> QED  BY <1>1, <1>2, <1>3

(* A walk that meets a key that forwards nowhere stays there.              *)
LEMMA WalkStays ==
    ASSUME RegistryTypeOK, NEW k \in Keys, NEW w, Walks(w, k, Turns),
           NEW m \in 0 .. Turns, ~Is(w[m], "Aliased")
    PROVE  w[Turns] = w[m]
  <1>0. Turns \in Nat  BY TurnsTyped
  <1> DEFINE S == {i \in m .. Turns : w[i] # w[m]}
  <1>1. S = {}
    <2> SUFFICES ASSUME S # {} PROVE FALSE
      OBVIOUS
    <2>1. PICK n \in S : \A y \in S : n <= y
      <3> HIDE DEF S
      <3>1. S \in SUBSET Nat  BY <1>0 DEF S
      <3> QED  BY <3>1, LeastNumber
    <2>2. n # m /\ n \in 1 .. Turns /\ n - 1 \in m .. Turns
      BY <1>0, <2>1
    <2>3. n - 1 \notin S  BY <1>0, <2>1, <2>2
    <2>4. w[n - 1] = w[m]  BY <2>2, <2>3
    <2>5. w[n] = Hop(w[n - 1])  BY <2>2, WalkTurns
    <2> QED  BY <2>1, <2>4, <2>5 DEF Hop
  <1>2. Turns \in m .. Turns  BY <1>0
  <1> QED  BY <1>1, <1>2

(* With as many turns as keys it meets one: some key came up twice, and    *)
(* the keys between form no cycle.                                         *)
LEMMA WalkEnds ==
    ASSUME RegistryTypeOK, NoAliasCycle, NEW k \in Keys, NEW w,
           Walks(w, k, Turns)
    PROVE  ~Is(w[Turns], "Aliased")
  <1>0. Turns \in Nat /\ \A i \in 0 .. Turns : w[i] \in Keys
    BY TurnsTyped, WalkTurns
  <1>1. PICK i \in 0 .. Turns, j \in 0 .. Turns : i < j /\ w[i] = w[j]
    <2>1. /\ IsFiniteSet(0 .. Turns)
          /\ Cardinality(0 .. Turns) = Turns + 1
      <3>1. 0 \in Int /\ Turns \in Int /\ 0 <= Turns  BY <1>0
      <3>2. Cardinality(0 .. Turns) = Turns - 0 + 1
        BY <1>0, <3>1, FS_Interval
      <3> QED  BY <1>0, <3>1, <3>2, FS_Interval
    <2>2. Cardinality(Keys) < Cardinality(0 .. Turns)
      BY <1>0, <2>1 DEF Turns
    <2>3. PICK f : f = [x \in 0 .. Turns |-> w[x]]  OBVIOUS
    <2>4. f \in [0 .. Turns -> Keys]  BY <1>0, <2>3
    <2>5. \E x, y \in 0 .. Turns : x # y /\ f[x] = f[y]
      BY <2>1, <2>2, <2>4, KeysAssumption, FS_PigeonHole
    <2>6. PICK x \in 0 .. Turns, y \in 0 .. Turns : x # y /\ w[x] = w[y]
      BY <2>3, <2>5
    <2>7. x < y \/ y < x  BY <1>0, <2>6
    <2> QED  BY <2>6, <2>7
  <1> DEFINE S == {w[m] : m \in i .. (j - 1)}
  <1>2. S \in (SUBSET Keys) \ {{}}
    <2>1. i \in i .. (j - 1) /\ \A m \in i .. (j - 1) : m \in 0 .. Turns
      BY <1>0, <1>1
    <2> QED  BY <1>0, <2>1
  <1>3. PICK m \in i .. (j - 1) : ~(Is(w[m], "Aliased") /\ AliasTarget(w[m]) \in S)
    BY <1>2 DEF NoAliasCycle
  <1>4. m \in 0 .. Turns /\ m + 1 \in 1 .. Turns  BY <1>0, <1>1, <1>3
  <1>5. w[m + 1] \in S
    <2>1. CASE m + 1 = j
      <3>1. i \in i .. (j - 1)  BY <1>0, <1>1
      <3> QED  BY <1>1, <2>1, <3>1
    <2>2. CASE m + 1 # j
      <3>1. m + 1 \in i .. (j - 1)  BY <1>0, <1>1, <1>3, <2>2
      <3> QED  BY <3>1
    <2> QED  BY <2>1, <2>2
  <1>6. w[m + 1] = Hop(w[m])
    <2>1. w[m + 1] = Hop(w[(m + 1) - 1])  BY <1>4, WalkTurns
    <2>2. (m + 1) - 1 = m  BY <1>4
    <2> QED  BY <2>1, <2>2
  <1>7. ~Is(w[m], "Aliased")  BY <1>3, <1>5, <1>6 DEF Hop
  <1> HIDE DEF S
  <1>8. w[Turns] = w[m]  BY <1>4, <1>7, WalkStays
  <1> QED  BY <1>7, <1>8

(* resolve_canonical ends at a key that forwards nowhere, the same one     *)
(* from each key along the way.                                            *)
Resolved ==
    \A k \in Keys :
        /\ CanonicalKey(k) \in Keys
        /\ ~Is(CanonicalKey(k), "Aliased")
        /\ CanonicalKey(k) = IF Is(k, "Aliased") THEN CanonicalKey(AliasTarget(k))
                                                ELSE k

LEMMA ResolvedHolds ==
    ASSUME RegistryTypeOK, NoAliasCycle
    PROVE  Resolved
  <1> SUFFICES ASSUME NEW k \in Keys
               PROVE  /\ CanonicalKey(k) \in Keys
                      /\ ~Is(CanonicalKey(k), "Aliased")
                      /\ Is(k, "Aliased") =>
                            CanonicalKey(k) = CanonicalKey(AliasTarget(k))
                      /\ ~Is(k, "Aliased") => CanonicalKey(k) = k
    BY DEF Resolved
  <1>0. Turns \in Nat /\ Turns \in 0 .. Turns /\ 0 \in 0 .. Turns
    BY TurnsTyped
  <1>1. PICK w : Walks(w, k, Turns) /\ CanonicalKey(k) = w[Turns]
    BY CanonicalByWalk
  <1>2. /\ w[0] = k
        /\ \A i \in 1 .. Turns : w[i] = Hop(w[i - 1])
        /\ w[Turns] \in Keys
    BY <1>0, <1>1, WalkTurns
  <1>3. ~Is(w[Turns], "Aliased")  BY <1>1, WalkEnds
  <1>4. ~Is(k, "Aliased") => w[Turns] = k
    BY <1>0, <1>1, <1>2, WalkStays
  <1>5. ASSUME Is(k, "Aliased")
        PROVE  CanonicalKey(k) = CanonicalKey(AliasTarget(k))
    <2>1. AliasTarget(k) = Hop(k) /\ Hop(k) \in Keys
      BY <1>5, HopTyped DEF Hop
    <2>2. PICK v : Walks(v, Hop(k), Turns) /\ CanonicalKey(Hop(k)) = v[Turns]
      BY <2>1, CanonicalByWalk
    <2>3. /\ v[0] = Hop(k)
          /\ \A i \in 1 .. Turns : v[i] = Hop(v[i - 1])
      BY <2>1, <2>2, WalkTurns
    <2>4. Turns # 0
      <3>1. Keys # {}  OBVIOUS
      <3> QED  BY <3>1, KeysAssumption, FS_EmptySet DEF Turns
    <2> DEFINE S == {i \in 0 .. (Turns - 1) : v[i] # w[i + 1]}
    <2>5. S = {}
      <3> SUFFICES ASSUME S # {} PROVE FALSE
        OBVIOUS
      <3>1. PICK m \in S : \A y \in S : m <= y
        <4> HIDE DEF S
        <4>1. S \in SUBSET Nat  BY <1>0 DEF S
        <4> QED  BY <4>1, LeastNumber
      <3>2. m # 0
        <4>1. 1 \in 1 .. Turns  BY <1>0, <2>4
        <4>2. w[1] = Hop(w[1 - 1])  BY <1>2, <4>1
        <4>3. w[0 + 1] = v[0]  BY <1>2, <2>3, <4>2
        <4> QED  BY <3>1, <4>3
      <3>3. m \in 1 .. Turns /\ m + 1 \in 1 .. Turns /\ (m + 1) - 1 = m
            /\ m - 1 \in 0 .. (Turns - 1) /\ (m - 1) + 1 = m
        BY <1>0, <3>1, <3>2
      <3>4. m - 1 \notin S  BY <3>1, <3>3
      <3>5. v[m - 1] = w[m]  BY <3>3, <3>4
      <3>6. v[m] = Hop(v[m - 1])  BY <2>3, <3>3
      <3>7. w[m + 1] = Hop(w[m])  BY <1>2, <3>3
      <3> QED  BY <3>1, <3>5, <3>6, <3>7
    <2>6. v[Turns - 1] = w[Turns]
      <3>1. Turns - 1 \in 0 .. (Turns - 1) /\ (Turns - 1) + 1 = Turns
        BY <1>0, <2>4
      <3> QED  BY <2>5, <3>1
    <2>7. v[Turns] = Hop(v[Turns - 1])
      <3>1. Turns \in 1 .. Turns  BY <1>0, <2>4
      <3> QED  BY <2>3, <3>1
    <2>8. v[Turns] = w[Turns]  BY <1>3, <2>6, <2>7 DEF Hop
    <2> QED  BY <1>1, <2>1, <2>2, <2>8
  <1> QED  BY <1>1, <1>2, <1>3, <1>4, <1>5

(* An id that forwards keeps its target.                                   *)
LEMMA AliasesStay ==
    ASSUME TypeOK, Call, NEW k \in Keys, Is(k, "Aliased")
    PROVE  Is(k, "Aliased")' /\ AliasTarget(k)' = AliasTarget(k)
  <1>1. RegistryTypeOK /\ RegStep  BY CallStep DEF TypeOK
  <1>2. reg \in [Keys -> Records \cup {None}]  BY <1>1 DEF RegistryTypeOK
  <1>3. CASE ForwardStep
    <2>1. PICK from \in Keys, to \in Keys, a \in Records, r \in Records :
            /\ from # to
            /\ a.state.tag = "Aliased" /\ a.state.to = to
            /\ r.state.tag # "Aliased"
            /\ ~Is(from, "Aliased") /\ ~Is(to, "Aliased")
            /\ RecordOf(to).generation <= r.generation
            /\ reg' = [reg EXCEPT ![from] = a, ![to] = r]
      BY <1>3 DEF ForwardStep
    <2>2. reg'[k] = reg[k]  BY <1>2, <2>1
    <2> QED  BY <2>2 DEF Is, HasRecord, AliasTarget
  <1> QED  BY <1>1, <1>3, RecordsStay

(* The old end of a chain lies on the new one.                             *)
LEMMA LeadsOn ==
    ASSUME NoAliasCycle, Resolved, Resolved',
           \A k \in Keys : Is(k, "Aliased") =>
               /\ AliasTarget(k) \in Keys
               /\ Is(k, "Aliased")' /\ AliasTarget(k)' = AliasTarget(k)
    PROVE  \A k, c \in Keys :
               c = CanonicalKey(k) => CanonicalKey(k)' = CanonicalKey(c)'
  <1> DEFINE S == {k \in Keys : \E c \in Keys :
                     c = CanonicalKey(k) /\ CanonicalKey(k)' # CanonicalKey(c)'}
  <1> SUFFICES ASSUME S # {} PROVE FALSE
    OBVIOUS
  <1>1. PICK k \in S : ~(Is(k, "Aliased") /\ AliasTarget(k) \in S)
    <2>1. S \in (SUBSET Keys) \ {{}}  OBVIOUS
    <2> HIDE DEF S
    <2> QED  BY <2>1 DEF NoAliasCycle
  <1>2. PICK c \in Keys : c = CanonicalKey(k) /\ CanonicalKey(k)' # CanonicalKey(c)'
    BY <1>1
  <1>3. k \in Keys  BY <1>1
  <1>4. Is(k, "Aliased")
    <2>1. c # k  BY <1>2
    <2> HIDE DEF S
    <2> QED  BY <1>2, <1>3, <2>1 DEF Resolved
  <1>5. PICK t \in Keys : t = AliasTarget(k)  BY <1>3, <1>4
  <1>6. Is(k, "Aliased")' /\ AliasTarget(k)' = t  BY <1>3, <1>4, <1>5
  <1>7. CanonicalKey(t) = c
    <2> HIDE DEF S
    <2> QED  BY <1>2, <1>3, <1>4, <1>5 DEF Resolved
  <1>8. CanonicalKey(k)' = CanonicalKey(t)'
    <2> HIDE DEF S
    <2> QED  BY <1>3, <1>6 DEF Resolved
  <1>9. t \in S  BY <1>2, <1>7, <1>8
  <1> QED  BY <1>1, <1>4, <1>5, <1>9

(* Whatever moves of sessions the lanes combine, resolve_canonical ends at *)
(* an id that is not forwarded, and at the same one from every id that     *)
(* leads there.                                                            *)
THEOREM IdsResolve == Spec => []Resolved
  <1>1. Init => Forwarding
    BY DEF Init, RegistryInit, Forwarding, AliasTargetExists, NoAliasCycle,
           Is, HasRecord
  <1>2. TypeOK /\ Forwarding => Resolved
    BY ResolvedHolds DEF TypeOK, Forwarding
  <1> QED  BY <1>1, <1>2, TypeCorrect, ForwardingStep, PTL DEF Spec

(* An id that was forwarded is never stranded nor led elsewhere: after any *)
(* step it leads where the key it led to leads.                            *)
THEOREM ForwardingIsExtended == Spec => ForwardingOnlyExtends
  <1>1. Init => Forwarding
    BY DEF Init, RegistryInit, Forwarding, AliasTargetExists, NoAliasCycle,
           Is, HasRecord
  <1>2. TypeOK /\ Forwarding /\ Resolved /\ Resolved' /\ [Next]_vars
          => [epoch' = epoch =>
                \A k, c \in Keys :
                    Is(k, "Aliased") /\ c = CanonicalKey(k) =>
                        CanonicalKey(k)' = CanonicalKey(c)']_vars
    <2> SUFFICES ASSUME TypeOK, Forwarding, Resolved, Resolved', [Next]_vars,
                        epoch' = epoch, vars' # vars
                 PROVE  \A k, c \in Keys :
                          c = CanonicalKey(k) =>
                              CanonicalKey(k)' = CanonicalKey(c)'
      OBVIOUS
    <2>1. Call  BY DEF Next, Restart, TypeOK, RegistryTypeOK
    <2>2. \A k \in Keys : Is(k, "Aliased") =>
            /\ AliasTarget(k) \in Keys
            /\ Is(k, "Aliased")' /\ AliasTarget(k)' = AliasTarget(k)
      <3>1. RegistryTypeOK  BY DEF TypeOK
      <3> QED  BY <2>1, <3>1, AliasesStay, HopTyped DEF Hop
    <2> QED  BY <2>2, LeadsOn DEF Forwarding
  <1> QED  BY <1>1, <1>2, TypeCorrect, ForwardingStep, IdsResolve, PTL
           DEF Spec, ForwardingOnlyExtends

-----------------------------------------------------------------------------
(* The runtimes a record names, and the one its operation may yet spawn.   *)

OwnerRuntime(owner) == IF owner = None THEN {} ELSE {owner.rt}

PriorRuntime(prior) == IF prior = None THEN {} ELSE {prior.owner.rt}

StateRuntimes(s) ==
    CASE s.tag = "Starting" -> {s.op}
      [] s.tag = "Live"     -> {s.owner.rt}
      [] s.tag = "Handoff"  -> {s.op} \cup PriorRuntime(s.prior)
      [] s.tag = "Fenced"   -> PriorRuntime(s.prior)
      [] s.tag = "Stopping" -> OwnerRuntime(s.owner)
      [] OTHER -> {}

Runtimes(k) == IF HasRecord(k) THEN StateRuntimes(reg[k].state) ELSE {}

Disjoint ==
    \A j, k \in Keys : j # k => Runtimes(j) \cap Runtimes(k) = {}

(* Names that are taken: FreshOp gives another.                            *)
Known == {t.op : t \in granted} \cup {e.owner.op : e \in lived}

RuntimeBook == Disjoint /\ \A k \in Keys : Runtimes(k) \subseteq Known

(* What a step does to the runtimes of the keys.                           *)

Shrinks == \A j \in Keys : Runtimes(j)' \subseteq Runtimes(j)

ClaimsRuntime ==
    \E k \in Keys, op \in Ops :
        /\ FreshOp(op) /\ op \in Known'
        /\ Runtimes(k)' \subseteq Runtimes(k) \cup {op}
        /\ \A j \in Keys \ {k} : Runtimes(j)' \subseteq Runtimes(j)

HandsOver ==
    \E k, to \in Keys :
        /\ k # to
        /\ Runtimes(k)' = {} /\ Runtimes(to)' \subseteq Runtimes(k)
        /\ \A j \in Keys \ {k, to} : Runtimes(j)' \subseteq Runtimes(j)

(* rekey_live: a replacement runtime under the new id.                     *)
Replaces ==
    \E k, to \in Keys, op \in Ops :
        /\ k # to /\ FreshOp(op) /\ op \in Known'
        /\ Runtimes(k)' = {} /\ Runtimes(to)' \subseteq {op}
        /\ \A j \in Keys \ {k, to} : Runtimes(j)' \subseteq Runtimes(j)

LEMMA FreshIsUnknown ==
    ASSUME NEW op, FreshOp(op)
    PROVE  op \notin Known
  BY DEF FreshOp, Known

LEMMA BookByStep ==
    ASSUME RuntimeBook, Known \subseteq Known',
           Shrinks \/ ClaimsRuntime \/ HandsOver \/ Replaces
    PROVE  RuntimeBook'
  <1>0. /\ \A j, k \in Keys : j # k => Runtimes(j) \cap Runtimes(k) = {}
        /\ \A k \in Keys : Runtimes(k) \subseteq Known
    BY DEF RuntimeBook, Disjoint
  <1> SUFFICES /\ \A j, k \in Keys :
                    j # k => Runtimes(j)' \cap Runtimes(k)' = {}
               /\ \A k \in Keys : Runtimes(k)' \subseteq Known'
    BY DEF RuntimeBook, Disjoint
  <1>1. CASE Shrinks
    BY <1>0, <1>1 DEF Shrinks
  <1>2. CASE ClaimsRuntime
    <2>1. PICK k \in Keys, op \in Ops :
            /\ FreshOp(op) /\ op \in Known'
            /\ Runtimes(k)' \subseteq Runtimes(k) \cup {op}
            /\ \A j \in Keys \ {k} : Runtimes(j)' \subseteq Runtimes(j)
      BY <1>2 DEF ClaimsRuntime
    <2>2. op \notin Known  BY <2>1, FreshIsUnknown
    <2> QED  BY <1>0, <2>1, <2>2
  <1>3. CASE HandsOver
    <2>1. PICK k \in Keys, to \in Keys :
            /\ k # to
            /\ Runtimes(k)' = {} /\ Runtimes(to)' \subseteq Runtimes(k)
            /\ \A j \in Keys \ {k, to} : Runtimes(j)' \subseteq Runtimes(j)
      BY <1>3 DEF HandsOver
    <2> QED  BY <1>0, <2>1
  <1>4. CASE Replaces
    <2>1. PICK k \in Keys, to \in Keys, op \in Ops :
            /\ k # to /\ FreshOp(op) /\ op \in Known'
            /\ Runtimes(k)' = {} /\ Runtimes(to)' \subseteq {op}
            /\ \A j \in Keys \ {k, to} : Runtimes(j)' \subseteq Runtimes(j)
      BY <1>4 DEF Replaces
    <2>2. op \notin Known  BY <2>1, FreshIsUnknown
    <2> QED  BY <1>0, <2>1, <2>2
  <1> QED  BY <1>1, <1>2, <1>3, <1>4

-----------------------------------------------------------------------------
(* Steps of one record.                                                    *)

LEMMA SameRuntimes ==
    ASSUME NEW j \in Keys, reg'[j] = reg[j]
    PROVE  Runtimes(j)' = Runtimes(j)
  BY DEF Runtimes, StateRuntimes, PriorRuntime, OwnerRuntime, HasRecord

(* A key whose record is replaced by r.                                    *)
LEMMA ReplacedRuntimes ==
    ASSUME RegistryTypeOK, NEW k \in Keys, NEW r, reg' = [reg EXCEPT ![k] = r]
    PROVE  /\ Runtimes(k)' \subseteq StateRuntimes(r.state)
           /\ \A j \in Keys \ {k} : Runtimes(j)' = Runtimes(j)
  <1>1. reg \in [Keys -> Records \cup {None}]  BY DEF RegistryTypeOK
  <1>2. reg'[k] = r /\ \A j \in Keys \ {k} : reg'[j] = reg[j]  BY <1>1
  <1>3. Runtimes(k)' \subseteq StateRuntimes(r.state)
    BY <1>2 DEF Runtimes, StateRuntimes, PriorRuntime, OwnerRuntime
  <1> QED  BY <1>2, <1>3, SameRuntimes

LEMMA SetStateRuntimes ==
    ASSUME RegistryTypeOK, NEW k \in Keys, HasRecord(k), NEW s,
           SetState(k, s),
           StateRuntimes(s) \subseteq StateRuntimes(reg[k].state)
    PROVE  Shrinks
  <1> DEFINE r == [reg[k] EXCEPT !.state = s]
  <1>1. reg[k] \in Records  BY RecordTyped
  <1>2. r.state = s  BY <1>1 DEF Records
  <1>3. reg' = [reg EXCEPT ![k] = r]  BY DEF SetState
  <1> HIDE DEF r
  <1>4. /\ Runtimes(k)' \subseteq StateRuntimes(s)
        /\ \A j \in Keys \ {k} : Runtimes(j)' = Runtimes(j)
    BY <1>2, <1>3, ReplacedRuntimes
  <1>5. Runtimes(k) = StateRuntimes(reg[k].state)  BY DEF Runtimes
  <1> QED  BY <1>4, <1>5 DEF Shrinks

(* Ends that leave the key without a runtime.                              *)
LEMMA VacatedRuntimes ==
    ASSUME RegistryTypeOK, NEW k \in Keys, NEW op, NEW gen, NEW owner,
           \/ FailStart(k, op, gen) \/ CommitStop(k, op, gen)
           \/ Release(k, owner, gen) \/ ReleaseFenced(k, op, gen)
           \/ ForceReleaseForConfirmedKill(k, op, gen, owner)
    PROVE  Shrinks
  <1>1. HasRecord(k) /\ SetState(k, Vacant)
    BY DEF FailStart, CommitStop, Release, ReleaseFenced,
           ForceReleaseForConfirmedKill, Holds, LiveMatches, Is
  <1>2. StateRuntimes(Vacant) = {}  BY DEF StateRuntimes, Vacant
  <1> QED  BY <1>1, <1>2, SetStateRuntimes

(* The runtime that went Live, or that a fence names, was the operation's  *)
(* own or the record's.                                                    *)
LEMMA CommitLiveRuntimes ==
    ASSUME RegistryTypeOK, NEW k \in Keys, NEW op, NEW gen, NEW owner,
           owner.rt = op, CommitLive(k, op, gen, owner)
    PROVE  Shrinks
  <1>1. HasRecord(k) /\ SetState(k, LiveState(owner, gen))
    BY DEF CommitLive, Holds, Is
  <1>2. StateRuntimes(LiveState(owner, gen)) = {op}
    BY DEF StateRuntimes, LiveState
  <1>3. op \in StateRuntimes(reg[k].state)
    BY DEF CommitLive, Holds, Is, StateRuntimes
  <1> QED  BY <1>1, <1>2, <1>3, SetStateRuntimes

LEMMA FailHandoffRuntimes ==
    ASSUME RegistryTypeOK, NEW k \in Keys, NEW op, NEW gen, NEW alive,
           FailHandoff(k, op, gen, alive)
    PROVE  Shrinks
  <1>1. HasRecord(k) /\ reg[k].state.tag = "Handoff"
    BY DEF FailHandoff, Holds, Is
  <1>2. CASE SetState(k, Vacant)
    <2>1. StateRuntimes(Vacant) = {}  BY DEF StateRuntimes, Vacant
    <2> QED  BY <1>1, <1>2, <2>1, SetStateRuntimes
  <1>3. CASE /\ reg[k].state.prior # None
             /\ SetState(k, LiveState(reg[k].state.prior.owner,
                                      reg[k].generation))
    <2>1. StateRuntimes(LiveState(reg[k].state.prior.owner, reg[k].generation))
            = {reg[k].state.prior.owner.rt}
      BY DEF StateRuntimes, LiveState
    <2>2. reg[k].state.prior.owner.rt \in StateRuntimes(reg[k].state)
      BY <1>1, <1>3 DEF StateRuntimes, PriorRuntime
    <2> QED  BY <1>1, <1>3, <2>1, <2>2, SetStateRuntimes
  <1> QED  BY <1>2, <1>3 DEF FailHandoff

LEMMA AbortStopRuntimes ==
    ASSUME RegistryTypeOK, NEW k \in Keys, NEW op, NEW gen,
           AbortStop(k, op, gen)
    PROVE  Shrinks
  <1> DEFINE s == LiveState(reg[k].state.owner, reg[k].state.priorGen)
  <1>1. /\ HasRecord(k) /\ SetState(k, s) /\ reg[k].state.tag = "Stopping"
        /\ reg[k].state.owner # None
    BY DEF AbortStop, Holds, Is
  <1>2. StateRuntimes(s) = {reg[k].state.owner.rt}
    BY DEF StateRuntimes, LiveState
  <1>3. reg[k].state.owner.rt \in StateRuntimes(reg[k].state)
    BY <1>1 DEF StateRuntimes, OwnerRuntime
  <1> QED  BY <1>1, <1>2, <1>3, SetStateRuntimes

LEMMA FencedRuntimes ==
    ASSUME NEW prior, NEW reason, NEW op, NEW gen
    PROVE  StateRuntimes(FencedState(prior, reason, op, gen))
             = PriorRuntime(prior)
  BY DEF StateRuntimes, FencedState

LEMMA FenceHandoffRuntimes ==
    ASSUME RegistryTypeOK, NEW k \in Keys, NEW op, NEW gen, NEW reason, NEW u,
           u # None => u.owner.rt = op,
           FenceUnconfirmedHandoff(k, op, gen, reason, u)
    PROVE  Shrinks
  <1> DEFINE prior == IF u # None THEN u ELSE reg[k].state.prior
  <1>1. /\ HasRecord(k) /\ SetState(k, FencedState(prior, reason, op, gen))
        /\ reg[k].state.tag = "Handoff" /\ reg[k].state.op = op
    BY DEF FenceUnconfirmedHandoff, Holds, Is
  <1>2. PriorRuntime(prior) \subseteq StateRuntimes(reg[k].state)
    BY <1>1 DEF StateRuntimes, PriorRuntime
  <1> HIDE DEF prior
  <1> QED  BY <1>1, <1>2, FencedRuntimes, SetStateRuntimes

LEMMA FenceStopRuntimes ==
    ASSUME RegistryTypeOK, NEW k \in Keys, NEW op, NEW gen, NEW reason,
           FenceUnconfirmedStop(k, op, gen, reason)
    PROVE  Shrinks
  <1> DEFINE prior == StoppedEra(reg[k].state, gen)
  <1>1. /\ HasRecord(k) /\ SetState(k, FencedState(prior, reason, op, gen))
        /\ reg[k].state.tag = "Stopping"
    BY DEF FenceUnconfirmedStop, Holds, Is
  <1>2. PriorRuntime(prior) \subseteq OwnerRuntime(reg[k].state.owner)
    BY DEF StoppedEra, PriorRuntime, OwnerRuntime
  <1> HIDE DEF prior
  <1>3. StateRuntimes(reg[k].state) = OwnerRuntime(reg[k].state.owner)
    BY <1>1 DEF StateRuntimes
  <1> QED  BY <1>1, <1>2, <1>3, FencedRuntimes, SetStateRuntimes

LEMMA RecoverStoppingRuntimes ==
    ASSUME RegistryTypeOK, NEW k \in Keys, RecoverStaleStopping(k)
    PROVE  Shrinks
  <1> DEFINE s == reg[k].state
             prior == IF s.owner = None THEN None
                      ELSE [owner |-> s.owner,
                            gen |-> IF s.priorGen # None THEN s.priorGen
                                                         ELSE s.gen]
  <1>1. /\ HasRecord(k)
        /\ SetState(k, FencedState(prior, "StaleStop", s.op, s.gen))
        /\ s.tag = "Stopping"
    BY DEF RecoverStaleStopping, Is
  <1>2. PriorRuntime(prior) \subseteq OwnerRuntime(s.owner)
    BY DEF PriorRuntime, OwnerRuntime
  <1> HIDE DEF prior
  <1>3. StateRuntimes(reg[k].state) = OwnerRuntime(reg[k].state.owner)
    BY <1>1 DEF StateRuntimes
  <1> QED  BY <1>1, <1>2, <1>3, FencedRuntimes, SetStateRuntimes

LEMMA FenceLiveRuntimes ==
    ASSUME RegistryTypeOK, NEW k \in Keys, NEW gen, NEW owner, NEW reason,
           FenceUnconfirmedLive(k, gen, owner, reason)
    PROVE  Shrinks
  <1> DEFINE prior == [owner |-> owner, gen |-> gen]
  <1>1. /\ HasRecord(k)
        /\ SetState(k, FencedState(prior, reason, owner.op, gen))
        /\ reg[k].state.tag = "Live" /\ reg[k].state.owner = owner
    BY DEF FenceUnconfirmedLive, LiveMatches, Is
  <1>2. PriorRuntime(prior) \subseteq {owner.rt}  BY DEF PriorRuntime
  <1> HIDE DEF prior
  <1>3. StateRuntimes(reg[k].state) = {owner.rt}
    BY <1>1 DEF StateRuntimes
  <1> QED  BY <1>1, <1>2, <1>3, FencedRuntimes, SetStateRuntimes

(* Steps that leave the record's state, or take no more of it.             *)
LEMMA KeptState ==
    ASSUME RegistryTypeOK, NEW k \in Keys, HasRecord(k), NEW r,
           reg' = [reg EXCEPT ![k] = r],
           StateRuntimes(r.state) \subseteq StateRuntimes(reg[k].state)
    PROVE  Shrinks
  <1>1. /\ Runtimes(k)' \subseteq StateRuntimes(r.state)
        /\ \A j \in Keys \ {k} : Runtimes(j)' = Runtimes(j)
    BY ReplacedRuntimes
  <1>2. Runtimes(k) = StateRuntimes(reg[k].state)  BY DEF Runtimes
  <1> QED  BY <1>1, <1>2 DEF Shrinks

LEMMA WindowRuntimes ==
    ASSUME RegistryTypeOK, NEW k \in Keys, HasRecord(k), NEW n, NEW ws,
           reg' = [reg EXCEPT ![k].inFlight = n, ![k].armed = ws]
    PROVE  Shrinks
  <1> DEFINE r == [reg[k] EXCEPT !.inFlight = n, !.armed = ws]
  <1>1. reg[k] \in Records /\ reg' = [reg EXCEPT ![k] = r]  BY RecordTyped
  <1>2. r.state = reg[k].state  BY <1>1 DEF Records
  <1> HIDE DEF r
  <1> QED  BY <1>1, <1>2, KeptState

LEMMA RegisterRuntimes ==
    ASSUME RegistryTypeOK, NEW k \in Keys, NEW op, NEW gen, NEW owner,
           \/ RegisterStartCancellation(k, op, gen)
           \/ RegisterPartialRuntime(k, op, gen, owner)
           \/ RegisterStopSettlement(k, op, gen)
    PROVE  Shrinks
  <1>1. HasRecord(k)
    BY DEF RegisterStartCancellation, RegisterPartialRuntime,
           RegisterStopSettlement, Is
  <1>2. reg[k] \in Records  BY <1>1, RecordTyped
  <1>3. CASE RegisterStartCancellation(k, op, gen)
    <2> DEFINE r == [reg[k] EXCEPT !.settle = op]
    <2>1. reg' = [reg EXCEPT ![k] = r]
      BY <1>3 DEF RegisterStartCancellation
    <2>2. r.state = reg[k].state  BY <1>2 DEF Records
    <2> HIDE DEF r
    <2> QED  BY <1>1, <2>1, <2>2, KeptState
  <1>4. CASE RegisterPartialRuntime(k, op, gen, owner)
    <2> DEFINE r == [reg[k] EXCEPT !.partial = owner]
    <2>1. reg' = [reg EXCEPT ![k] = r]
      BY <1>4 DEF RegisterPartialRuntime
    <2>2. r.state = reg[k].state  BY <1>2 DEF Records
    <2> HIDE DEF r
    <2> QED  BY <1>1, <2>1, <2>2, KeptState
  <1>5. CASE RegisterStopSettlement(k, op, gen)
    <2> DEFINE r == [reg[k] EXCEPT !.stopSettled = op]
    <2>1. reg' = [reg EXCEPT ![k] = r]
      BY <1>5 DEF RegisterStopSettlement
    <2>2. r.state = reg[k].state  BY <1>2 DEF Records
    <2> HIDE DEF r
    <2> QED  BY <1>1, <2>1, <2>2, KeptState
  <1> QED  BY <1>3, <1>4, <1>5

LEMMA ClearRuntimes ==
    ASSUME RegistryTypeOK, NEW k \in Keys, NEW obs,
           ForceReleasePlatformLimited(k, obs)
    PROVE  Shrinks
  <1> DEFINE st == [reg[k].state EXCEPT !.reason = "ClearedUnverified"]
  <1>1. /\ HasRecord(k) /\ SetState(k, st) /\ reg[k].state.tag = "Fenced"
    BY DEF ForceReleasePlatformLimited, SetState, Is
  <1>2. reg[k].state \in States  BY <1>1, RecordTyped DEF Records
  <1>3. st.tag = "Fenced" /\ st.prior = reg[k].state.prior
    BY <1>1, <1>2 DEF States
  <1> HIDE DEF st
  <1>4. StateRuntimes(st) = StateRuntimes(reg[k].state)
    BY <1>1, <1>3 DEF StateRuntimes
  <1> QED  BY <1>1, <1>4, SetStateRuntimes

(* The watchdog's stop names what the start registered, and a start        *)
(* registered its own runtime only.                                        *)
LEMMA RecoverStartRuntimes ==
    ASSUME RegistryTypeOK, NoInheritedWitness, NEW k \in Keys,
           RecoverStaleStart(k)
    PROVE  Shrinks
  <1> DEFINE st == StoppingState(reg[k].partial, None, reg[k].state.op,
                                 reg[k].state.gen)
             r == [reg[k] EXCEPT !.state = st, !.partial = None]
  <1>1. /\ HasRecord(k) /\ Is(k, "Starting") /\ reg[k].state.tag = "Starting"
        /\ reg' = [reg EXCEPT ![k] = r]
    BY DEF RecoverStaleStart, Is
  <1>2. reg[k] \in Records  BY <1>1, RecordTyped
  <1>3. reg[k].partial # None => reg[k].partial.rt = reg[k].state.op
    BY <1>1 DEF NoInheritedWitness
  <1>4. StateRuntimes(st) = OwnerRuntime(reg[k].partial)
    BY DEF StateRuntimes, StoppingState
  <1>5. StateRuntimes(reg[k].state) = {reg[k].state.op}
    BY <1>1 DEF StateRuntimes
  <1>6. StateRuntimes(st) \subseteq StateRuntimes(reg[k].state)
    BY <1>3, <1>4, <1>5 DEF OwnerRuntime
  <1> HIDE DEF st
  <1>7. r.state = st  BY <1>2, StoppingFields
  <1> HIDE DEF r
  <1> QED  BY <1>1, <1>6, <1>7, KeptState

LEMMA BeginStopRuntimes ==
    ASSUME RegistryTypeOK, NEW k \in Keys, NEW op, NEW obs, NEW expected,
           BeginStop(k, op, obs, expected)
    PROVE  Shrinks
  <1> DEFINE gen == reg[k].generation + 1
             st == StoppingState(reg[k].state.owner, reg[k].state.gen, op, gen)
             r == [reg[k] EXCEPT !.generation = gen, !.state = st]
  <1>1. /\ HasRecord(k) /\ reg[k].state.tag = "Live"
        /\ reg' = [reg EXCEPT ![k] = r]
    BY DEF BeginStop, Is
  <1>2. reg[k] \in Records  BY <1>1, RecordTyped
  <1>3. StateRuntimes(st) = OwnerRuntime(reg[k].state.owner)
    BY DEF StateRuntimes, StoppingState
  <1>4. StateRuntimes(reg[k].state) = {reg[k].state.owner.rt}
    BY <1>1 DEF StateRuntimes
  <1>5. StateRuntimes(st) \subseteq StateRuntimes(reg[k].state)
    BY <1>3, <1>4 DEF OwnerRuntime
  <1> HIDE DEF gen, st
  <1>6. r.state = st  BY <1>2, MovedFields
  <1> HIDE DEF r
  <1> QED  BY <1>1, <1>5, <1>6, KeptState

-----------------------------------------------------------------------------
(* Begins: one key takes the fresh operation's runtime.                    *)

LEMMA ClaimBy ==
    ASSUME RegistryTypeOK, NEW k \in Keys, NEW op \in Ops, FreshOp(op),
           op \in Known', NEW r, reg' = [reg EXCEPT ![k] = r],
           StateRuntimes(r.state) \subseteq Runtimes(k) \cup {op}
    PROVE  ClaimsRuntime
  <1>1. /\ Runtimes(k)' \subseteq StateRuntimes(r.state)
        /\ \A j \in Keys \ {k} : Runtimes(j)' = Runtimes(j)
    BY ReplacedRuntimes
  <1> QED  BY <1>1 DEF ClaimsRuntime

LEMMA GrantedIsKnown ==
    ASSUME NEW k, NEW op, NEW verb, NEW kind, NEW obs, NEW w,
           Grant(k, op, verb, kind, obs, w)
    PROVE  op \in Known'
  <1> DEFINE t == [key |-> k, op |-> op, gen |-> reg'[k].generation,
                   verb |-> verb, kind |-> kind, obs |-> obs, window |-> w]
  <1>1. t \in granted' /\ t.op = op  BY DEF Grant
  <1> QED  BY <1>1 DEF Known

LEMMA BeginStartRuntimes ==
    ASSUME RegistryTypeOK, NEW k \in Keys, NEW kind, NEW op \in Ops, NEW obs,
           NEW window, FreshOp(op), op \in Known',
           BeginStart(k, kind, op, obs, window)
    PROVE  ClaimsRuntime
  <1> DEFINE old == RecordOf(k)
             gen == old.generation + 1
             st == StartingState(kind, op, gen)
             r == [old EXCEPT !.generation = gen, !.state = st,
                              !.settle = None, !.partial = None]
  <1>1. reg' = [reg EXCEPT ![k] = r]  BY DEF BeginStart
  <1>2. old \in Records  BY RecordTyped
  <1>3. StateRuntimes(st) = {op}  BY DEF StateRuntimes, StartingState
  <1> HIDE DEF old, gen, st
  <1>4. r.state = st  BY <1>2, StartingFields
  <1> HIDE DEF r
  <1> QED  BY <1>1, <1>3, <1>4, ClaimBy

LEMMA EnterHandoffRuntimes ==
    ASSUME RegistryTypeOK, NEW k \in Keys, NEW prior, NEW to, NEW op \in Ops,
           FreshOp(op), op \in Known',
           PriorRuntime(prior) \subseteq Runtimes(k),
           EnterHandoff(k, RecordOf(k), prior, to, op)
    PROVE  ClaimsRuntime
  <1> DEFINE old == RecordOf(k)
             gen == old.generation + 1
             st == HandoffState(prior, to, op, gen)
             r == [old EXCEPT !.generation = gen, !.state = st]
  <1>1. reg' = [reg EXCEPT ![k] = r]  BY DEF EnterHandoff
  <1>2. old \in Records  BY RecordTyped
  <1>3. StateRuntimes(st) = {op} \cup PriorRuntime(prior)
    BY DEF StateRuntimes, HandoffState
  <1> HIDE DEF old, gen, st
  <1>4. r.state = st  BY <1>2, MovedFields
  <1>5. StateRuntimes(r.state) \subseteq Runtimes(k) \cup {op}
    BY <1>3, <1>4
  <1> HIDE DEF r
  <1> QED  BY <1>1, <1>5, ClaimBy

LEMMA BeginHandoffRuntimes ==
    ASSUME RegistryTypeOK, NEW k \in Keys, NEW to, NEW op \in Ops, NEW obs,
           FreshOp(op), op \in Known',
           \/ BeginHandoff(k, to, op, obs)
           \/ BeginHandoffAcknowledged(k, to, op, obs)
    PROVE  ClaimsRuntime
  <1>1. CASE BeginHandoff(k, to, op, obs)
    <2> DEFINE prior == HandoffPrior(RecordOf(k))
    <2>1. EnterHandoff(k, RecordOf(k), prior, to, op)
      BY <1>1 DEF BeginHandoff
    <2>2. PriorRuntime(prior) \subseteq Runtimes(k)
      BY DEF HandoffPrior, PriorRuntime, Runtimes, StateRuntimes, RecordOf,
             EmptyRecord, Vacant
    <2> HIDE DEF prior
    <2> QED  BY <2>1, <2>2, EnterHandoffRuntimes
  <1>2. CASE BeginHandoffAcknowledged(k, to, op, obs)
    <2>1. /\ HasRecord(k) /\ reg[k].state.tag = "Fenced"
          /\ EnterHandoff(k, reg[k], reg[k].state.prior, to, op)
      BY <1>2 DEF BeginHandoffAcknowledged, Is
    <2>2. RecordOf(k) = reg[k]  BY <2>1 DEF RecordOf
    <2>3. PriorRuntime(reg[k].state.prior) \subseteq Runtimes(k)
      BY <2>1 DEF Runtimes, StateRuntimes
    <2> QED  BY <2>1, <2>2, <2>3, EnterHandoffRuntimes
  <1> QED  BY <1>1, <1>2

-----------------------------------------------------------------------------
(* Moves: a key hands its runtime to another, or is replaced there.        *)

LEMMA MovedRuntimes ==
    ASSUME RegistryTypeOK, NEW k \in Keys, NEW to \in Keys, k # to,
           NEW a, NEW r, reg' = [reg EXCEPT ![k] = a, ![to] = r],
           a.state.tag = "Aliased"
    PROVE  /\ Runtimes(k)' = {}
           /\ Runtimes(to)' \subseteq StateRuntimes(r.state)
           /\ \A j \in Keys \ {k, to} : Runtimes(j)' \subseteq Runtimes(j)
  <1>1. reg \in [Keys -> Records \cup {None}]  BY DEF RegistryTypeOK
  <1>2. /\ reg'[k] = a /\ reg'[to] = r
        /\ \A j \in Keys \ {k, to} : reg'[j] = reg[j]
    BY <1>1
  <1>3. Runtimes(k)' = {}
    BY <1>2 DEF Runtimes, StateRuntimes
  <1>4. Runtimes(to)' \subseteq StateRuntimes(r.state)
    BY <1>2 DEF Runtimes, StateRuntimes, PriorRuntime, OwnerRuntime
  <1> QED  BY <1>2, <1>3, <1>4, SameRuntimes

LEMMA CommitLiveRekeyRuntimes ==
    ASSUME RegistryTypeOK, NEW k \in Keys, NEW to \in Keys,
           NEW op, NEW gen \in Nat, NEW owner \in Owners, owner.rt = op,
           CommitLiveRekey(k, to, op, gen, owner)
    PROVE  HandsOver
  <1> DEFINE al == AliasedState(to, gen)
             st == LiveState(owner, gen)
             a == [reg[k] EXCEPT !.state = al]
             r == [EmptyRecord EXCEPT !.generation = gen, !.state = st]
  <1>1. /\ HasRecord(k) /\ k # to /\ reg[k] \in Records
        /\ reg[k].state.tag = "Starting" /\ reg[k].state.op = op
    BY RecordTyped DEF CommitLiveRekey, Holds, Is
  <1>2. reg' = [reg EXCEPT ![k] = a, ![to] = r]
    BY <1>1 DEF CommitLiveRekey
  <1>3. al.tag = "Aliased" /\ StateRuntimes(st) = {op}
    BY DEF AliasedState, LiveState, StateRuntimes
  <1>4. st \in States  BY BuiltStates
  <1>5. Runtimes(k) = {op}  BY <1>1 DEF Runtimes, StateRuntimes
  <1> HIDE DEF al, st
  <1>6. a.state = al  BY <1>1, MovedFields
  <1>7. r.state = st  BY <1>4, NewRecord
  <1> HIDE DEF a, r
  <1>8. /\ Runtimes(k)' = {}
        /\ Runtimes(to)' \subseteq StateRuntimes(r.state)
        /\ \A j \in Keys \ {k, to} : Runtimes(j)' \subseteq Runtimes(j)
    BY <1>1, <1>2, <1>3, <1>6, MovedRuntimes
  <1> QED  BY <1>1, <1>3, <1>5, <1>7, <1>8 DEF HandsOver

LEMMA RekeyStartingRuntimes ==
    ASSUME RegistryTypeOK, NEW k \in Keys, NEW to \in Keys, NEW op,
           NEW gen \in Nat, RekeyStarting(k, to, op, gen)
    PROVE  HandsOver
  <1> DEFINE al == AliasedState(to, gen)
             a == [EmptyRecord EXCEPT !.generation = gen, !.state = al]
             r == reg[k]
  <1>1. HasRecord(k) /\ k # to
    BY DEF RekeyStarting, Holds, Is
  <1>2. reg' = [reg EXCEPT ![k] = a, ![to] = r]  BY DEF RekeyStarting
  <1>3. al.tag = "Aliased" /\ al \in States
    BY BuiltStates DEF AliasedState
  <1>4. Runtimes(k) = StateRuntimes(r.state)  BY <1>1 DEF Runtimes
  <1> HIDE DEF al
  <1>5. a.state = al  BY <1>3, NewRecord
  <1> HIDE DEF a, r
  <1>6. /\ Runtimes(k)' = {}
        /\ Runtimes(to)' \subseteq StateRuntimes(r.state)
        /\ \A j \in Keys \ {k, to} : Runtimes(j)' \subseteq Runtimes(j)
    BY <1>1, <1>2, <1>3, <1>5, MovedRuntimes
  <1> QED  BY <1>1, <1>4, <1>6 DEF HandsOver

LEMMA RebindRuntimes ==
    ASSUME RegistryTypeOK, NEW k \in Keys, NEW old \in Keys, NEW op, NEW gen,
           NEW rt, NEW owner, owner.rt = rt,
           CommitLiveRekeyFromTerminal(k, old, op, gen, rt, owner)
    PROVE  HandsOver
  <1> DEFINE aliased == reg[old].state.gen + 1
             al == AliasedState(k, aliased)
             st == LiveState(owner, gen)
             a == [reg[old] EXCEPT !.generation = aliased, !.state = al]
             r == [reg[k] EXCEPT !.state = st]
  <1>1. /\ HasRecord(k) /\ HasRecord(old) /\ k # old
        /\ reg[old].state.tag = "Live" /\ reg[old].state.owner.rt = rt
    BY DEF CommitLiveRekeyFromTerminal, Is
  <1>2. reg[k] \in Records /\ reg[old] \in Records  BY <1>1, RecordTyped
  <1>3. reg' = [reg EXCEPT ![old] = a, ![k] = r]
    <2>1. reg \in [Keys -> Records \cup {None}]  BY DEF RegistryTypeOK
    <2>2. reg' = [reg EXCEPT ![k] = r, ![old] = a]
      BY <1>1 DEF CommitLiveRekeyFromTerminal
    <2> HIDE DEF a, r
    <2> QED  BY <1>1, <2>1, <2>2
  <1>4. al.tag = "Aliased" /\ StateRuntimes(st) = {rt}
    BY DEF AliasedState, LiveState, StateRuntimes
  <1>5. Runtimes(old) = {rt}  BY <1>1 DEF Runtimes, StateRuntimes
  <1> HIDE DEF aliased, al, st
  <1>6. a.state = al /\ r.state = st  BY <1>2, MovedFields
  <1> HIDE DEF a, r
  <1>7. /\ Runtimes(old)' = {}
        /\ Runtimes(k)' \subseteq StateRuntimes(r.state)
        /\ \A j \in Keys \ {old, k} : Runtimes(j)' \subseteq Runtimes(j)
    BY <1>1, <1>3, <1>4, <1>6, MovedRuntimes
  <1> QED  BY <1>1, <1>4, <1>5, <1>6, <1>7 DEF HandsOver

LEMMA RekeyLiveRuntimes ==
    ASSUME RegistryTypeOK, lived' = lived \cup LiveNow', NEW k \in Keys,
           NEW to \in Keys, NEW rt, NEW op \in Ops, FreshOp(op),
           NEW owner \in Owners, owner.rt = op, owner.op = op,
           RekeyLive(k, to, rt, owner)
    PROVE  Replaces
  <1> DEFINE gen == reg[k].generation + 1
             al == AliasedState(to, gen)
             st == LiveState(owner, gen)
             a == [reg[k] EXCEPT !.generation = gen, !.state = al]
             r == [EmptyRecord EXCEPT !.generation = gen, !.state = st]
  <1>1. HasRecord(k) /\ k # to /\ reg[k] \in Records /\ gen \in Nat
    BY RecordTyped DEF RekeyLive, Is, Records
  <1>2. reg' = [reg EXCEPT ![k] = a, ![to] = r]  BY <1>1 DEF RekeyLive
  <1> HIDE DEF gen
  <1>3. /\ al.tag = "Aliased" /\ StateRuntimes(st) = {op}
        /\ st.tag = "Live" /\ st.owner = owner
    BY DEF AliasedState, LiveState, StateRuntimes
  <1>4. gen \in Nat  BY <1>1
  <1>5. st \in States  BY <1>4, BuiltStates
  <1> HIDE DEF al, st
  <1>6. a.state = al  BY <1>1, MovedFields
  <1>7. r.state = st /\ r \in Records  BY <1>4, <1>5, NewRecord
  <1> HIDE DEF a, r
  <1>8. /\ Runtimes(k)' = {}
        /\ Runtimes(to)' \subseteq StateRuntimes(r.state)
        /\ \A j \in Keys \ {k, to} : Runtimes(j)' \subseteq Runtimes(j)
    BY <1>1, <1>2, <1>3, <1>6, MovedRuntimes
  <1>9. op \in Known'
    <2>1. reg'[to] = r  BY <1>1, <1>2 DEF RegistryTypeOK
    <2>2. Is(to, "Live")' /\ reg'[to].state.owner = owner
      BY <1>3, <1>7, <2>1, NoRecordAssumption DEF Is, HasRecord
    <2>3. Era(to, reg[to].state.gen)' \in lived'  BY <2>2, ErasAfter
    <2>4. Era(to, reg[to].state.gen)'.owner = owner  BY <2>2 DEF Era
    <2> QED  BY <2>3, <2>4 DEF Known
  <1> QED  BY <1>1, <1>3, <1>7, <1>8, <1>9 DEF Replaces

LEMMA AliasVacantKeyRuntimes ==
    ASSUME RegistryTypeOK, NEW k \in Keys, NEW to \in Keys,
           AliasVacantKey(k, to)
    PROVE  Shrinks
  <1> DEFINE gen == reg[to].generation
             st == AliasedState(to, gen)
             r == [EmptyRecord EXCEPT !.generation = gen, !.state = st]
  <1>1. gen \in Nat /\ reg' = [reg EXCEPT ![k] = r]
    BY RecordTyped DEF AliasVacantKey, Records
  <1> HIDE DEF gen
  <1>2. gen \in Nat  BY <1>1
  <1>3. st \in States /\ StateRuntimes(st) = {}
    BY <1>2, BuiltStates DEF AliasedState, StateRuntimes
  <1> HIDE DEF st
  <1>4. r.state = st  BY <1>2, <1>3, NewRecord
  <1> HIDE DEF r
  <1>5. /\ Runtimes(k)' \subseteq StateRuntimes(r.state)
        /\ \A j \in Keys \ {k} : Runtimes(j)' = Runtimes(j)
    BY <1>1, ReplacedRuntimes
  <1> QED  BY <1>3, <1>4, <1>5 DEF Shrinks

-----------------------------------------------------------------------------
(* The theorem.                                                            *)

RuntimeStep == Shrinks \/ ClaimsRuntime \/ HandsOver \/ Replaces

LEMMA CallRuntimes ==
    ASSUME TypeOK, NoInheritedWitness, Call, lived' = lived \cup LiveNow'
    PROVE  RuntimeStep
  <1> USE DEF RuntimeStep
  <1>0. /\ RegistryTypeOK
        /\ \A t \in granted : t \in Tickets
        /\ \A e \in lived : e \in LiveEras
        /\ \A g \in guards : g.key \in Keys
    BY DEF TypeOK, Guards
  <1>1. CASE Start
    <2>1. PICK k \in Keys, kind \in Kinds, op \in Ops :
            \E obs \in Observations(k) \cup {None},
               w \in {g.window : g \in guards} \cup {None} :
              /\ FreshOp(op) /\ BeginStart(k, kind, op, obs, w)
              /\ Grant(k, op, "start", kind, obs, w)
      BY <1>1 DEF Start
    <2>2. op \in Known' /\ FreshOp(op)  BY <2>1, GrantedIsKnown
    <2> QED  BY <1>0, <2>1, <2>2, BeginStartRuntimes
  <1>2. CASE Handoff
    <2>1. PICK k \in Keys, to \in Kinds, op \in Ops :
            \E obs \in Observations(k) \cup {None} :
              /\ FreshOp(op) /\ BeginHandoff(k, to, op, obs)
              /\ Grant(k, op, "handoff", to, obs, None)
      BY <1>2 DEF Handoff
    <2>2. op \in Known' /\ FreshOp(op)  BY <2>1, GrantedIsKnown
    <2> QED  BY <1>0, <2>1, <2>2, BeginHandoffRuntimes
  <1>3. CASE AcknowledgedHandoff
    <2>1. PICK k \in Keys, to \in Kinds, op \in Ops :
            \E obs \in Observations(k) :
              /\ FreshOp(op) /\ BeginHandoffAcknowledged(k, to, op, obs)
              /\ Grant(k, op, "handoff", to, obs, None)
      BY <1>3 DEF AcknowledgedHandoff
    <2>2. op \in Known' /\ FreshOp(op)  BY <2>1, GrantedIsKnown
    <2> QED  BY <1>0, <2>1, <2>2, BeginHandoffRuntimes
  <1>4. CASE Stop
    BY <1>0, <1>4, BeginStopRuntimes DEF Stop
  <1>5. CASE Attach
    <2>1. PICK k \in Keys, w \in Windows : HasRecord(k) /\ OpenWindow(k, w)
      BY <1>5 DEF Attach, BeginAttachGuard, BeginAdoptGuard, Is
    <2>2. reg' = [reg EXCEPT ![k].inFlight = reg[k].inFlight + 1,
                             ![k].armed = reg[k].armed \cup {w}]
      BY <2>1 DEF OpenWindow
    <2> QED  BY <1>0, <2>1, <2>2, WindowRuntimes
  <1>6. CASE Detach
    <2>1. PICK g \in guards : ReleaseWindow(g.key, g.window)
      BY <1>6 DEF Detach
    <2>2. CASE HasRecord(g.key)
      <3>1. reg' = [reg EXCEPT
              ![g.key].inFlight = IF reg[g.key].inFlight = 0 THEN 0
                                  ELSE reg[g.key].inFlight - 1,
              ![g.key].armed = reg[g.key].armed \ {g.window}]
        BY <2>1, <2>2 DEF ReleaseWindow
      <3> QED  BY <1>0, <2>2, <3>1, WindowRuntimes
    <2>3. CASE ~HasRecord(g.key)
      BY <2>1, <2>3, SameRuntimes DEF ReleaseWindow, Shrinks
    <2> QED  BY <2>2, <2>3
  <1>7. CASE Commit
    <2>1. PICK t \in granted :
            \/ CommitLive(t.key, t.op, t.gen, SpawnedBy(t))
            \/ \E to \in Keys :
                 CommitLiveRekey(t.key, to, t.op, t.gen, SpawnedBy(t))
      BY <1>7 DEF Commit
    <2>2. SpawnedBy(t).rt = t.op  BY DEF SpawnedBy
    <2> QED  BY <1>0, <2>1, <2>2, TicketFields, CommitLiveRuntimes,
                CommitLiveRekeyRuntimes
  <1>8. CASE RekeyStart
    BY <1>0, <1>8, TicketFields, RekeyStartingRuntimes DEF RekeyStart
  <1>9. CASE Rebind
    <2>1. PICK t \in granted, old \in Keys, e \in lived :
            CommitLiveRekeyFromTerminal(t.key, old, t.op, t.gen, e.owner.rt,
               [kind |-> "terminal", rt |-> e.owner.rt, op |-> t.op])
      BY <1>9 DEF Rebind
    <2>2. t.key \in Keys  BY <1>0, TicketFields
    <2>3. [kind |-> "terminal", rt |-> e.owner.rt, op |-> t.op].rt = e.owner.rt
      OBVIOUS
    <2> QED  BY <1>0, <2>1, <2>2, <2>3, RebindRuntimes
  <1>10. CASE Fail
    BY <1>0, <1>10, TicketFields, VacatedRuntimes, FailHandoffRuntimes,
       AbortStopRuntimes DEF Fail
  <1>11. CASE Fence
    <2>1. CASE \E t \in granted :
                 \E reason \in {"WatcherFailed", "PlatformLimited"} :
                   FenceUnconfirmedStop(t.key, t.op, t.gen, reason)
      BY <1>0, <2>1, TicketFields, FenceStopRuntimes
    <2>2. CASE \E t \in granted :
                 \E reason \in {"WatcherFailed", "PlatformLimited"} :
                   \E u \in Unconfirmed(t) :
                     FenceUnconfirmedHandoff(t.key, t.op, t.gen, reason, u)
      <3>1. PICK t \in granted,
                 reason \in {"WatcherFailed", "PlatformLimited"} :
              \E u \in Unconfirmed(t) :
                FenceUnconfirmedHandoff(t.key, t.op, t.gen, reason, u)
        BY <2>2
      <3>2. \A u \in Unconfirmed(t) : u # None => u.owner.rt = t.op
        BY DEF Unconfirmed, SpawnedBy
      <3> QED  BY <1>0, <3>1, <3>2, TicketFields, FenceHandoffRuntimes
    <2>3. CASE \E e \in lived :
                 \E reason \in {"WatcherFailed", "PlatformLimited"} :
                   FenceUnconfirmedLive(e.key, e.gen, e.owner, reason)
      BY <1>0, <2>3, EraFields, FenceLiveRuntimes
    <2> QED  BY <1>11, <2>1, <2>2, <2>3 DEF Fence
  <1>12. CASE Confirm
    BY <1>0, <1>12, TicketFields, EraFields, VacatedRuntimes DEF Confirm
  <1>13. CASE Clear
    BY <1>0, <1>13, ClearRuntimes DEF Clear
  <1>14. CASE Exit
    BY <1>0, <1>14, TicketFields, EraFields, VacatedRuntimes DEF Exit
  <1>15. CASE MoveLive
    <2> DEFINE spawned(op) == [kind |-> "fresh-agent", rt |-> op, op |-> op]
    <2>1. PICK e \in lived, to \in Keys, op \in Ops :
            FreshOp(op) /\ RekeyLive(e.key, to, e.owner.rt, spawned(op))
      BY <1>15 DEF MoveLive
    <2>2. /\ spawned(op) \in Owners
          /\ spawned(op).rt = op /\ spawned(op).op = op
      BY DEF Owners, Kinds
    <2>3. e.key \in Keys  BY <1>0, EraFields
    <2> HIDE DEF spawned
    <2> QED  BY <1>0, <2>1, <2>2, <2>3, RekeyLiveRuntimes
  <1>16. CASE AliasPlaceholder
    BY <1>0, <1>16, AliasVacantKeyRuntimes DEF AliasPlaceholder
  <1>17. CASE Register
    BY <1>0, <1>17, TicketFields, RegisterRuntimes DEF Register
  <1>18. CASE Settle
    BY <1>18, SameRuntimes DEF Settle, DropSettlementGuard, Shrinks
  <1>19. CASE Sweep
    BY <1>0, <1>19, RecoverStartRuntimes, RecoverStoppingRuntimes DEF Sweep
  <1>20. CASE RecoverStart
    BY <1>0, <1>20, VacatedRuntimes, FenceStopRuntimes DEF RecoverStart
  <1> QED  BY <1>1, <1>2, <1>3, <1>4, <1>5, <1>6, <1>7, <1>8, <1>9, <1>10,
              <1>11, <1>12, <1>13, <1>14, <1>15, <1>16, <1>17, <1>18, <1>19,
              <1>20
           DEF Call

(* A name that is taken stays taken while the boot lasts.                  *)
LEMMA KnownGrows ==
    ASSUME Call, lived' = lived \cup LiveNow'
    PROVE  Known \subseteq Known'
  <1>1. granted \subseteq granted'
    BY DEF Call, Start, Handoff, AcknowledgedHandoff, Stop, Attach, Detach,
           Commit, RekeyStart, Rebind, Fail, Fence, Confirm, Clear, Exit,
           MoveLive, AliasPlaceholder, Register, Settle, Sweep, RecoverStart,
           Grant
  <1> QED  BY <1>1 DEF Known

LEMMA RuntimeBookStep ==
    TypeOK /\ NoInheritedWitness /\ RuntimeBook /\ [Next]_vars => RuntimeBook'
  <1> SUFFICES ASSUME TypeOK, NoInheritedWitness, RuntimeBook, [Next]_vars
               PROVE  RuntimeBook'
    OBVIOUS
  <1>1. CASE Call /\ lived' = lived \cup LiveNow'
    BY <1>1, CallRuntimes, KnownGrows, BookByStep DEF RuntimeStep
  <1>2. CASE Restart
    <2>1. \A k \in Keys : Runtimes(k)' = {}
      BY <1>2 DEF Restart, Runtimes, HasRecord
    <2> QED  BY <2>1 DEF RuntimeBook, Disjoint
  <1>3. CASE UNCHANGED vars
    <2>1. Known' = Known  BY <1>3 DEF vars, Known
    <2>2. Shrinks  BY <1>3, SameRuntimes DEF vars, registryVars, Shrinks
    <2> QED  BY <2>1, <2>2, BookByStep
  <1> QED  BY <1>1, <1>2, <1>3 DEF Next

LEMMA BookNamesRuntimes == RuntimeBook => RuntimeHasOneKey
  <1>1. \A k \in Keys : NamedRuntimes(k) \subseteq Runtimes(k)
    BY DEF NamedRuntimes, Runtimes, StateRuntimes, PriorRuntime, OwnerRuntime,
           Is
  <1> QED  BY <1>1 DEF RuntimeBook, Disjoint, RuntimeHasOneKey

(* No two session ids name one runtime as running, stopping, handed over   *)
(* or unconfirmed: commit_live_rekey, rekey_session_id, rekey_live and the *)
(* identity rebind each leave the old id without it in the same step.      *)
THEOREM RuntimesHaveOneKey == Spec => []RuntimeHasOneKey
  <1>1. Init => ClaimIsCurrent /\ NoInheritedWitness /\ RuntimeBook
    BY DEF Init, RegistryInit, ClaimIsCurrent, NoInheritedWitness,
           RuntimeBook, Disjoint, Runtimes, Is, HasRecord
  <1> QED  BY <1>1, TypeCorrect, WitnessStep, RuntimeBookStep,
              BookNamesRuntimes, PTL DEF Spec

=============================================================================
