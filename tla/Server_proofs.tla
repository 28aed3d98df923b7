--------------------------- MODULE Server_proofs ----------------------------
(* Theorems about the profile environment, the TTS stream and the ASR       *)
(* segmenter of the server, for any keys, profiles, sentences, chunks,      *)
(* clips and speech.                                                        *)
EXTENDS ProfileEnv, TtsStream, AsrSegments, FiniteSetTheorems, SequenceTheorems, WellFoundedInduction, TLAPS

-----------------------------------------------------------------------------
(* The profile environment.                                                 *)

(* What the bookkeeping of the keys comes down to: a key is on record or  *)
(* escaped, never both; only an operator key has the operator's value;    *)
(* and a shared operator key on record is handed over, for no reload      *)
(* hands it back.                                                         *)
RecordsAreExact ==
  /\ escaped \cap appliedKeys = {}
  /\ \A k \in EnvKeys : environ[k] = Operator => k \in OperatorKeys
  /\ \A k \in appliedKeys \cap OperatorKeys : KeyKind[k] = "shared" => k \in overridden

(* Before the startup apply the environment is the operator's.            *)
FreshUntilBooted ==
  ~booted => /\ environ = [k \in EnvKeys |-> IF k \in OperatorKeys THEN Operator ELSE Absent]
             /\ appliedKeys = {} /\ overridden = {} /\ escaped = {}

(* The inductive invariant.                                               *)
EnvInv == EnvironIsAccountedFor /\ RecordsAreExact /\ FreshUntilBooted

(* The sets apply_profile computes, for an operator key and for any       *)
(* other.                                                                 *)
LEMMA ApplySets ==
  ASSUME EnvTypeOK, NEW p \in Refs, NEW scopes \in SUBSET Scopes, NEW k \in EnvKeys
  PROVE  /\ k \in Writable(p, scopes) <=>
              k \in Block[p] /\ KeyKind[k] \in scopes /\ (k \in OperatorKeys => k \in Owned[p])
         /\ k \in OperatorKeys => k \notin Stale(p, scopes)
         /\ k \notin OperatorKeys =>
              /\ k \notin Relinquished(p, scopes)
              /\ k \in Stale(p, scopes) <=> k \in appliedKeys /\ k \notin Block[p] /\ KeyKind[k] \in scopes
         /\ k \in Relinquished(p, scopes) <=> k \in overridden /\ k \notin Owned[p] /\ KeyKind[k] \in scopes
         /\ k \in Recorded(p, scopes) <=>
              \/ k \in appliedKeys /\ KeyKind[k] \notin scopes
              \/ k \in Writable(p, scopes)
BY ProfileAssumption DEF EnvTypeOK, Writable, Merged, EffOperator, Stale, Relinquished, Recorded, InScope

(* The startup apply establishes the bookkeeping.                         *)
LEMMA BootStep ==
  ASSUME EnvInv, NEW p \in Refs, Boot(p)
  PROVE  EnvInv'
<1>1. PICK optional \in SUBSET Engines[p] :
        LET exports == Engines[p] \ optional IN
        /\ environ' = [k \in EnvKeys |->
                         IF k \in exports THEN p ELSE Written(p, Scopes, Writable(p, Scopes))[k]]
        /\ escaped' = exports \ Recorded(p, Scopes)
  BY DEF Boot
<1> DEFINE exports == Engines[p] \ optional
<1>2. /\ environ = [k \in EnvKeys |-> IF k \in OperatorKeys THEN Operator ELSE Absent]
      /\ appliedKeys = {} /\ overridden = {} /\ escaped = {} /\ EnvTypeOK
  BY DEF EnvInv, FreshUntilBooted, Boot, EnvironIsAccountedFor
<1>3. \A k \in EnvKeys : KeyKind[k] \in Scopes
  BY ProfileAssumption
<1>4. \A k \in EnvKeys :
        /\ k \in Recorded(p, Scopes) <=> k \in Writable(p, Scopes)
        /\ k \in Writable(p, Scopes) <=> k \in Block[p] /\ (k \in OperatorKeys => k \in Owned[p])
        /\ k \notin Relinquished(p, Scopes) /\ k \notin Stale(p, Scopes)
  BY <1>2, <1>3, ApplySets
<1>5. \A k \in EnvKeys : environ'[k] =
        IF k \in exports \/ k \in Writable(p, Scopes) THEN p
        ELSE IF k \in OperatorKeys THEN Operator ELSE Absent
  BY <1>1, <1>2, <1>4 DEF Written
<1>6. appliedKeys' = Writable(p, Scopes) /\ Writable(p, Scopes) \subseteq EnvKeys
  BY <1>2, <1>4, ProfileAssumption DEF Boot, Recorded, Writable, Merged
<1>7. overridden' = Writable(p, Scopes) \cap OperatorKeys \cap Owned[p]
  BY <1>2 DEF Boot, OverriddenBy
<1>8. escaped' = exports \ Writable(p, Scopes) /\ exports \subseteq EnvKeys
  BY <1>1, <1>4, ProfileAssumption
<1>9. inForce' = [c \in Scopes |-> p] /\ booted'
  BY DEF Boot
<1>10. EnvTypeOK'
  BY <1>1, <1>5, <1>6, <1>7, <1>8, <1>9, ProfileAssumption DEF EnvTypeOK
<1>11. EnvironFollowsProfiles' /\ ProfileValuesAreOnRecord'
  BY <1>4, <1>5, <1>6, <1>8, <1>9, ProfileAssumption DEF EnvironFollowsProfiles, ProfileValuesAreOnRecord
<1>12. OperatorValuesComeBack'
  BY <1>3, <1>4, <1>5, <1>7, <1>8, <1>9, ProfileAssumption DEF OperatorValuesComeBack
<1>13. RecordsAreExact'
  BY <1>4, <1>5, <1>6, <1>7, <1>8, ProfileAssumption DEF RecordsAreExact
<1>14. QED
  BY <1>9, <1>10, <1>11, <1>12, <1>13 DEF EnvInv, EnvironIsAccountedFor, FreshUntilBooted

(* A reload of one kind keeps it: keys of the other kind are left alone,  *)
(* on record and in the environment.                                      *)
LEMMA ReloadStep ==
  ASSUME EnvInv, NEW p \in Refs, NEW c \in Kinds, Reload(p, c)
  PROVE  EnvInv'
<1>1. PICK exports \in SUBSET Exportable(p, {c}), resolved \in BOOLEAN :
        /\ environ' = [k \in EnvKeys |->
                         IF k \in exports THEN p ELSE Written(p, {c}, Writable(p, {c}))[k]]
        /\ appliedKeys' = Recorded(p, {c}) \cup (IF resolved THEN exports \ OperatorKeys ELSE {})
        /\ escaped' = (escaped \cup exports) \ appliedKeys'
  BY DEF Reload
<1>2. EnvTypeOK /\ {c} \in SUBSET Scopes /\ c # "shared"
  BY DEF EnvInv, EnvironIsAccountedFor, Scopes, Kinds
<1>3. \A k \in EnvKeys :
        /\ k \in Writable(p, {c}) <=> k \in Block[p] /\ KeyKind[k] = c /\ (k \in OperatorKeys => k \in Owned[p])
        /\ k \in OperatorKeys => k \notin Stale(p, {c})
        /\ k \notin OperatorKeys =>
             /\ k \notin Relinquished(p, {c})
             /\ k \in Stale(p, {c}) <=> k \in appliedKeys /\ k \notin Block[p] /\ KeyKind[k] = c
        /\ k \in Relinquished(p, {c}) <=> k \in overridden /\ k \notin Owned[p] /\ KeyKind[k] = c
        /\ k \in Recorded(p, {c}) <=> (k \in appliedKeys /\ KeyKind[k] # c) \/ k \in Writable(p, {c})
  BY <1>2, ApplySets
<1>4. exports \subseteq EnvKeys /\ \A k \in exports : k \in Engines[p] /\ KeyKind[k] \in {c, "shared"}
  BY <1>1, ProfileAssumption DEF Exportable
<1>5. \A k \in EnvKeys : environ'[k] =
        IF k \in exports \/ k \in Writable(p, {c}) THEN p
        ELSE IF k \in Relinquished(p, {c}) THEN Operator
        ELSE IF k \in Stale(p, {c}) THEN Absent ELSE environ[k]
  BY <1>1 DEF Written
<1>6. /\ appliedKeys' \subseteq EnvKeys /\ escaped' \subseteq EnvKeys
      /\ \A k \in EnvKeys :
           /\ k \in appliedKeys' <=>
                \/ k \in appliedKeys /\ KeyKind[k] # c
                \/ k \in Writable(p, {c})
                \/ resolved /\ k \in exports /\ k \notin OperatorKeys
           /\ k \in escaped' <=> (k \in escaped \/ k \in exports) /\ k \notin appliedKeys'
  <2>1. Recorded(p, {c}) \subseteq EnvKeys
    BY <1>2, ProfileAssumption DEF Recorded, Writable, Merged, EnvTypeOK
  <2>2. QED
    BY <2>1, <1>1, <1>2, <1>3, <1>4 DEF EnvTypeOK
<1>7. /\ overridden' \subseteq OperatorKeys
      /\ \A k \in EnvKeys : k \in overridden' <=>
           \/ k \in overridden /\ k \notin Relinquished(p, {c})
           \/ k \in Writable(p, {c}) /\ k \in OperatorKeys /\ k \in Owned[p]
  BY <1>2 DEF Reload, OverriddenBy, EnvTypeOK
<1>8. inForce' = [inForce EXCEPT ![c] = p] /\ booted' /\ inForce \in [Scopes -> Refs \cup {TornRef}]
      /\ c \in Scopes
  BY <1>2 DEF Reload, EnvTypeOK, Scopes
<1>9. \A k \in EnvKeys : inForce'[KeyKind[k]] = IF KeyKind[k] = c THEN p ELSE inForce[KeyKind[k]]
  BY <1>8, ProfileAssumption
<1>10. EnvTypeOK'
  <2>1. environ' \in [EnvKeys -> Refs \cup {Operator, Absent}]
    <3>1. \A k \in EnvKeys : environ'[k] \in Refs \cup {Operator, Absent}
      BY <1>2, <1>5 DEF EnvTypeOK
    <3>2. QED
      BY <1>1, <3>1
  <2>2. QED
    BY <1>6, <1>7, <1>8, <2>1 DEF EnvTypeOK
<1> USE DEF EnvInv, EnvironIsAccountedFor
<1>11. EnvironFollowsProfiles'
  <2> SUFFICES ASSUME NEW k \in EnvKeys, k \notin OperatorKeys, k \notin escaped',
                      KeyKind[k] \in Kinds, inForce'[KeyKind[k]] # TornRef
               PROVE  /\ k \in Block[inForce'[KeyKind[k]]] => environ'[k] = inForce'[KeyKind[k]]
                      /\ k \notin Block[inForce'[KeyKind[k]]] \cup Engines[inForce'[KeyKind[k]]]
                           => environ'[k] = Absent
    BY DEF EnvironFollowsProfiles
  <2>1. CASE KeyKind[k] = c
    BY <2>1, <1>2, <1>3, <1>4, <1>5, <1>6, <1>9
       DEF ProfileValuesAreOnRecord, RecordsAreExact, EnvTypeOK
  <2>2. CASE KeyKind[k] # c
    <3>1. k \notin exports /\ k \notin escaped /\ environ'[k] = environ[k]
      BY <2>2, <1>3, <1>4, <1>5, <1>6 DEF Kinds, RecordsAreExact
    <3>2. QED
      BY <2>2, <3>1, <1>9 DEF EnvironFollowsProfiles
  <2>3. QED
    BY <2>1, <2>2
<1>12. ProfileValuesAreOnRecord'
  BY <1>3, <1>5, <1>6, ProfileAssumption DEF ProfileValuesAreOnRecord
<1>13. OperatorValuesComeBack'
  <2> SUFFICES ASSUME NEW k \in OperatorKeys, k \notin escaped'
               PROVE  /\ k \notin overridden' => environ'[k] = Operator
                      /\ k \in overridden' /\ inForce'[KeyKind[k]] # TornRef
                           => k \in Owned[inForce'[KeyKind[k]]]
    BY DEF OperatorValuesComeBack
  <2>1. k \in EnvKeys
    BY ProfileAssumption
  <2>2. k \in exports => k \in overridden'
    BY <2>1, <1>3, <1>4, <1>6, <1>7 DEF RecordsAreExact
  <2>3. k \notin overridden' => environ'[k] = Operator
    <3> SUFFICES ASSUME k \notin overridden' PROVE environ'[k] = Operator
      OBVIOUS
    <3>1. k \notin exports /\ k \notin Writable(p, {c}) /\ k \notin Stale(p, {c})
      BY <2>1, <2>2, <1>3, <1>7
    <3>2. CASE k \in Relinquished(p, {c})
      BY <3>1, <3>2, <2>1, <1>5
    <3>3. CASE k \notin Relinquished(p, {c})
      <4>1. k \notin overridden /\ environ'[k] = environ[k]
        BY <3>1, <3>3, <2>1, <1>5, <1>7
      <4>2. k \notin escaped
        BY <2>1, <3>1, <1>3, <1>6 DEF RecordsAreExact
      <4>3. QED
        BY <4>1, <4>2 DEF OperatorValuesComeBack
    <3>4. QED
      BY <3>2, <3>3
  <2>4. ASSUME k \in overridden', inForce'[KeyKind[k]] # TornRef
        PROVE  k \in Owned[inForce'[KeyKind[k]]]
    <3>1. CASE KeyKind[k] = c
      BY <2>1, <2>4, <3>1, <1>3, <1>7, <1>9
    <3>2. CASE KeyKind[k] # c
      <4>1. k \in overridden
        BY <2>1, <2>4, <3>2, <1>3, <1>7
      <4>2. k \notin escaped
        BY <2>1, <3>2, <1>3, <1>6, <4>1 DEF RecordsAreExact
      <4>3. QED
        BY <2>1, <2>4, <3>2, <4>1, <4>2, <1>9 DEF OperatorValuesComeBack
    <3>3. QED
      BY <3>1, <3>2
  <2>5. QED
    BY <2>3, <2>4
<1>14. RecordsAreExact'
  <2>1. escaped' \cap appliedKeys' = {}
    BY <1>1
  <2>2. \A k \in EnvKeys : environ'[k] = Operator => k \in OperatorKeys
    BY <1>2, <1>3, <1>5, ProfileAssumption DEF RecordsAreExact
  <2>3. \A k \in appliedKeys' \cap OperatorKeys : KeyKind[k] = "shared" => k \in overridden'
    BY <1>2, <1>3, <1>6, <1>7, ProfileAssumption DEF RecordsAreExact
  <2>4. QED
    BY <2>1, <2>2, <2>3 DEF RecordsAreExact
<1>15. QED
  BY <1>8, <1>10, <1>11, <1>12, <1>13, <1>14 DEF FreshUntilBooted

(* A reload that raises between two keys keeps it: what it wrote is on    *)
(* record or has escaped, and is told apart.                              *)
LEMMA RaiseStep ==
  ASSUME EnvInv, NEW p \in Refs, NEW c \in Kinds, ReloadRaises(p, c)
  PROVE  EnvInv'
<1>1. PICK written \in SUBSET Writable(p, {c}) :
        /\ environ' = Written(p, {c}, written)
        /\ overridden' = OverriddenBy(p, {c}, written)
        /\ escaped' = escaped \cup (written \ appliedKeys)
  BY DEF ReloadRaises
<1>2. EnvTypeOK /\ {c} \in SUBSET Scopes /\ c # "shared"
  BY DEF EnvInv, EnvironIsAccountedFor, Scopes, Kinds
<1>3. \A k \in EnvKeys :
        /\ k \in Writable(p, {c}) <=> k \in Block[p] /\ KeyKind[k] = c /\ (k \in OperatorKeys => k \in Owned[p])
        /\ k \in OperatorKeys => k \notin Stale(p, {c})
        /\ k \notin OperatorKeys =>
             /\ k \notin Relinquished(p, {c})
             /\ k \in Stale(p, {c}) <=> k \in appliedKeys /\ k \notin Block[p] /\ KeyKind[k] = c
        /\ k \in Relinquished(p, {c}) <=> k \in overridden /\ k \notin Owned[p] /\ KeyKind[k] = c
  BY <1>2, ApplySets
<1>4. Writable(p, {c}) \subseteq EnvKeys
  BY ProfileAssumption DEF Writable, Merged
<1>5. \A k \in EnvKeys : environ'[k] =
        IF k \in written THEN p
        ELSE IF k \in Relinquished(p, {c}) THEN Operator
        ELSE IF k \in Stale(p, {c}) THEN Absent ELSE environ[k]
  BY <1>1 DEF Written
<1>6. /\ overridden' \subseteq OperatorKeys
      /\ \A k \in EnvKeys : k \in overridden' <=>
           \/ k \in overridden /\ k \notin Relinquished(p, {c})
           \/ k \in written /\ k \in OperatorKeys /\ k \in Owned[p]
  BY <1>1, <1>2 DEF OverriddenBy, EnvTypeOK
<1>7. /\ inForce' = [inForce EXCEPT ![c] = TornRef] /\ UNCHANGED <<appliedKeys, booted>> /\ booted
      /\ inForce \in [Scopes -> Refs \cup {TornRef}] /\ c \in Scopes
  BY <1>2 DEF ReloadRaises, EnvTypeOK, Scopes
<1>8. \A k \in EnvKeys : inForce'[KeyKind[k]] = IF KeyKind[k] = c THEN TornRef ELSE inForce[KeyKind[k]]
  BY <1>7, ProfileAssumption
<1> USE DEF EnvInv, EnvironIsAccountedFor
<1>9. EnvTypeOK'
  <2>1. environ' \in [EnvKeys -> Refs \cup {Operator, Absent}]
    <3>1. \A k \in EnvKeys : environ'[k] \in Refs \cup {Operator, Absent}
      BY <1>2, <1>5 DEF EnvTypeOK
    <3>2. QED
      BY <1>1, <3>1 DEF Written
  <2>2. QED
    BY <1>1, <1>2, <1>4, <1>6, <1>7, <2>1 DEF EnvTypeOK
<1>10. EnvironFollowsProfiles'
  <2>1. \A k \in EnvKeys : KeyKind[k] # c => environ'[k] = environ[k]
    BY <1>1, <1>3, <1>4, <1>5
  <2>2. QED
    BY <1>1, <1>8, <2>1 DEF EnvironFollowsProfiles
<1>11. ProfileValuesAreOnRecord'
  BY <1>1, <1>3, <1>5, <1>7, ProfileAssumption DEF ProfileValuesAreOnRecord
<1>12. OperatorValuesComeBack'
  BY <1>1, <1>3, <1>5, <1>6, <1>8, ProfileAssumption DEF OperatorValuesComeBack
<1>13. RecordsAreExact'
  <2>1. escaped' \cap appliedKeys' = {}
    BY <1>1, <1>7 DEF RecordsAreExact
  <2>2. \A k \in EnvKeys : environ'[k] = Operator => k \in OperatorKeys
    BY <1>2, <1>3, <1>5, ProfileAssumption DEF RecordsAreExact
  <2>3. \A k \in appliedKeys' \cap OperatorKeys : KeyKind[k] = "shared" => k \in overridden'
    BY <1>2, <1>3, <1>6, <1>7, ProfileAssumption DEF RecordsAreExact
  <2>4. QED
    BY <2>1, <2>2, <2>3 DEF RecordsAreExact
<1>14. QED
  BY <1>7, <1>9, <1>10, <1>11, <1>12, <1>13 DEF FreshUntilBooted

(* Profile environment (core/profile_env.py): for any keys, profiles and  *)
(* ownership, every value in os.environ is the operator's, of a profile   *)
(* on record, or one of a reload that raised; operator keys are never     *)
(* overwritten unasked.                                                   *)
THEOREM EnvironAccountedFor == EnvSpec => []EnvironIsAccountedFor
<1>1. EnvInit => EnvInv
  BY ProfileAssumption DEF EnvInit, EnvInv, EnvironIsAccountedFor, EnvTypeOK, EnvironFollowsProfiles,
     ProfileValuesAreOnRecord, OperatorValuesComeBack, RecordsAreExact, FreshUntilBooted, Scopes
<1>2. EnvInv /\ [EnvNext]_envVars => EnvInv'
  <2> SUFFICES ASSUME EnvInv, [EnvNext]_envVars PROVE EnvInv'
    OBVIOUS
  <2>1. CASE UNCHANGED envVars
    BY <2>1 DEF envVars, EnvInv, EnvironIsAccountedFor, EnvTypeOK, EnvironFollowsProfiles,
       ProfileValuesAreOnRecord, OperatorValuesComeBack, RecordsAreExact, FreshUntilBooted
  <2>2. QED
    BY <2>1, BootStep, ReloadStep, RaiseStep DEF EnvNext
<1>3. EnvInv => EnvironIsAccountedFor
  BY DEF EnvInv
<1>4. QED
  BY <1>1, <1>2, <1>3, PTL DEF EnvSpec

-----------------------------------------------------------------------------
(* The TTS stream.                                                          *)

(* The stages before the first job is submitted.                          *)
SetupStages == {"admit", "manager", "lease", "coordinate"}

(* What has to be held while a job may run.                               *)
LeasesNeeded == {"session", "coordinator"} \cup (IF route = "legacy" THEN {} ELSE {"backend"})

(* Where the handler is: nothing is submitted before the leases are held, *)
(* every sentence before the next to submit has a job, and the handler    *)
(* only ends by a clean-up once there is one.                             *)
FlowFacts ==
  /\ submitted = 1 => /\ stage \in SetupStages \cup {"over"} /\ cursor = 1
                      /\ watch = "none" /\ cleanup = "none" /\ ~cancelFlag
  /\ stage \in SetupStages => submitted = 1
  /\ stage = "over" /\ submitted # 1 => cleanup # "none"
  /\ stage = "waiting" => cleanup # "none"
  /\ stage \in {"unwinding", "waiting"} => cancelFlag
  /\ cleanup # "none" => cancelFlag
  /\ stage \in {"drain", "yielded"} => cursor < submitted /\ cursor <= Last
  /\ stage \in {"drain", "yielded"} /\ route = "legacy" => submitted = cursor + 1
  /\ \A i \in 1..Sentences : jobs[i] = "none" <=> i >= submitted

(* Leases follow the stages; from the first job to the release of the     *)
(* clean-up all of them are held, and at the release no job is in the     *)
(* backend.                                                               *)
LeaseFacts ==
  /\ stage = "admit" => leases = {}
  /\ stage \in {"manager", "lease", "coordinate"} => "session" \in leases
  /\ stage = "coordinate" /\ route # "legacy" => "backend" \in leases
  /\ submitted # 1 /\ cleanup # "released" => LeasesNeeded \subseteq leases
  /\ cleanup = "released" => leases = {} /\ \A i \in 1..Sentences : jobs[i] # "backend"
  /\ cleanup = "draining" => \A i \in 1..Sentences : jobs[i] = "backend" => i \in drainSet
  /\ stage = "over" /\ submitted = 1 => leases = {}

(* Per sentence: what is delivered and what is in the pipe is what was    *)
(* emitted, in order; the end marker comes after the last chunk.          *)
AudioAt(i) ==
    /\ delivered[i] <= emitted[i] /\ emitted[i] - delivered[i] <= Len(pipe[i])
    /\ \A n \in 1..Len(pipe[i]) : pipe[i][n] = "pcm" <=> n <= emitted[i] - delivered[i]
    /\ jobs[i] \in {"none", "queued", "started"} => emitted[i] = 0 /\ (~cancelFlag => Len(pipe[i]) = 0)
    /\ jobs[i] = "backend" => Len(pipe[i]) = emitted[i] - delivered[i]
    /\ ~cancelFlag /\ (\E n \in 1..Len(pipe[i]) : pipe[i][n] = "eof") => jobs[i] \in {"posted", "finished"}
    /\ i < cursor => delivered[i] = emitted[i] /\ jobs[i] \in {"posted", "finished"}
    /\ i > cursor => delivered[i] = 0

(* The same of all sentences.                                             *)
AudioFacts == \A i \in 1..Sentences : AudioAt(i)

(* The inductive invariant.                                               *)
StreamFacts == TtsTypeOK /\ FlowFacts /\ LeaseFacts /\ AudioFacts

(* Steps that touch no pipe: admission, leases, cancellation and          *)
(* clean-up.                                                              *)
LEMMA QuietSteps ==
  ASSUME StreamFacts,
         AdmitStream \/ SetupFails \/ ManagerStarted \/ BackendLeased \/ CloneLeased
           \/ ChunkTaken \/ CancelFramed \/ CancelGenerator \/ CancelClone \/ WatcherLeft \/ WaitEnds
           \/ ClientLeaves \/ Disconnected \/ CleanupSnapshot \/ CleanupReleases \/ UNCHANGED ttsVars
  PROVE  StreamFacts'
<1> USE DEF StreamFacts, handlerVars, threadVars, cleanupVars, SetupStages
<1>1. UNCHANGED <<route, cursor, submitted, threadVars, delivered>>
  BY DEF AdmitStream, SetupFails, ManagerStarted, BackendLeased, CloneLeased, ChunkTaken, CancelFramed,
         CancelGenerator, CancelClone, WatcherLeft, WaitEnds, ClientLeaves, Disconnected, CleanupSnapshot,
         CleanupReleases, ttsVars, Unwind
<1>2. cancelFlag => cancelFlag'
  BY DEF AdmitStream, SetupFails, ManagerStarted, BackendLeased, CloneLeased, ChunkTaken, CancelFramed,
         CancelGenerator, CancelClone, WatcherLeft, WaitEnds, ClientLeaves, Disconnected, CleanupSnapshot,
         CleanupReleases, ttsVars, Unwind, TtsTypeOK
<1>3. AudioFacts'
  BY <1>1, <1>2 DEF AudioFacts, AudioAt, TtsTypeOK
<1>4. CASE AdmitStream \/ SetupFails \/ ManagerStarted \/ BackendLeased \/ CloneLeased
  <2>1. TtsTypeOK'
    BY <1>1, <1>4, ZenonT(40) DEF AdmitStream, SetupFails, ManagerStarted, BackendLeased, CloneLeased, TtsTypeOK, Stages, Leases
  <2>2. FlowFacts'
    BY <1>1, <1>4 DEF AdmitStream, SetupFails, ManagerStarted, BackendLeased, CloneLeased, TtsTypeOK, FlowFacts, Last
  <2>3. LeaseFacts'
    BY <1>1, <1>4 DEF AdmitStream, SetupFails, ManagerStarted, BackendLeased, CloneLeased, TtsTypeOK, FlowFacts, LeaseFacts, LeasesNeeded, Leases
  <2>4. QED
    BY <1>3, <2>1, <2>2, <2>3
<1>5. CASE ChunkTaken \/ CancelFramed \/ ClientLeaves \/ UNCHANGED ttsVars \/ WaitEnds
  <2>1. TtsTypeOK'
    <3>1. CASE ChunkTaken \/ CancelFramed
      BY <1>1, <3>1 DEF ChunkTaken, CancelFramed, TtsTypeOK, Stages
    <3>2. CASE ClientLeaves \/ WaitEnds
      BY <1>1, <3>2, ZenonT(40) DEF ClientLeaves, WaitEnds, TtsTypeOK, Stages
    <3>3. CASE UNCHANGED ttsVars
      BY <3>3 DEF ttsVars, TtsTypeOK
    <3>4. QED
      BY <1>5, <3>1, <3>2, <3>3
  <2>2. FlowFacts'
    BY <1>1, <1>5 DEF ChunkTaken, CancelFramed, ClientLeaves, WaitEnds, ttsVars, TtsTypeOK, FlowFacts, Last
  <2>3. LeaseFacts'
    BY <1>1, <1>5 DEF ChunkTaken, CancelFramed, ClientLeaves, WaitEnds, ttsVars, TtsTypeOK, FlowFacts, LeaseFacts, LeasesNeeded, Leases
  <2>4. QED
    BY <1>3, <2>1, <2>2, <2>3
<1>6. CASE CancelGenerator \/ CancelClone \/ WatcherLeft \/ Disconnected
  <2>1. TtsTypeOK'
    BY <1>1, <1>6, ZenonT(40) DEF CancelGenerator, CancelClone, WatcherLeft, Disconnected, Unwind, StartCleanup, TtsTypeOK, Stages, Leases
  <2>2. FlowFacts'
    BY <1>1, <1>6 DEF CancelGenerator, CancelClone, WatcherLeft, Disconnected, Unwind, StartCleanup, TtsTypeOK, FlowFacts, Last
  <2>3. LeaseFacts'
    BY <1>1, <1>6 DEF CancelGenerator, CancelClone, WatcherLeft, Disconnected, Unwind, StartCleanup, TtsTypeOK, FlowFacts, LeaseFacts, LeasesNeeded, Leases
  <2>4. QED
    BY <1>3, <2>1, <2>2, <2>3
<1>7. CASE CleanupSnapshot \/ CleanupReleases
  <2>1. TtsTypeOK'
    BY <1>1, <1>7, ZenonT(40) DEF CleanupSnapshot, CleanupReleases, InThread, TtsTypeOK, Stages, Leases
  <2>2. FlowFacts'
    BY <1>1, <1>7 DEF CleanupSnapshot, CleanupReleases, InThread, TtsTypeOK, FlowFacts, Last
  <2>3. LeaseFacts'
    BY <1>1, <1>7 DEF CleanupSnapshot, CleanupReleases, InThread, TtsTypeOK, FlowFacts, LeaseFacts, LeasesNeeded, Leases
  <2>4. QED
    BY <1>3, <2>1, <2>2, <2>3
<1>8. QED
  BY <1>4, <1>5, <1>6, <1>7

(* The first job is submitted when all leases are held.                   *)
LEMMA StartSteps ==
  ASSUME StreamFacts, StreamStarts
  PROVE  StreamFacts'
<1> USE TtsAssumption DEF StreamFacts, SetupStages
<1>1. TtsTypeOK'
  BY DEF StreamStarts, TtsTypeOK, Stages, Leases, JobPhases
<1>2. FlowFacts'
  BY DEF StreamStarts, TtsTypeOK, FlowFacts, Last
<1>3. LeaseFacts'
  BY DEF StreamStarts, TtsTypeOK, FlowFacts, LeaseFacts, LeasesNeeded
<1>4. AudioFacts'
  <2>1. /\ UNCHANGED <<pipe, emitted, delivered, cursor, cancelFlag>> /\ jobs[1] = "none"
        /\ jobs' = [jobs EXCEPT ![1] = "queued"]
    BY DEF StreamStarts, FlowFacts
  <2>2. ASSUME NEW j \in 1..Sentences PROVE AudioAt(j)'
    <3>1. AudioAt(j)
      BY DEF AudioFacts
    <3>2. CASE j = 1
      BY <2>1, <3>1, <3>2 DEF AudioAt, TtsTypeOK
    <3>3. CASE j # 1
      BY <2>1, <3>1, <3>3 DEF AudioAt, TtsTypeOK
    <3>4. QED
      BY <3>2, <3>3
  <2>3. QED
    BY <2>2 DEF AudioFacts
<1>5. QED
  BY <1>1, <1>2, <1>3, <1>4

(* A chunk at the end of a pipe.                                          *)
LEMMA Put ==
  ASSUME NEW S, NEW q \in Seq(S), NEW x \in S, NEW d, d = Append(q, x)
  PROVE  /\ d \in Seq(S) /\ Len(q) \in Nat /\ Len(d) = Len(q) + 1
         /\ \A n \in 1..Len(q) : d[n] = q[n]
         /\ d[Len(q) + 1] = x
BY AppendProperties, LenProperties

(* A chunk taken from its head.                                           *)
LEMMA Get ==
  ASSUME NEW S, NEW q \in Seq(S), q # <<>>, NEW d, d = Tail(q)
  PROVE  /\ d \in Seq(S) /\ Len(q) \in Nat \ {0} /\ Len(d) = Len(q) - 1 /\ Head(q) = q[1]
         /\ \A n \in 1..(Len(q) - 1) : d[n] = q[n + 1]
BY HeadTailProperties, LenProperties, EmptySeq

(* A job of the executor: it starts, emits a chunk, ends, or sees the     *)
(* cancel flag.                                                           *)
LEMMA JobSteps ==
  ASSUME StreamFacts, NEW i \in 1..Sentences, JobStarts(i) \/ JobRuns(i)
  PROVE  StreamFacts'
<1> USE DEF StreamFacts, handlerVars, cleanupVars
<1>1. /\ UNCHANGED <<route, stage, cursor, submitted, fresh, header, discarding, delivered, cancelFlag, watch,
                     leases, cleanup, drainSet, client>>
      /\ jobs[i] # "none"
  BY DEF JobStarts, JobRuns, JobChecks, JobEmits, JobEnds, JobPosts, JobFinishes
<1>2. \E p \in JobPhases \ {"none"} : /\ jobs' = [jobs EXCEPT ![i] = p]
                                      /\ p = "backend" /\ jobs[i] # "backend" => ~cancelFlag
  <2>1. CASE JobEmits(i)
    <3>1. jobs' = [jobs EXCEPT ![i] = "backend"] /\ jobs[i] = "backend"
      BY <2>1 DEF JobEmits, TtsTypeOK
    <3>2. QED
      BY <3>1 DEF JobPhases
  <2>2. CASE JobStarts(i) \/ JobChecks(i) \/ JobEnds(i) \/ JobPosts(i) \/ JobFinishes(i)
    BY <2>2 DEF JobStarts, JobChecks, JobEnds, JobPosts, JobFinishes, JobPhases
  <2>3. QED
    BY <2>1, <2>2 DEF JobRuns
<1>3. FlowFacts'
  BY <1>1, <1>2 DEF FlowFacts, TtsTypeOK, Last
<1>4. LeaseFacts'
  BY <1>1, <1>2 DEF FlowFacts, LeaseFacts, LeasesNeeded, TtsTypeOK
<1>5. pipe[i] \in Seq({"pcm", "error", "eof"}) /\ Len(pipe[i]) \in Nat
  BY LenProperties DEF TtsTypeOK
<1>20. /\ emitted[i] \in Nat /\ delivered[i] \in Nat /\ jobs[i] \in JobPhases /\ cancelFlag \in BOOLEAN
      /\ cursor \in Nat /\ i \in Nat
  BY TtsAssumption DEF TtsTypeOK
<1>6. CASE JobStarts(i) \/ JobChecks(i) \/ JobFinishes(i)
  <2>1. UNCHANGED <<pipe, emitted>>
    BY <1>6 DEF JobStarts, JobChecks, JobFinishes
  <2>2. TtsTypeOK'
    BY <1>1, <1>2, <2>1 DEF TtsTypeOK
  <2>3. AudioFacts'
    <3> SUFFICES ASSUME NEW j \in 1..Sentences PROVE AudioAt(j)'
      BY DEF AudioFacts
    <3>1. AudioAt(j)
      BY DEF AudioFacts
    <3>2. CASE j # i
      BY <1>1, <1>6, <2>1, <3>1, <3>2 DEF AudioAt, TtsTypeOK, JobStarts, JobChecks, JobFinishes
    <3>3. CASE j = i
      <4>1. \/ jobs[i] = "queued" /\ jobs'[i] = "started"
            \/ jobs[i] = "started" /\ jobs'[i] = "ending" /\ cancelFlag
            \/ jobs[i] = "started" /\ jobs'[i] = "backend" /\ ~cancelFlag
            \/ jobs[i] = "posted" /\ jobs'[i] = "finished"
        BY <1>6 DEF JobStarts, JobChecks, JobFinishes, TtsTypeOK
      <4>2. QED
        BY <1>1, <1>20, <2>1, <3>1, <3>3, <4>1 DEF AudioAt
    <3>4. QED
      BY <3>2, <3>3
  <2>4. QED
    BY <1>3, <1>4, <2>2, <2>3
<1>7. CASE JobEmits(i)
  <2>1. /\ jobs' = jobs /\ jobs[i] = "backend" /\ ~cancelFlag /\ emitted[i] < ChunkBound
        /\ pipe' = [pipe EXCEPT ![i] = Append(pipe[i], "pcm")]
        /\ emitted' = [emitted EXCEPT ![i] = emitted[i] + 1]
    BY <1>7 DEF JobEmits
  <2>2. PICK q : q = Append(pipe[i], "pcm")
    OBVIOUS
  <2>3. /\ q \in Seq({"pcm", "error", "eof"}) /\ Len(q) = Len(pipe[i]) + 1 /\ q[Len(pipe[i]) + 1] = "pcm"
        /\ \A n \in 1..Len(pipe[i]) : q[n] = pipe[i][n]
    BY <1>5, <2>2, Put
  <2>4. pipe' = [pipe EXCEPT ![i] = q]
    BY <2>1, <2>2
  <2>5. TtsTypeOK'
    BY <1>1, <2>1, <2>3, <2>4, TtsAssumption DEF TtsTypeOK
  <2>6. AudioFacts'
    <3> SUFFICES ASSUME NEW j \in 1..Sentences PROVE AudioAt(j)'
      BY DEF AudioFacts
    <3>1. AudioAt(j)
      BY DEF AudioFacts
    <3>2. CASE j # i
      BY <1>1, <1>5, <2>1, <2>3, <2>4, TtsAssumption, <3>1, <3>2 DEF AudioAt, TtsTypeOK
    <3>3. CASE j = i
      <4>1. /\ pipe'[i] = q /\ emitted'[i] = emitted[i] + 1 /\ jobs'[i] = "backend" /\ delivered'[i] = delivered[i]
            /\ cancelFlag' = cancelFlag /\ cursor' = cursor /\ jobs[i] = "backend"
        BY <1>1, <2>1, <2>4 DEF TtsTypeOK
      <4>2. \A n \in 1..Len(q) : n \in 1..Len(pipe[i]) \/ n = Len(pipe[i]) + 1
        BY <1>5, <2>3
      <4>3. QED
        BY <1>5, <1>20, <2>1, <2>3, <3>1, <3>3, <4>1, <4>2 DEF AudioAt
    <3>4. QED
      BY <3>2, <3>3
  <2>7. QED
    BY <1>3, <1>4, <2>5, <2>6
<1>8. ASSUME NEW x \in {"error", "eof"}, pipe' = [pipe EXCEPT ![i] = Append(pipe[i], x)],
             \/ x = "error" /\ jobs[i] = "backend" /\ jobs' = [jobs EXCEPT ![i] = "ending"]
             \/ x = "eof" /\ jobs[i] = "ending" /\ jobs' = [jobs EXCEPT ![i] = "posted"],
             UNCHANGED emitted
      PROVE  StreamFacts'
  <2>1. PICK q : q = Append(pipe[i], x)
    OBVIOUS
  <2>2. /\ q \in Seq({"pcm", "error", "eof"}) /\ Len(q) = Len(pipe[i]) + 1 /\ q[Len(pipe[i]) + 1] = x
        /\ \A n \in 1..Len(pipe[i]) : q[n] = pipe[i][n]
    BY <1>5, <2>1, Put
  <2>3. pipe' = [pipe EXCEPT ![i] = q]
    BY <1>8, <2>1
  <2>4. TtsTypeOK'
    BY <1>1, <1>2, <1>8, <2>2, <2>3 DEF TtsTypeOK
  <2>5. AudioFacts'
    <3> SUFFICES ASSUME NEW j \in 1..Sentences PROVE AudioAt(j)'
      BY DEF AudioFacts
    <3>1. AudioAt(j)
      BY DEF AudioFacts
    <3>2. CASE j # i
      BY <1>1, <1>5, <1>8, <2>2, <2>3, TtsAssumption, <3>1, <3>2 DEF AudioAt, TtsTypeOK
    <3>3. CASE j = i
      <4>1. /\ pipe'[i] = q /\ emitted'[i] = emitted[i] /\ delivered'[i] = delivered[i]
            /\ cancelFlag' = cancelFlag /\ cursor' = cursor
            /\ \/ x = "error" /\ jobs[i] = "backend" /\ jobs'[i] = "ending"
               \/ x = "eof" /\ jobs[i] = "ending" /\ jobs'[i] = "posted"
        BY <1>1, <1>8, <2>3 DEF TtsTypeOK
      <4>2. \A n \in 1..Len(q) : n \in 1..Len(pipe[i]) \/ n = Len(pipe[i]) + 1
        BY <1>5, <2>2
      <4>3. x # "pcm" /\ (x = "eof" => jobs'[i] = "posted")
        BY <4>1
      <4>4. jobs'[i] \in {"ending", "posted"} /\ jobs[i] \in {"backend", "ending"}
        BY <4>1
      <4>5. (jobs[i] = "ending" /\ jobs'[i] = "posted") \/ ~(\E n \in 1..Len(pipe[i]) : pipe[i][n] = "eof") \/ cancelFlag
        BY <3>1, <3>3, <4>1 DEF AudioAt
      <4>6. \A n \in 1..Len(q) : (q[n] = "pcm" <=> n <= emitted[i] - delivered[i])
        BY <1>5, <1>20, <2>2, <3>1, <3>3, <4>2, <4>3, SMTT(30) DEF AudioAt
      <4>7. cancelFlag \/ jobs'[i] = "posted" \/ ~(\E n \in 1..Len(q) : q[n] = "eof")
        BY <2>2, <4>1, <4>2, <4>3, <4>5
      <4>8. QED
        BY <1>5, <1>20, <2>2, <3>1, <3>3, <4>1, <4>4, <4>6, <4>7 DEF AudioAt
    <3>4. QED
      BY <3>2, <3>3
  <2>6. QED
    BY <1>3, <1>4, <2>4, <2>5
<1>9. CASE JobEnds(i) /\ UNCHANGED pipe
  <2>1. UNCHANGED emitted /\ jobs[i] = "backend" /\ jobs' = [jobs EXCEPT ![i] = "ending"]
    BY <1>9 DEF JobEnds
  <2>2. TtsTypeOK'
    BY <1>1, <1>2, <1>9, <2>1 DEF TtsTypeOK
  <2>3. AudioFacts'
    <3> SUFFICES ASSUME NEW j \in 1..Sentences PROVE AudioAt(j)'
      BY DEF AudioFacts
    <3>1. AudioAt(j)
      BY DEF AudioFacts
    <3>2. CASE j # i
      BY <1>1, <1>9, <2>1, <3>1, <3>2 DEF AudioAt, TtsTypeOK
    <3>3. CASE j = i
      BY <1>1, <1>9, <2>1, <3>1, <3>3 DEF AudioAt, TtsTypeOK
    <3>4. QED
      BY <3>2, <3>3
  <2>4. QED
    BY <1>3, <1>4, <2>2, <2>3
<1>10. QED
  <2>1. JobPosts(i) => StreamFacts'
    BY <1>8 DEF JobPosts
  <2>2. JobEnds(i) /\ pipe' # pipe => StreamFacts'
    BY <1>8 DEF JobEnds
  <2>3. QED
    BY <1>6, <1>7, <1>9, <2>1, <2>2 DEF JobRuns

(* A clone stream whose client has gone.                                  *)
LEMMA CloneLeavesSteps ==
  ASSUME StreamFacts, CloneDisconnected
  PROVE  StreamFacts'
<1> USE TtsAssumption DEF StreamFacts, handlerVars, cleanupVars
<1>1. /\ UNCHANGED <<route, stage, cursor, submitted, fresh, header, discarding, delivered, jobs, emitted,
                     leases, cleanup, drainSet, client>>
      /\ cancelFlag' = TRUE /\ watch' = "gone" /\ watch = "waiting" /\ 1 \in 1..Sentences
  BY DEF CloneDisconnected
<1>2. FlowFacts' /\ LeaseFacts'
  BY <1>1 DEF FlowFacts, LeaseFacts, LeasesNeeded, Last
<1>3. CASE UNCHANGED pipe
  <2>1. TtsTypeOK'
    BY <1>1, <1>3 DEF TtsTypeOK
  <2>2. AudioFacts'
    BY <1>1, <1>3 DEF AudioFacts, AudioAt
  <2>3. QED
    BY <1>2, <2>1, <2>2
<1>4. CASE jobs[1] = "queued" /\ pipe' = [pipe EXCEPT ![1] = Append(pipe[1], "eof")]
  <2>1. PICK q : q = Append(pipe[1], "eof")
    OBVIOUS
  <2>2. pipe[1] \in Seq({"pcm", "error", "eof"}) /\ Len(pipe[1]) \in Nat
    BY <1>1, LenProperties DEF TtsTypeOK
  <2>3. /\ q \in Seq({"pcm", "error", "eof"}) /\ Len(q) = Len(pipe[1]) + 1 /\ q[Len(pipe[1]) + 1] = "eof"
        /\ \A n \in 1..Len(pipe[1]) : q[n] = pipe[1][n]
    BY <2>1, <2>2, Put
  <2>4. pipe' = [pipe EXCEPT ![1] = q]
    BY <1>4, <2>1
  <2>5. TtsTypeOK'
    BY <1>1, <2>3, <2>4 DEF TtsTypeOK
  <2>6. AudioFacts'
    <3> SUFFICES ASSUME NEW j \in 1..Sentences PROVE AudioAt(j)'
      BY DEF AudioFacts
    <3>1. AudioAt(j)
      BY DEF AudioFacts
    <3>2. CASE j # 1
      BY <1>1, <1>4, <2>2, <2>3, <2>4, <3>1, <3>2 DEF AudioAt, TtsTypeOK
    <3>3. CASE j = 1
      BY <1>1, <1>4, <2>2, <2>3, <2>4, <3>1, <3>3 DEF AudioAt, TtsTypeOK
    <3>4. QED
      BY <3>2, <3>3
  <2>7. QED
    BY <1>2, <2>5, <2>6
<1>5. QED
  BY <1>3, <1>4 DEF CloneDisconnected

(* The reader takes a chunk or the end marker, and goes on to the next    *)
(* sentence.                                                              *)
LEMMA ReadSteps ==
  ASSUME StreamFacts, ReadPcm \/ ReadEof \/ LegacyReadEof \/ ReadEnd
  PROVE  StreamFacts'
<1> USE TtsAssumption DEF StreamFacts
<1>1. /\ stage = "drain" /\ pipe[cursor] # <<>> /\ cursor <= Last /\ cursor < submitted /\ submitted # 1
      /\ Last \in 1..Sentences /\ cursor \in 1..Sentences /\ submitted \in 1..Sentences + 1
      /\ pipe[cursor] \in Seq({"pcm", "error", "eof"})
      /\ pipe' = [pipe EXCEPT ![cursor] = Tail(pipe[cursor])]
  <2>1. /\ stage = "drain" /\ pipe[cursor] # <<>>
        /\ pipe' = [pipe EXCEPT ![cursor] = Tail(pipe[cursor])]
    BY DEF ReadPcm, ReadEof, LegacyReadEof, ReadEnd, Consume
  <2>2. Last \in 1..Sentences
    BY DEF Last
  <2>3. cursor <= Last /\ cursor < submitted /\ submitted # 1
    BY <2>1 DEF FlowFacts, TtsTypeOK
  <2>4. cursor \in 1..Sentences /\ submitted \in 1..Sentences + 1
    BY <2>2, <2>3 DEF TtsTypeOK
  <2>5. QED
    BY <2>1, <2>2, <2>3, <2>4 DEF TtsTypeOK
<1>2. PICK q : q = Tail(pipe[cursor])
  OBVIOUS
<1>3. /\ q \in Seq({"pcm", "error", "eof"}) /\ Len(pipe[cursor]) \in Nat \ {0} /\ Len(q) = Len(pipe[cursor]) - 1
      /\ Head(pipe[cursor]) = pipe[cursor][1]
      /\ \A n \in 1..(Len(pipe[cursor]) - 1) : q[n] = pipe[cursor][n + 1]
  BY <1>1, <1>2, Get
<1>4. pipe' = [pipe EXCEPT ![cursor] = q]
  BY <1>1, <1>2
<1>20. /\ emitted[cursor] \in Nat /\ delivered[cursor] \in Nat /\ jobs[cursor] \in JobPhases /\ cancelFlag \in BOOLEAN
      /\ AudioAt(cursor)
  BY <1>1 DEF TtsTypeOK, AudioFacts
<1>21. (\E n \in 1..Len(q) : q[n] = "eof") => \E n \in 1..Len(pipe[cursor]) : pipe[cursor][n] = "eof"
  BY <1>3
<1>5. CASE ReadPcm
  <2>1. /\ Head(pipe[cursor]) = "pcm" /\ SubmitIf(fresh /\ PrefetchDue) /\ fresh' = FALSE /\ stage' = "yielded"
        /\ delivered' = [delivered EXCEPT ![cursor] = @ + 1]
        /\ UNCHANGED <<route, emitted, cursor, header, discarding, cancelFlag, watch, leases, cleanup, drainSet, client>>
    BY <1>5 DEF ReadPcm, cleanupVars
  <2>2. delivered[cursor] < emitted[cursor]
    BY <1>1, <1>3, <2>1, SMTT(30) DEF AudioFacts, AudioAt, TtsTypeOK
  <2>3. \/ UNCHANGED <<jobs, submitted>>
        \/ /\ submitted <= Sentences /\ route = "managed"
           /\ submitted' = submitted + 1 /\ jobs' = [jobs EXCEPT ![submitted] = "queued"]
    BY <2>1, <1>1 DEF SubmitIf, PrefetchDue
  <2>9. /\ submitted' \in 1..Sentences + 1 /\ submitted' \in {submitted, submitted + 1}
        /\ jobs' \in [1..Sentences -> JobPhases]
        /\ \A i \in 1..Sentences :
              /\ jobs'[i] = "none" <=> i >= submitted'
              /\ jobs'[i] = jobs[i] \/ (jobs[i] = "none" /\ jobs'[i] = "queued")
    <3>1. CASE UNCHANGED <<jobs, submitted>>
      BY <1>1, <3>1 DEF FlowFacts, TtsTypeOK
    <3>2. CASE submitted <= Sentences /\ submitted' = submitted + 1 /\ jobs' = [jobs EXCEPT ![submitted] = "queued"]
      BY <1>1, <3>2 DEF FlowFacts, TtsTypeOK, JobPhases
    <3>3. QED
      BY <3>1, <3>2, <2>3
  <2>4. TtsTypeOK'
    <3>1. pipe' \in [1..Sentences -> Seq({"pcm", "error", "eof"})]
      BY <1>1, <1>3, <1>4 DEF TtsTypeOK
    <3>2. delivered' \in [1..Sentences -> 0..ChunkBound]
      BY <1>1, <1>20, <2>1, <2>2 DEF TtsTypeOK
    <3>3. stage' \in Stages /\ fresh' \in BOOLEAN
      BY <2>1 DEF Stages
    <3>4. QED
      BY <2>1, <2>9, <3>1, <3>2, <3>3 DEF TtsTypeOK
  <2>51. FlowFacts'
    BY <1>1, <2>1, <2>3, <2>9 DEF FlowFacts, TtsTypeOK, SetupStages, Last
  <2>52. LeaseFacts'
    BY <1>1, <2>1, <2>9 DEF FlowFacts, LeaseFacts, LeasesNeeded, TtsTypeOK, SetupStages
  <2>5. FlowFacts' /\ LeaseFacts'
    BY <2>51, <2>52
  <2>6. AudioFacts'
    <3> SUFFICES ASSUME NEW j \in 1..Sentences PROVE AudioAt(j)'
      BY DEF AudioFacts
    <3>1. AudioAt(j)
      BY DEF AudioFacts
    <3>2. CASE j # cursor
      <4>1. /\ pipe'[j] = pipe[j] /\ delivered'[j] = delivered[j]
            /\ jobs'[j] = jobs[j] \/ (jobs[j] = "none" /\ jobs'[j] = "queued")
        BY <1>1, <1>4, <2>1, <2>9, <3>2 DEF TtsTypeOK
      <4>2. QED
        BY <2>1, <3>1, <4>1 DEF AudioAt
    <3>3. CASE j = cursor
      <4>1. pipe'[j] = q /\ delivered'[j] = delivered[cursor] + 1 /\ jobs'[j] = jobs[cursor]
        BY <1>1, <1>4, <2>1, <2>9, <3>3 DEF TtsTypeOK, FlowFacts
      <4>2. QED
        BY <1>1, <1>3, <1>20, <1>21, <2>1, <2>2, <3>3, <4>1 DEF AudioAt
    <3>4. QED
      BY <3>2, <3>3
  <2>7. QED
    BY <2>4, <2>5, <2>6
<1>6. CASE ReadEof \/ LegacyReadEof
  <2>1. /\ Head(pipe[cursor]) = "eof" /\ cursor < Last /\ ~cancelFlag /\ cursor' = cursor + 1 /\ fresh' = TRUE
        /\ UNCHANGED <<route, stage, emitted, header, discarding, delivered, cancelFlag, watch, leases, cleanup, drainSet, client>>
    BY <1>6 DEF ReadEof, LegacyReadEof, cleanupVars
  <2>2. /\ \/ UNCHANGED <<jobs, submitted>> /\ cursor + 1 < submitted /\ route # "legacy"
           \/ /\ submitted <= Sentences
              /\ submitted' = submitted + 1 /\ jobs' = [jobs EXCEPT ![submitted] = "queued"]
    BY <1>1, <1>6, <2>1 DEF ReadEof, LegacyReadEof, SubmitIf, PrefetchDue, PrefetchWindowAllows, FlowFacts
  <2>9. /\ submitted' \in 1..Sentences + 1 /\ submitted' \in {submitted, submitted + 1}
        /\ jobs' \in [1..Sentences -> JobPhases]
        /\ \A i \in 1..Sentences :
              /\ jobs'[i] = "none" <=> i >= submitted'
              /\ jobs'[i] = jobs[i] \/ (jobs[i] = "none" /\ jobs'[i] = "queued")
    <3>1. CASE UNCHANGED <<jobs, submitted>>
      BY <1>1, <3>1 DEF FlowFacts, TtsTypeOK
    <3>2. CASE submitted <= Sentences /\ submitted' = submitted + 1 /\ jobs' = [jobs EXCEPT ![submitted] = "queued"]
      BY <1>1, <3>2 DEF FlowFacts, TtsTypeOK, JobPhases
    <3>3. QED
      BY <3>1, <3>2, <2>2
  <2>3. TtsTypeOK'
    <3>1. pipe' \in [1..Sentences -> Seq({"pcm", "error", "eof"})]
      BY <1>1, <1>3, <1>4 DEF TtsTypeOK
    <3>2. cursor' \in 1..Sentences + 1 /\ fresh' \in BOOLEAN
      BY <1>1, <2>1
    <3>3. QED
      BY <2>1, <2>9, <3>1, <3>2 DEF TtsTypeOK
  <2>41. FlowFacts'
    BY <1>1, <2>1, <2>2, <2>9, SMTT(30) DEF FlowFacts, TtsTypeOK, SetupStages, Last
  <2>42. LeaseFacts'
    BY <1>1, <2>1, <2>9 DEF FlowFacts, LeaseFacts, LeasesNeeded, TtsTypeOK, SetupStages
  <2>4. FlowFacts' /\ LeaseFacts'
    BY <2>41, <2>42
  <2>5. delivered[cursor] = emitted[cursor] /\ jobs[cursor] \in {"posted", "finished"}
    BY <1>1, <1>3, <1>20, <2>1, SMTT(30) DEF AudioAt
  <2>6. AudioFacts'
    <3> SUFFICES ASSUME NEW j \in 1..Sentences PROVE AudioAt(j)'
      BY DEF AudioFacts
    <3>1. AudioAt(j)
      BY DEF AudioFacts
    <3>2. CASE j # cursor
      <4>1. /\ pipe'[j] = pipe[j]
            /\ jobs'[j] = jobs[j] \/ (jobs[j] = "none" /\ jobs'[j] = "queued")
        BY <1>1, <1>4, <2>1, <2>9, <3>2 DEF TtsTypeOK
      <4>2. QED
        BY <1>1, <2>1, <3>1, <3>2, <4>1 DEF AudioAt
    <3>3. CASE j = cursor
      <4>1. pipe'[j] = q /\ jobs'[j] = jobs[cursor]
        BY <1>1, <1>4, <2>1, <2>9, <3>3 DEF TtsTypeOK, FlowFacts
      <4>2. QED
        BY <1>1, <1>3, <1>20, <1>21, <2>1, <2>5, <3>3, <4>1 DEF AudioAt
    <3>4. QED
      BY <3>2, <3>3
  <2>7. QED
    BY <2>3, <2>4, <2>6
<1>7. CASE ReadEnd
  <2>1. /\ stage' = "unwinding" /\ cancelFlag' = TRUE /\ cleanup' \in {cleanup, "created"}
        /\ cleanup' = "created" => cleanup \in {"none", "created"}
        /\ UNCHANGED <<route, jobs, emitted, submitted, fresh, header, discarding, delivered, watch,
                 leases, drainSet, client>>
    BY <1>7 DEF ReadEnd, Unwind, StartCleanup, cleanupVars
  <2>2. /\ Head(pipe[cursor]) # "pcm"
        /\ \/ cursor' = cursor
           \/ Head(pipe[cursor]) = "eof" /\ ~cancelFlag /\ cursor' = cursor + 1
    BY <1>7 DEF ReadEnd
  <2>3. TtsTypeOK'
    BY <1>1, <1>3, <1>4, <2>1, <2>2, SMTT(30) DEF TtsTypeOK, Stages
  <2>4. FlowFacts' /\ LeaseFacts'
    BY <1>1, <2>1, <2>2 DEF FlowFacts, LeaseFacts, LeasesNeeded, TtsTypeOK, SetupStages, Last
  <2>5. /\ delivered[cursor] = emitted[cursor]
        /\ cursor' = cursor + 1 => jobs[cursor] \in {"posted", "finished"}
    BY <1>1, <1>3, <2>2, SMTT(30) DEF AudioFacts, AudioAt, TtsTypeOK
  <2>6. AudioFacts'
    <3> SUFFICES ASSUME NEW j \in 1..Sentences PROVE AudioAt(j)'
      BY DEF AudioFacts
    <3>1. AudioAt(j)
      BY DEF AudioFacts
    <3>2. CASE j # cursor
      BY <1>1, <1>3, <1>4, <2>1, <2>2, <2>5, <3>1, <3>2, SMTT(30) DEF AudioAt, TtsTypeOK, FlowFacts
    <3>3. CASE j = cursor
      BY <1>1, <1>3, <1>4, <2>1, <2>2, <2>5, <3>1, <3>3, SMTT(30) DEF AudioAt, TtsTypeOK, FlowFacts
    <3>4. QED
      BY <3>2, <3>3
  <2>7. QED
    BY <2>3, <2>4, <2>6
<1>8. QED
  BY <1>5, <1>6, <1>7

(* TTS streaming (main.py, /tts/stream and its clone): for any number of  *)
(* sentences and chunks, audio reaches the client in order and whole, and *)
(* no lease is released while a job is inside the backend, whenever and   *)
(* wherever the client leaves.                                            *)
THEOREM StreamSound == TtsSpec => []StreamIsSound
<1>1. TtsInit => StreamFacts
  <2> SUFFICES ASSUME TtsInit PROVE StreamFacts
    OBVIOUS
  <2>1. TtsTypeOK
    <3>1. /\ jobs \in [1..Sentences -> JobPhases] /\ stage \in Stages
          /\ emitted \in [1..Sentences -> 0..ChunkBound] /\ delivered \in [1..Sentences -> 0..ChunkBound]
      BY TtsAssumption DEF TtsInit, Stages, JobPhases
    <3>2. pipe \in [1..Sentences -> Seq({"pcm", "error", "eof"})]
      BY DEF TtsInit
    <3>3. cursor \in 1..Sentences + 1 /\ submitted \in 1..Sentences + 1
      BY TtsAssumption DEF TtsInit
    <3>4. QED
      BY <3>1, <3>2, <3>3 DEF TtsInit, TtsTypeOK
  <2>2. FlowFacts /\ LeaseFacts
    BY TtsAssumption DEF TtsInit, FlowFacts, LeaseFacts, SetupStages
  <2>3. AudioFacts
    <3>1. Len(<<>>) = 0
      OBVIOUS
    <3>2. QED
      BY <3>1 DEF TtsInit, AudioFacts, AudioAt
  <2>4. QED
    BY <2>1, <2>2, <2>3 DEF StreamFacts
<1>2. StreamFacts /\ [TtsNext]_ttsVars => StreamFacts'
  BY QuietSteps, StartSteps, JobSteps, CloneLeavesSteps, ReadSteps
     DEF TtsNext, Setup, GeneratorRuns, CleanupRuns
<1>3. StreamFacts => StreamIsSound
  <2> SUFFICES ASSUME StreamFacts PROVE StreamIsSound
    OBVIOUS
  <2>1. JobsRunUnderLease
    BY DEF StreamFacts, FlowFacts, LeaseFacts, LeasesNeeded, JobsRunUnderLease, TtsTypeOK
  <2>2. NoLeaseWithoutOwner /\ DrainedSentenceIsSubmitted /\ AudioInOrder
    BY TtsAssumption DEF StreamFacts, FlowFacts, LeaseFacts, AudioFacts, AudioAt, NoLeaseWithoutOwner, DrainedSentenceIsSubmitted,
       AudioInOrder, TtsTypeOK, Last
  <2>3. QED
    BY <2>1, <2>2 DEF StreamFacts, StreamIsSound
<1>4. QED
  BY <1>1, <1>2, <1>3, PTL DEF TtsSpec

-----------------------------------------------------------------------------
(* The segmenter.                                                           *)

(* What a quotient is.                                                    *)
LEMMA Quotient ==
  ASSUME NEW a \in Nat, NEW b \in Nat \ {0}
  PROVE  /\ a \div b \in Nat
         /\ (a \div b) * b <= a /\ a < (a \div b) * b + b
<1>1. a \div b \in Int /\ a % b \in 0 .. (b - 1) /\ a = b * (a \div b) + (a % b)
  OBVIOUS
<1> DEFINE q == a \div b
<1>3. q \in Int /\ b * q <= a /\ a < b * q + b
  BY <1>1
<1>4. q >= 0
  <2> HIDE DEF q
  <2>1. q <= -1 => b * q <= -b
    BY <1>3
  <2> QED
    BY <1>3, <2>1
<1>5. b * q = q * b
  <2> HIDE DEF q
  <2> QED
  BY <1>3
<1> QED
  BY <1>3, <1>4, <1>5

(* How many slices FixedSegmentBounds makes: the last is the first that   *)
(* reaches the end.                                                       *)
LEMMA CountOfSlices ==
  ASSUME NEW max \in Nat, NEW step \in Nat \ {0}, NEW length \in Nat, length > max
  PROVE  LET count == 1 + ((length - max) + step - 1) \div step IN
         /\ count \in Nat /\ count >= 2
         /\ (count - 2) * step + max < length
         /\ length <= (count - 1) * step + max
<1> DEFINE a == (length - max) + step - 1
           q == a \div step
<1>1. a \in Nat /\ a >= step
  OBVIOUS
<1>2. q \in Nat /\ q * step <= a /\ a < q * step + step
  BY <1>1, Quotient
<1>3. (q - 1) * step = q * step - step
  <2> HIDE DEF q
  <2> QED
    BY <1>2
<1>4. q >= 1
  <2> HIDE DEF q, a
  <2>1. q = 0 => q * step = 0
    OBVIOUS
  <2> QED
  BY <1>1, <1>2, <2>1
<1>5. /\ q * step - step + max < length
      /\ length <= q * step + max
  <2> DEFINE p == q * step
  <2>1. p \in Int /\ p <= length - max + step - 1 /\ length - max + step - 1 < p + step
    <3> HIDE DEF q
    <3> QED
    BY <1>2
  <2> HIDE DEF p, q
  <2>2. p - step + max < length /\ length <= p + max
    BY <2>1
  <2> QED
    BY <2>2 DEF p
<1> HIDE DEF q
<1>6. /\ 1 + q \in Nat /\ 1 + q >= 2
      /\ ((1 + q) - 2) * step + max < length
      /\ length <= ((1 + q) - 1) * step + max
  <2>1. (1 + q) - 2 = q - 1 /\ (1 + q) - 1 = q
    BY <1>2
  <2> QED
  BY <1>2, <1>3, <1>4, <1>5, <2>1
<1> QED
  BY <1>6 DEF q, a

(* SlicesFit, of any list and any end.                                    *)
Fit(list, end) ==
  /\ list \in Seq(Nat \X Nat)
  /\ \A i \in 1 .. Len(list) : /\ list[i][1] < list[i][2] /\ list[i][2] <= end
                               /\ list[i][2] - list[i][1] <= Ceiling
  /\ \A i \in 1 .. (Len(list) - 1) : list[i][1] < list[i + 1][1] /\ list[i][2] <= list[i + 1][2]

(* A tick is in a slice.                                                  *)
Within(t, list) == \E k \in 1 .. Len(list) : list[k][1] <= t /\ t < list[k][2]

(* How much folding a tail may leave out when consecutive slices share n  *)
(* ticks.                                                                 *)
AtMost(n) == Higher(MinTail, n + 1) - n - 1

(* What a list decodes of the ticks from the first to the one before to:  *)
(* all of them but one gap, which is the little that AtMost says, ends a  *)
(* tail before the end, and unless it is at the beginning is what is left *)
(* when the overlap is taken off twice.                                   *)
Covers(list, from, to) ==
  \E x, y \in Nat :
    /\ from <= x /\ x <= y /\ y - x <= AtMost(Lap)
    /\ x = y \/ y + MinTail <= to
    /\ x = from \/ y - x <= AtMost(2 * Lap)
    /\ \A t \in from .. (to - 1) : (x <= t /\ t < y) \/ Within(t, list)

(* The overlap is at most half a slice, so that slices go forward.        *)
LEMMA LapFacts ==
  ASSUME overlap \in Nat
  PROVE  /\ Lap \in Nat /\ 2 * Lap <= Ceiling /\ Lap <= overlap
         /\ Ceiling - Lap \in Nat \ {0}
         /\ Ceiling \in Nat /\ MinTail \in Nat /\ Pad \in Nat /\ MinSpeech \in Nat
         /\ 2 * Pad < MinTail /\ MinTail < Ceiling
<1>1. Ceiling \div 2 \in Nat /\ 2 * (Ceiling \div 2) <= Ceiling
  BY SegmentAssumption
<1> QED
  BY <1>1, SegmentAssumption DEF Lap, Lower

(* Slices as the loop of FixedSegmentBounds makes them.                   *)
Sliced(raw, n, length) ==
  /\ raw \in Seq(Nat \X Nat) /\ Len(raw) = n
  /\ \A k \in 1 .. n : raw[k] \in Nat \X Nat
  /\ raw[1][1] = 0
  /\ \A k \in 1 .. (n - 1) : /\ raw[k][2] = raw[k][1] + Ceiling /\ raw[k][2] < length
                              /\ raw[k + 1][1] = raw[k][1] + (Ceiling - Lap)
  /\ raw[n][2] = length /\ length <= raw[n][1] + Ceiling

(* It does.                                                               *)
LEMMA RawSlices ==
  ASSUME overlap \in Nat, NEW length \in Nat, length > Ceiling, NEW count \in Nat, count >= 2,
         (count - 2) * (Ceiling - Lap) + Ceiling < length,
         length <= (count - 1) * (Ceiling - Lap) + Ceiling
  PROVE  LET step == Ceiling - Lap
             raw == [k \in 1 .. count |-> <<(k - 1) * step, Lower(length, (k - 1) * step + Ceiling)>>]
         IN Sliced(raw, count, length)
<1> DEFINE step == Ceiling - Lap
           raw == [k \in 1 .. count |-> <<(k - 1) * step, Lower(length, (k - 1) * step + Ceiling)>>]
<1>1. step \in Nat \ {0} /\ Ceiling \in Nat
  BY LapFacts
<1>2. \A k \in 1 .. count : (k - 1) * step \in Nat
  <2> HIDE DEF step
  <2> QED
    BY <1>1
<1>3. \A k \in 1 .. (count - 1) : (k - 1) * step + Ceiling < length /\ k * step = (k - 1) * step + step
  <2> TAKE k \in 1 .. (count - 1)
  <2>1. (k - 1) * step <= (count - 2) * step
    <3> DEFINE d == count - 1 - k
    <3>1. d \in Nat /\ (count - 2) = (k - 1) + d
      OBVIOUS
    <3> HIDE DEF d, step
    <3>2. (count - 2) * step = (k - 1) * step + d * step /\ d * step >= 0
      BY <1>1, <3>1
    <3> QED
      BY <1>1, <3>1, <3>2
  <2>2. k * step = (k - 1) * step + step
    <3> HIDE DEF step
    <3> QED
      BY <1>1
  <2>3. (count - 2) * step \in Nat /\ (k - 1) * step \in Nat /\ (count - 2) * step + Ceiling < length
    <3> HIDE DEF step
    <3> QED
      BY <1>1, <1>2 DEF step
  <2> HIDE DEF step
  <2> QED
    BY <1>1, <2>1, <2>2, <2>3
<1>4. Lower(length, (count - 1) * step + Ceiling) = length
  <2>1. (count - 1) * step \in Nat /\ length <= (count - 1) * step + Ceiling
    <3> HIDE DEF step
    <3> QED
      BY <1>1, <1>2 DEF step
  <2> HIDE DEF step
  <2> QED
    BY <1>1, <2>1 DEF Lower
<1>5. \A k \in 1 .. count : raw[k] = <<(k - 1) * step, Lower(length, (k - 1) * step + Ceiling)>>
  OBVIOUS
<1>6. \A k \in 1 .. (count - 1) : raw[k + 1] = <<k * step, Lower(length, k * step + Ceiling)>>
  <2> TAKE k \in 1 .. (count - 1)
  <2>1. k + 1 \in 1 .. count /\ (k + 1) - 1 = k
    OBVIOUS
  <2> HIDE DEF raw
  <2> QED
    BY <1>5, <2>1
<1>7. raw \in Seq(Nat \X Nat) /\ Len(raw) = count
  <2>1. \A k \in 1 .. count : Lower(length, (k - 1) * step + Ceiling) \in Nat
    <3> HIDE DEF step
    <3> QED
      BY <1>1, <1>2 DEF Lower
  <2> QED
    BY <1>2, <2>1
<1> HIDE DEF raw, step
<1>8. \A k \in 1 .. (count - 1) : Lower(length, (k - 1) * step + Ceiling) = (k - 1) * step + Ceiling
  BY <1>1, <1>2, <1>3 DEF Lower
<1>9. \A k \in 1 .. count : (k - 1) * step \in Nat /\ raw[k][1] = (k - 1) * step /\ raw[k] \in Nat \X Nat
  <2> TAKE k \in 1 .. count
  <2>1. raw[k] \in Nat \X Nat
    BY <1>7, ElementOfSeq
  <2> QED
    BY <1>2, <1>5, <2>1
<1>10. \A k \in 1 .. (count - 1) : /\ raw[k][2] = raw[k][1] + Ceiling
                                  /\ raw[k][2] < length
                                  /\ raw[k + 1][1] = raw[k][1] + step
  <2> TAKE k \in 1 .. (count - 1)
  <2>1. k \in 1 .. count /\ raw[k][1] = (k - 1) * step
    BY <1>9
  <2>2. raw[k][2] = (k - 1) * step + Ceiling
    BY <1>5, <1>8, <2>1
  <2>3. raw[k + 1][1] = k * step
    BY <1>6
  <2> QED
    BY <1>3, <2>1, <2>2, <2>3
<1>11. raw[count][2] = length /\ length <= raw[count][1] + Ceiling
  <2>1. count \in 1 .. count /\ raw[count] = <<(count - 1) * step, length>>
    BY <1>4, <1>5
  <2> QED
    BY <2>1 DEF step
<1>12. raw[1][1] = 0
  <2>1. 1 \in 1 .. count /\ raw[1][1] = (1 - 1) * step
    BY <1>9
  <2>2. (1 - 1) * step = 0
    BY <1>1
  <2> QED
    BY <2>1, <2>2
<1> QED
  BY <1>7, <1>9, <1>10, <1>11, <1>12 DEF raw, step, Sliced

(* A set of naturals that is not empty has a least element, from the      *)
(* order of the naturals being well-founded.                              *)
LEMMA LeastNumber ==
  ASSUME NEW T \in SUBSET Nat, T # {}
  PROVE  \E m \in T : \A k \in T : m <= k
<1> DEFINE R == OpToRel(<, Nat)
<1>1. IsWellFoundedOn(R, Nat)
  BY NatLessThanWellFounded
<1>2. \E x \in T : \A y \in T : ~(<<y, x>> \in R)
  <2> HIDE DEF R
  <2> QED
    BY <1>1, WFMin
<1>3. PICK x \in T : \A y \in T : ~(<<y, x>> \in R)
  BY <1>2
<1>4. \A y \in T : ~(y < x)
  BY <1>3 DEF OpToRel
<1> QED
  BY <1>4

(* They go forward, and the last reaches beyond what it shares with the   *)
(* one before.                                                            *)
LEMMA SlicedFacts ==
  ASSUME overlap \in Nat, NEW raw, NEW n \in Nat, n >= 2, NEW length \in Nat, Sliced(raw, n, length)
  PROVE  /\ \A k \in 1 .. n : /\ raw[k][1] \in Nat /\ raw[k][2] \in Nat /\ raw[k] = <<raw[k][1], raw[k][2]>>
                              /\ raw[k][1] < raw[k][2] /\ raw[k][2] <= length
                              /\ raw[k][2] - raw[k][1] <= Ceiling
         /\ \A k \in 1 .. (n - 1) : raw[k][1] < raw[k + 1][1] /\ raw[k][2] < raw[k + 1][2]
         /\ length - raw[n][1] > Lap
<1>1. /\ Lap \in Nat /\ 2 * Lap <= Ceiling /\ Ceiling \in Nat /\ Ceiling - Lap > 0 /\ Ceiling > 0
  BY LapFacts
<1>2. \A k \in 1 .. n : raw[k][1] \in Nat /\ raw[k][2] \in Nat /\ raw[k] = <<raw[k][1], raw[k][2]>>
  BY DEF Sliced
<1>3. \A k \in 1 .. (n - 1) : k \in 1 .. n /\ k + 1 \in 1 .. n
  OBVIOUS
<1>4. \A k \in 1 .. (n - 1) : /\ raw[k][2] = raw[k][1] + Ceiling /\ raw[k][2] < length
                              /\ raw[k + 1][1] = raw[k][1] + (Ceiling - Lap)
  BY DEF Sliced
<1>5. raw[n][2] = length /\ length <= raw[n][1] + Ceiling
  BY DEF Sliced
<1>6. length - raw[n][1] > Lap
  <2>1. n - 1 \in 1 .. (n - 1) /\ (n - 1) + 1 = n
    OBVIOUS
  <2>2. raw[n - 1][2] = raw[n - 1][1] + Ceiling /\ raw[n - 1][2] < length
        /\ raw[n][1] = raw[n - 1][1] + (Ceiling - Lap)
    BY <1>4, <2>1
  <2> QED
    BY <1>1, <1>2, <1>3, <2>1, <2>2
<1>7. \A k \in 1 .. n : /\ raw[k][1] < raw[k][2] /\ raw[k][2] <= length
                        /\ raw[k][2] - raw[k][1] <= Ceiling
  <2> TAKE k \in 1 .. n
  <2>1. CASE k = n
    BY <1>1, <1>2, <1>5, <1>6, <2>1
  <2>2. CASE k # n
    <3>1. k \in 1 .. (n - 1)
      BY <2>2
    <3> QED
      BY <1>1, <1>2, <1>4, <3>1
  <2> QED
    BY <2>1, <2>2
<1>8. \A k \in 1 .. (n - 1) : raw[k][1] < raw[k + 1][1] /\ raw[k][2] < raw[k + 1][2]
  <2> TAKE k \in 1 .. (n - 1)
  <2>1. CASE k = n - 1
    <3>1. k + 1 = n
      BY <2>1
    <3> QED
      BY <1>1, <1>2, <1>3, <1>4, <1>5, <3>1
  <2>2. CASE k # n - 1
    <3>1. k + 1 \in 1 .. (n - 1)
      BY <2>2
    <3> QED
      BY <1>1, <1>2, <1>3, <1>4, <3>1
  <2> QED
    BY <2>1, <2>2
<1> QED
  BY <1>2, <1>6, <1>7, <1>8

(* Every tick is in the first slice that ends behind it.                  *)
LEMMA FirstSlice ==
  ASSUME overlap \in Nat, NEW raw, NEW n \in Nat, n >= 2, NEW length \in Nat, Sliced(raw, n, length),
         NEW t \in 0 .. (length - 1)
  PROVE  \E k \in 1 .. n : /\ raw[k][1] <= t /\ t < raw[k][2]
                           /\ \A i \in 1 .. n : i < k => raw[i][2] <= t
<1> DEFINE T == {k \in 1 .. n : t < raw[k][2]}
<1>1. /\ Lap \in Nat /\ Ceiling \in Nat
  BY LapFacts
<1>2. \A k \in 1 .. n : raw[k][1] \in Nat /\ raw[k][2] \in Nat
  BY SlicedFacts
<1>3. T \in SUBSET Nat /\ n \in T
  BY DEF Sliced
<1>4. PICK k \in T : \A i \in T : k <= i
  <2> HIDE DEF T
  <2> QED
    BY <1>3, LeastNumber
<1>5. k \in 1 .. n /\ t < raw[k][2] /\ \A i \in 1 .. n : i < k => raw[i][2] <= t
  <2>1. \A i \in 1 .. n : i < k => ~(t < raw[i][2])
    BY <1>4
  <2> QED
    BY <1>2, <1>4, <2>1
<1>6. raw[k][1] <= t
  <2>1. CASE k = 1
    BY <2>1 DEF Sliced
  <2>2. CASE k # 1
    <3>1. k - 1 \in 1 .. (n - 1) /\ (k - 1) + 1 = k /\ k - 1 \in 1 .. n /\ k - 1 < k
      BY <1>5, <2>2
    <3>2. raw[k - 1][2] = raw[k - 1][1] + Ceiling /\ raw[k][1] = raw[k - 1][1] + (Ceiling - Lap)
      BY <3>1 DEF Sliced
    <3> QED
      BY <1>1, <1>2, <1>5, <3>1, <3>2
  <2> QED
    BY <2>1, <2>2
<1> QED
  BY <1>5, <1>6

(* What fixed-length slicing gives: slices that fit, the first of full    *)
(* length, the last not shorter than MinTail, and the clip covered.       *)
SlicesOf(b, length) ==
  /\ Fit(b, length) /\ Len(b) >= 1
  /\ b[1][2] >= Ceiling
  /\ b[Len(b)][2] = length /\ b[Len(b)][1] + MinTail <= length
  /\ Covers(b, 0, length)

(* A last slice that is long enough stays as it is ...                    *)
LEMMA TailKept ==
  ASSUME overlap \in Nat, NEW raw, NEW n \in Nat, n >= 2, NEW length \in Nat, Sliced(raw, n, length),
         ~(length - raw[n][1] < MinTail)
  PROVE  SlicesOf(raw, length)
<1>1. /\ Lap \in Nat /\ Ceiling \in Nat /\ MinTail \in Nat
  BY LapFacts
<1>2. Len(raw) = n /\ raw \in Seq(Nat \X Nat) /\ raw[n][2] = length
  BY DEF Sliced
<1>3. Fit(raw, length)
  <2>1. \A k \in 1 .. n : raw[k][1] < raw[k][2] /\ raw[k][2] <= length /\ raw[k][2] - raw[k][1] <= Ceiling
    BY SlicedFacts
  <2>2. \A k \in 1 .. (n - 1) : raw[k][1] < raw[k + 1][1] /\ raw[k][2] <= raw[k + 1][2]
    <3> TAKE k \in 1 .. (n - 1)
    <3>1. raw[k][1] < raw[k + 1][1] /\ raw[k][2] < raw[k + 1][2] /\ k \in 1 .. n /\ k + 1 \in 1 .. n
      BY SlicedFacts
    <3>2. raw[k][2] \in Nat /\ raw[k + 1][2] \in Nat
      BY <3>1, SlicedFacts
    <3> QED
      BY <3>1, <3>2
  <2> QED
    BY <1>2, <2>1, <2>2 DEF Fit
<1>4. raw[1][2] >= Ceiling
  <2>1. 1 \in 1 .. (n - 1)
    OBVIOUS
  <2>2. raw[1][1] = 0 /\ raw[1][2] = raw[1][1] + Ceiling
    BY <2>1 DEF Sliced
  <2>3. raw[1][2] = Ceiling
    BY <1>1, <2>2
  <2> QED
    BY <1>1, <2>3
<1>5. Covers(raw, 0, length)
  <2>1. \A t \in 0 .. (length - 1) : Within(t, raw)
    BY <1>2, FirstSlice DEF Within
  <2>2. AtMost(Lap) >= 0
    BY <1>1 DEF AtMost, Higher
  <2> USE DEF Covers
  <2> WITNESS 0 \in Nat, 0 \in Nat
  <2> QED
    BY <1>1, <2>1, <2>2
<1>6. raw[n][1] + MinTail <= length
  <2>1. raw[n][1] \in Nat
    BY SlicedFacts
  <2> QED
    BY <1>1, <2>1
<1> QED
  BY <1>2, <1>3, <1>4, <1>5, <1>6 DEF SlicesOf

(* ... and one that is folded moves the slice before it, which leaves out *)
(* at most what that one does not share with its predecessor any more.    *)
LEMMA TailFolded ==
  ASSUME overlap \in Nat, NEW raw, NEW n \in Nat, n >= 2, NEW length \in Nat, Sliced(raw, n, length),
         length > Ceiling, length - raw[n][1] < MinTail
  PROVE  SlicesOf(Append(SubSeq(raw, 1, n - 2), <<Higher(raw[n - 1][1], length - Ceiling), length>>), length)
<1>1. /\ Lap \in Nat /\ 2 * Lap <= Ceiling /\ Ceiling \in Nat /\ MinTail \in Nat /\ MinTail < Ceiling
  BY LapFacts
<1>2. \A k \in 1 .. n : /\ raw[k][1] \in Nat /\ raw[k][2] \in Nat /\ raw[k] = <<raw[k][1], raw[k][2]>>
                        /\ raw[k][1] < raw[k][2] /\ raw[k][2] <= length /\ raw[k][2] - raw[k][1] <= Ceiling
  BY SlicedFacts
<1>3. \A k \in 1 .. (n - 1) : raw[k][1] < raw[k + 1][1] /\ raw[k][2] < raw[k + 1][2]
  BY SlicedFacts
<1>4. length - raw[n][1] > Lap
  BY SlicedFacts
<1>5. /\ n - 1 \in 1 .. n /\ n \in 1 .. n
      /\ raw[n - 1][2] = raw[n - 1][1] + Ceiling /\ raw[n - 1][2] < length
      /\ raw[n][1] = raw[n - 1][1] + (Ceiling - Lap)
  <2>1. n - 1 \in 1 .. (n - 1) /\ (n - 1) + 1 = n
    OBVIOUS
  <2> QED
    BY <2>1 DEF Sliced
<1> DEFINE start == length - Ceiling
           kept == SubSeq(raw, 1, n - 2)
           b == Append(kept, <<start, length>>)
<1>6. /\ start \in Nat /\ raw[n - 1][1] < start
      /\ start - raw[n - 1][1] < MinTail - Lap
      /\ Higher(raw[n - 1][1], length - Ceiling) = start
  BY <1>1, <1>2, <1>4, <1>5 DEF Higher
<1>7. /\ kept \in Seq(Nat \X Nat) /\ Len(kept) = n - 2
      /\ \A k \in 1 .. (n - 2) : kept[k] = raw[k]
  <2>1. raw \in Seq(Nat \X Nat) /\ Len(raw) = n
    BY DEF Sliced
  <2>2. 1 \in 1 .. (Len(raw) + 1) /\ n - 2 \in (1 - 1) .. Len(raw)
    BY <2>1
  <2>3. Len(kept) = (n - 2) - 1 + 1 /\ kept \in Seq(Nat \X Nat)
        /\ \A i \in 1 .. ((n - 2) - 1 + 1) : kept[i] = raw[1 + i - 1]
    BY <2>1, <2>2, SubSeqProperties
  <2> QED
    BY <2>3
<1>8. /\ b \in Seq(Nat \X Nat) /\ Len(b) = n - 1
      /\ \A k \in 1 .. (n - 2) : b[k] = raw[k]
      /\ b[n - 1] = <<start, length>>
  <2> HIDE DEF kept, start
  <2>1. <<start, length>> \in Nat \X Nat
    BY <1>6 DEF start
  <2> QED
    BY <1>7, <2>1, AppendProperties
<1> HIDE DEF kept, b
<1>9. Fit(b, length)
  <2>1. \A k \in 1 .. (n - 1) : b[k][1] < b[k][2] /\ b[k][2] <= length /\ b[k][2] - b[k][1] <= Ceiling
    <3> TAKE k \in 1 .. (n - 1)
    <3>1. CASE k = n - 1
      BY <1>1, <1>6, <1>8, <3>1
    <3>2. CASE k # n - 1
      <4>1. k \in 1 .. (n - 2) /\ k \in 1 .. n
        BY <3>2
      <4> QED
        BY <1>2, <1>8, <4>1
    <3> QED
      BY <3>1, <3>2
  <2>2. \A k \in 1 .. (n - 2) : b[k][1] < b[k + 1][1] /\ b[k][2] <= b[k + 1][2]
    <3> TAKE k \in 1 .. (n - 2)
    <3>0. k \in 1 .. (n - 1) /\ k \in 1 .. n /\ k + 1 \in 1 .. n
      OBVIOUS
    <3>1. CASE k = n - 2
      <4>1. k + 1 = n - 1
        BY <3>1
      <4>2. b[k] = raw[k] /\ b[k + 1] = <<start, length>> /\ raw[k][1] < raw[n - 1][1]
        BY <1>3, <1>8, <3>0, <4>1
      <4> QED
        BY <1>2, <1>5, <1>6, <3>0, <4>2
    <3>2. CASE k # n - 2
      <4>1. k + 1 \in 1 .. (n - 2)
        BY <3>2
      <4>2. b[k] = raw[k] /\ b[k + 1] = raw[k + 1]
        BY <1>8, <4>1
      <4>3. raw[k][1] < raw[k + 1][1] /\ raw[k][2] < raw[k + 1][2]
        BY <1>3, <3>0
      <4>4. raw[k][2] \in Nat /\ raw[k + 1][2] \in Nat
        BY <1>2, <3>0
      <4> QED
        BY <4>2, <4>3, <4>4
    <3> QED
      BY <3>1, <3>2
  <2> QED
    BY <1>8, <2>1, <2>2 DEF Fit
<1>10. b[1][2] >= Ceiling
  <2>1. CASE n = 2
    BY <1>1, <1>8, <2>1
  <2>2. CASE n # 2
    <3>1. 1 \in 1 .. (n - 2) /\ 1 \in 1 .. (n - 1) /\ b[1] = raw[1]
      BY <1>8, <2>2
    <3>2. raw[1][2] = raw[1][1] + Ceiling /\ raw[1][1] = 0
      BY <3>1 DEF Sliced
    <3> QED
      BY <1>1, <3>1, <3>2
  <2> QED
    BY <2>1, <2>2
\* Lost is what the slice before the moved one does not reach.
<1>11. \A t \in 0 .. (length - 1) :
         \/ Within(t, b)
         \/ /\ t < start
            /\ \A i \in 1 .. (n - 2) : raw[i][2] <= t
            /\ raw[n - 1][1] <= t
  <2> TAKE t \in 0 .. (length - 1)
  <2>1. PICK k \in 1 .. n : /\ raw[k][1] <= t /\ t < raw[k][2]
                            /\ \A i \in 1 .. n : i < k => raw[i][2] <= t
    BY FirstSlice
  <2>2. CASE k <= n - 2
    <3>1. k \in 1 .. (n - 2) /\ k \in 1 .. Len(b)
      BY <1>8, <2>2
    <3> QED
      BY <1>8, <2>1, <3>1 DEF Within
  <2>3. CASE t >= start
    <3>1. n - 1 \in 1 .. Len(b) /\ b[n - 1][1] <= t /\ t < b[n - 1][2]
      BY <1>6, <1>8, <2>3
    <3> QED
      BY <3>1 DEF Within
  <2>4. CASE k > n - 2 /\ t < start
    <3>1. \A i \in 1 .. (n - 2) : raw[i][2] <= t
      BY <2>1, <2>4
    <3>2. raw[n - 1][1] <= t
      <4>1. CASE k = n - 1
        BY <2>1, <4>1
      <4>2. CASE k = n
        BY <1>2, <1>3, <1>5, <2>1, <4>2
      <4> QED
        BY <2>4, <4>1, <4>2
    <3> QED
      BY <2>4, <3>1, <3>2
  <2> QED
    BY <1>6, <2>2, <2>3, <2>4
<1>12. Covers(b, 0, length)
  <2>1. /\ start + MinTail <= length
        /\ AtMost(Lap) = MinTail - Lap - 1 /\ AtMost(Lap) >= 0
        /\ AtMost(2 * Lap) = IF MinTail > 2 * Lap + 1 THEN MinTail - 2 * Lap - 1 ELSE 0
    BY <1>1, <1>2, <1>4, <1>5, <1>6 DEF AtMost, Higher
  <2>2. CASE n = 2
    <3>1. raw[n - 1][1] = 0
      BY <2>2 DEF Sliced
    <3>2. \A t \in 0 .. (length - 1) : (0 <= t /\ t < start) \/ Within(t, b)
      BY <1>6, <1>11
    <3> USE DEF Covers
    <3> USE <1>6
    <3> WITNESS 0 \in Nat, start \in Nat
    <3> QED
      BY <1>1, <1>6, <2>1, <3>1, <3>2
  <2>3. CASE n # 2
    <3> DEFINE reached == raw[n - 2][2]
    <3>1. n - 2 \in 1 .. (n - 2) /\ n - 2 \in 1 .. n /\ n - 2 \in 1 .. (n - 1) /\ (n - 2) + 1 = n - 1
      BY <2>3
    <3>2. reached \in Nat /\ reached = raw[n - 1][1] + Lap
      <4>1. raw[n - 2][2] = raw[n - 2][1] + Ceiling /\ raw[n - 1][1] = raw[n - 2][1] + (Ceiling - Lap)
        BY <3>1 DEF Sliced
      <4> QED
        BY <1>1, <1>2, <3>1, <4>1
    <3>3. \A t \in 0 .. (length - 1) : (reached <= t /\ t < start) \/ Within(t, b)
      BY <1>11, <3>1
    <3> HIDE DEF reached
    <3>4. CASE reached < start
      <4> USE DEF Covers
      <4> USE <1>6, <3>2
      <4> WITNESS reached \in Nat, start \in Nat
      <4> QED
        BY <1>1, <1>2, <1>5, <1>6, <2>1, <3>2, <3>3, <3>4
    <3>5. CASE ~(reached < start)
      <4>1. \A t \in 0 .. (length - 1) : Within(t, b)
        BY <1>6, <3>2, <3>3, <3>5
      <4> USE DEF Covers
      <4> WITNESS 0 \in Nat, 0 \in Nat
      <4> QED
        BY <1>1, <2>1, <4>1
    <3> QED
      BY <3>4, <3>5
  <2> QED
    BY <2>2, <2>3
<1>13. b[n - 1][2] = length /\ b[n - 1][1] + MinTail <= length
  BY <1>1, <1>6, <1>8
<1>14. SlicesOf(b, length)
  BY <1>8, <1>9, <1>10, <1>12, <1>13 DEF SlicesOf
<1> QED
  BY <1>6, <1>14 DEF b, kept

(* FixedSegmentBounds, for any length, limit and overlap.                 *)
LEMMA FixedSlices ==
  ASSUME overlap \in Nat, NEW length \in Nat, length > Ceiling
  PROVE  SlicesOf(FixedSegmentBounds(length, Ceiling, overlap), length)
<1> DEFINE step == Ceiling - Lap
           count == 1 + ((length - Ceiling) + step - 1) \div step
           raw == [k \in 1 .. count |-> <<(k - 1) * step, Lower(length, (k - 1) * step + Ceiling)>>]
<1>1. Ceiling \in Nat /\ step \in Nat \ {0} /\ MinTail \in Nat /\ Lap \in Nat
  BY LapFacts
<1>2. FixedSegmentBounds(length, Ceiling, overlap) = FoldTail(raw, Ceiling)
  BY <1>1 DEF FixedSegmentBounds, Lap
<1>3. /\ count \in Nat /\ count >= 2
      /\ (count - 2) * step + Ceiling < length /\ length <= (count - 1) * step + Ceiling
  <2> HIDE DEF step
  <2> QED
    BY <1>1, CountOfSlices
<1> HIDE DEF count
<1>4. Sliced(raw, count, length)
  BY <1>3, RawSlices
<1> HIDE DEF raw
<1>5. Len(raw) = count /\ raw[count][2] = length
  BY <1>4 DEF Sliced
<1>6. CASE length - raw[count][1] < MinTail
  <2>1. FoldTail(raw, Ceiling) =
          Append(SubSeq(raw, 1, count - 2), <<Higher(raw[count - 1][1], length - Ceiling), length>>)
    BY <1>3, <1>5, <1>6 DEF FoldTail
  <2> QED
    BY <1>2, <1>3, <1>4, <1>6, <2>1, TailFolded
<1>7. CASE ~(length - raw[count][1] < MinTail)
  <2>1. FoldTail(raw, Ceiling) = raw
    BY <1>3, <1>5, <1>7 DEF FoldTail
  <2> QED
    BY <1>2, <1>3, <1>4, <1>7, <2>1, TailKept
<1> QED
  BY <1>6, <1>7

(* A text whose words are in the order of the audio, each once.           *)
Rising(text) ==
  /\ text \in Seq(Nat)
  /\ \A i, j \in 1 .. Len(text) : i < j => text[i] < text[j]

(* The words of a slice are: what is spoken in it, counted off.           *)
LEMMA WordsInOrder ==
  ASSUME NEW slice, slice[1] \in Nat, slice[2] \in Nat
  PROVE  /\ Rising(Words(slice))
         /\ \A k \in 1 .. Len(Words(slice)) : Words(slice)[k] \in Ticks(slice) \cap Spoken
         /\ \A t \in Ticks(slice) \cap Spoken : \E k \in 1 .. Len(Words(slice)) : Words(slice)[k] = t
<1> DEFINE heard == Ticks(slice) \cap Spoken
           n == Cardinality(heard)
           Rank(t) == Cardinality({u \in heard : u <= t})
           W == [k \in 1 .. n |-> CHOOSE t \in heard : Rank(t) = k]
<1>0. Words(slice) = W
  BY DEF Words
<1>1. IsFiniteSet(heard) /\ n \in Nat /\ heard \subseteq Nat
  <2>1. Ticks(slice) \subseteq Nat /\ IsFiniteSet(Ticks(slice))
    <3>1. slice[1] \in Int /\ slice[2] - 1 \in Int
      OBVIOUS
    <3>2. IsFiniteSet(slice[1] .. (slice[2] - 1))
      BY <3>1, FS_Interval
    <3>3. \A t \in slice[1] .. (slice[2] - 1) : t \in Nat
      OBVIOUS
    <3> QED
      BY <3>2, <3>3 DEF Ticks
  <2>2. heard \in SUBSET Ticks(slice)
    OBVIOUS
  <2> QED
    BY <2>1, <2>2, FS_Subset, FS_CardinalityType
<1> HIDE DEF heard
<1>2. \A t \in heard : Rank(t) \in 1 .. n
  <2> TAKE t \in heard
  <2> DEFINE below == {u \in heard : u <= t}
  <2>1. below \in SUBSET heard /\ t \in below
    BY <1>1
  <2>2. IsFiniteSet(below) /\ Cardinality(below) <= n
    BY <1>1, <2>1, FS_Subset
  <2>3. Cardinality(below) \in Nat /\ Cardinality(below) # 0
    <3> HIDE DEF below
    <3> QED
      BY <2>1, <2>2, FS_CardinalityType, FS_EmptySet
  <2> QED
    BY <1>1, <2>2, <2>3
<1>3. \A t, v \in heard : t < v => Rank(t) < Rank(v)
  <2> TAKE t, v \in heard
  <2> HAVE t < v
  <2> DEFINE below == {u \in heard : u <= t}
             more == {u \in heard : u <= v}
  <2>0. t \in Nat /\ v \in Nat /\ \A u \in heard : u \in Nat
    BY <1>1
  <2>1. below \in SUBSET more /\ v \in more /\ v \notin below /\ more \in SUBSET heard
    <3>1. \A u \in heard : u <= t => u <= v
      BY <2>0
    <3>2. v <= v /\ ~(v <= t)
      BY <2>0
    <3> QED
      BY <3>1, <3>2
  <2> HIDE DEF below, more
  <2>2. IsFiniteSet(more) /\ IsFiniteSet(below)
    BY <1>1, <2>1, FS_Subset
  <2>3. Cardinality(below) <= Cardinality(more) /\ Cardinality(below) # Cardinality(more)
    BY <2>1, <2>2, FS_Subset
  <2>4. Cardinality(below) \in Nat /\ Cardinality(more) \in Nat
    BY <2>2, FS_CardinalityType
  <2> QED
    BY <2>3, <2>4 DEF below, more
<1>4. \A t, v \in heard : Rank(t) = Rank(v) => t = v
  <2> HIDE DEF Rank
  <2> QED
    BY <1>1, <1>2, <1>3
<1>5. \A k \in 1 .. n : \E t \in heard : Rank(t) = k
  <2> DEFINE f == [t \in heard |-> Rank(t)]
  <2> HIDE DEF Rank
  <2>1. f \in [heard -> 1 .. n] /\ \A t \in heard : f[t] = Rank(t)
    BY <1>2
  <2> HIDE DEF f
  <2>2. f \in Injection(heard, 1 .. n)
    BY <1>4, <2>1 DEF Injection, IsInjective
  <2>3. IsFiniteSet(1 .. n) /\ Cardinality(1 .. n) = n
    BY <1>1, FS_Interval
  <2> HIDE DEF n
  <2>4. f \in Surjection(heard, 1 .. n)
    BY <2>2, <2>3, FS_Injection DEF n
  <2> QED
    BY <2>1, <2>4 DEF Surjection
<1>6. \A k \in 1 .. n : W[k] \in heard /\ Rank(W[k]) = k
  <2> HIDE DEF Rank
  <2> QED
    BY <1>5
<1>7. W \in Seq(Nat) /\ Len(W) = n
  <2>1. \A k \in 1 .. n : (CHOOSE t \in heard : Rank(t) = k) \in Nat
    <3> HIDE DEF Rank
    <3> QED
      BY <1>1, <1>5
  <2> HIDE DEF Rank, n
  <2> QED
    BY <1>1, <2>1
<1> HIDE DEF W, Rank
<1>8. \A i, j \in 1 .. n : i < j => W[i] < W[j]
  <2> TAKE i, j \in 1 .. n
  <2> HAVE i < j
  <2>1. W[i] \in Nat /\ W[j] \in Nat /\ Rank(W[i]) = i /\ Rank(W[j]) = j /\ W[i] \in heard /\ W[j] \in heard
    BY <1>1, <1>6
  <2>2. ~(W[j] < W[i]) /\ W[i] # W[j]
    BY <1>1, <1>3, <2>1
  <2> QED
    BY <2>1, <2>2
<1>9. \A t \in heard : \E k \in 1 .. n : W[k] = t
  BY <1>2, <1>4, <1>6
<1> QED
  BY <1>0, <1>6, <1>7, <1>8, <1>9 DEF Rising, heard

(* Words and places are ordered alike.                                    *)
LEMMA RisingFacts ==
  ASSUME NEW text, Rising(text)
  PROVE  /\ Len(text) \in Nat
         /\ \A i \in 1 .. Len(text) : text[i] \in Nat
         /\ \A i, j \in 1 .. Len(text) : text[i] < text[j] <=> i < j
         /\ \A i, j \in 1 .. Len(text) : text[i] <= text[j] <=> i <= j
<1>1. /\ Len(text) \in Nat
      /\ \A i \in 1 .. Len(text) : text[i] \in Nat
  BY LenProperties, ElementOfSeq DEF Rising
<1>2. \A i, j \in 1 .. Len(text) : i < j => text[i] < text[j]
  BY DEF Rising
<1>3. ASSUME NEW i \in 1 .. Len(text), NEW j \in 1 .. Len(text)
      PROVE  (text[i] < text[j] <=> i < j) /\ (text[i] <= text[j] <=> i <= j)
  <2>1. text[i] \in Nat /\ text[j] \in Nat /\ i \in Nat /\ j \in Nat
    BY <1>1
  <2>2. (i < j => text[i] < text[j]) /\ (j < i => text[j] < text[i]) /\ (i = j => text[i] = text[j])
    BY <1>2
  <2> HIDE DEF Rising
  <2> QED
    BY <2>1, <2>2
<1> QED
  BY <1>1, <1>3

(* Longest is the greatest of a set of lengths, 0 if there is none.       *)
LEMMA LongestIs ==
  ASSUME NEW bound \in Nat, NEW lengths \in SUBSET (1 .. bound)
  PROVE  /\ Longest(lengths) \in 0 .. bound
         /\ \A n \in lengths : n <= Longest(lengths)
         /\ Longest(lengths) # 0 => Longest(lengths) \in lengths
<1>1. CASE lengths = {}
  BY <1>1 DEF Longest
<1>2. CASE lengths # {}
  <2> DEFINE T == {bound - n : n \in lengths}
  <2>1. T \in SUBSET Nat /\ T # {}
    <3>1. \A n \in lengths : bound - n \in Nat
      OBVIOUS
    <3> QED
      BY <1>2, <3>1
  <2>2. PICK d \in T : \A e \in T : d <= e
    <3> HIDE DEF T
    <3> QED
      BY <2>1, LeastNumber
  <2>3. PICK n \in lengths : d = bound - n
    BY <2>2
  <2>4. \A m \in lengths : m <= n
    <3> TAKE m \in lengths
    <3>1. bound - m \in T
      OBVIOUS
    <3>2. bound - n <= bound - m
      BY <2>2, <2>3, <3>1
    <3> QED
      BY <3>2
  <2> DEFINE top == CHOOSE k \in lengths : \A m \in lengths : m <= k
  <2>5. top \in lengths /\ \A m \in lengths : m <= top
    BY <2>4
  <2>6. Longest(lengths) = top
    BY <1>2 DEF Longest
  <2> HIDE DEF top
  <2> QED
    BY <2>5, <2>6
<1> QED
  BY <1>1, <1>2

(* What cur repeats of prev is what of it lies before the end of prev.    *)
LEMMA RepeatFound ==
  ASSUME NEW prev, NEW cur, Rising(prev), Rising(cur), NEW a \in Nat, NEW e \in Nat,
         \A i \in 1 .. Len(prev) : prev[i] < e,
         \A k \in 1 .. Len(cur) : a <= cur[k],
         \A i \in 1 .. Len(prev) : a <= prev[i] => \E k \in 1 .. Len(cur) : cur[k] = prev[i],
         \A k \in 1 .. Len(cur) : cur[k] < e => \E i \in 1 .. Len(prev) : prev[i] = cur[k],
         NEW m \in 1 .. Len(cur), \A k \in 1 .. Len(cur) : cur[k] < e <=> k <= m
  PROVE  m \in Repeats(prev, cur)
<1> DEFINE p == Len(prev)
           Fails(d) == ~(p - d >= 1 /\ prev[p - d] = cur[m - d])
           wrong == {d \in 0 .. (m - 1) : Fails(d)}
<1>1. /\ p \in Nat /\ Len(cur) \in Nat
      /\ \A i \in 1 .. p : prev[i] \in Nat
      /\ \A k \in 1 .. Len(cur) : cur[k] \in Nat
  BY RisingFacts
<1>11. \A i, j \in 1 .. p : (prev[i] < prev[j] <=> i < j) /\ (prev[i] <= prev[j] <=> i <= j)
  BY RisingFacts
<1>12. \A i, j \in 1 .. Len(cur) : (cur[i] < cur[j] <=> i < j) /\ (cur[i] <= cur[j] <=> i <= j)
  BY RisingFacts
<1> HIDE DEF p
<1>2. wrong = {}
  <2> SUFFICES ASSUME wrong # {} PROVE FALSE
    OBVIOUS
  <2>1. PICK d \in wrong : \A c \in wrong : d <= c
    <3>1. wrong \in SUBSET Nat
      OBVIOUS
    <3> HIDE DEF wrong
    <3> QED
      BY <3>1, LeastNumber
  <2>2. d \in 0 .. (m - 1) /\ Fails(d) /\ \A c \in 0 .. (m - 1) : c < d => ~Fails(c)
    <3>1. \A c \in 0 .. (m - 1) : c \notin wrong => ~Fails(c)
      OBVIOUS
    <3>2. d \in 0 .. (m - 1) /\ Fails(d)
      OBVIOUS
    <3> HIDE DEF Fails
    <3> QED
      BY <2>1, <3>1, <3>2
  <2>3. m - d \in 1 .. Len(cur) /\ cur[m - d] < e
    BY <1>1, <2>2
  <2>4. PICK i \in 1 .. p : prev[i] = cur[m - d]
    BY <2>3 DEF p
  <2>5. d > 0 => /\ p - d + 1 \in 1 .. p /\ m - d + 1 \in 1 .. Len(cur)
                 /\ prev[p - d + 1] = cur[m - d + 1]
    <3> SUFFICES ASSUME d > 0
                 PROVE  /\ p - d + 1 \in 1 .. p /\ m - d + 1 \in 1 .. Len(cur)
                        /\ prev[p - d + 1] = cur[m - d + 1]
      OBVIOUS
    <3>1. d - 1 \in 0 .. (m - 1) /\ d - 1 < d
      BY <2>2
    <3>2. p - (d - 1) >= 1 /\ prev[p - (d - 1)] = cur[m - (d - 1)]
      BY <2>2, <3>1
    <3>3. p - (d - 1) = p - d + 1 /\ m - (d - 1) = m - d + 1
      BY <1>1, <2>2
    <3> QED
      BY <1>1, <2>2, <3>1, <3>2, <3>3
  <2>6. i <= p - d
    <3>1. CASE d = 0
      BY <1>1, <3>1
    <3>2. CASE d > 0
      <4>1. cur[m - d] < cur[m - d + 1]
        <5>1. m - d + 1 \in 1 .. Len(cur) /\ m - d < m - d + 1
          BY <2>2, <2>5, <3>2
        <5> QED
          BY <1>12, <2>3, <5>1
      <4>2. prev[i] < prev[p - d + 1]
        BY <2>4, <2>5, <3>2, <4>1
      <4>3. i < p - d + 1
        BY <1>11, <2>5, <3>2, <4>2
      <4> QED
        BY <1>1, <2>2, <4>3
    <3> QED
      BY <2>2, <3>1, <3>2
  <2>7. p - d \in 1 .. p /\ prev[i] <= prev[p - d]
    <3>1. p - d \in 1 .. p
      BY <1>1, <2>2, <2>6
    <3> QED
      BY <1>11, <2>6, <3>1
  <2>8. PICK j \in 1 .. Len(cur) : cur[j] = prev[p - d]
    <3>1. a <= prev[p - d]
      <4>1. a <= cur[m - d] /\ cur[m - d] <= prev[p - d]
        BY <2>3, <2>4, <2>7
      <4>2. cur[m - d] \in Nat /\ prev[p - d] \in Nat
        BY <1>1, <2>3, <2>7
      <4> QED
        BY <4>1, <4>2
    <3> QED
      BY <2>7, <3>1 DEF p
  <2>9. j <= m - d
    <3>1. j <= m
      BY <2>7, <2>8 DEF p
    <3>2. CASE d = 0
      BY <3>1, <3>2
    <3>3. CASE d > 0
      <4>1. prev[p - d] < prev[p - d + 1]
        BY <1>1, <1>11, <2>2, <2>5, <2>7, <3>3
      <4>2. cur[j] < cur[m - d + 1]
        BY <2>5, <2>8, <3>3, <4>1
      <4>3. j < m - d + 1
        BY <1>12, <2>5, <3>3, <4>2
      <4> QED
        BY <2>2, <4>3
    <3> QED
      BY <2>2, <3>2, <3>3
  <2>10. cur[j] <= cur[m - d]
    BY <1>12, <2>3, <2>9
  <2>11. prev[p - d] = cur[m - d]
    <3>1. cur[m - d] \in Nat /\ prev[p - d] \in Nat
      BY <1>1, <2>3, <2>7
    <3>2. cur[m - d] <= prev[p - d] /\ prev[p - d] <= cur[m - d]
      BY <2>4, <2>7, <2>8, <2>10
    <3> QED
      BY <3>1, <3>2
  <2> QED
    BY <1>1, <2>2, <2>7, <2>11
<1>3. \A d \in 0 .. (m - 1) : p - d >= 1 /\ prev[p - d] = cur[m - d]
  BY <1>2
<1>4. m <= p
  <2>1. m - 1 \in 0 .. (m - 1)
    OBVIOUS
  <2> QED
    BY <1>1, <1>3, <2>1
<1>5. \A k \in 1 .. m : prev[p - m + k] = cur[k]
  <2> TAKE k \in 1 .. m
  <2>1. m - k \in 0 .. (m - 1)
    OBVIOUS
  <2>2. p - (m - k) = p - m + k /\ m - (m - k) = k
    BY <1>1
  <2> QED
    BY <1>3, <2>1, <2>2
<1> QED
  BY <1>1, <1>4, <1>5 DEF Repeats, Lower, p

(* What joining two texts gives: the words of both, each once and in      *)
(* order.                                                                 *)
JoinedWell(prev, cur) ==
  LET text == prev \o StripOverlapRepeat(prev, cur) IN
  /\ Rising(text)
  /\ \A i \in 1 .. Len(text) : \/ \E k \in 1 .. Len(prev) : prev[k] = text[i]
                               \/ \E k \in 1 .. Len(cur) : cur[k] = text[i]
  /\ \A k \in 1 .. Len(prev) : \E i \in 1 .. Len(text) : text[i] = prev[k]
  /\ \A k \in 1 .. Len(cur) : \E i \in 1 .. Len(text) : text[i] = cur[k]

(* strip_overlap_repeat: a text up to e and one from a on, which agree on *)
(* what is between, are joined well.                                      *)
LEMMA JoinedTexts ==
  ASSUME NEW prev, NEW cur, Rising(prev), Rising(cur), NEW a \in Nat, NEW e \in Nat,
         \A i \in 1 .. Len(prev) : prev[i] < e,
         \A k \in 1 .. Len(cur) : a <= cur[k],
         \A i \in 1 .. Len(prev) : a <= prev[i] => \E k \in 1 .. Len(cur) : cur[k] = prev[i],
         \A k \in 1 .. Len(cur) : cur[k] < e => \E i \in 1 .. Len(prev) : prev[i] = cur[k]
  PROVE  JoinedWell(prev, cur)
<1> DEFINE n == Longest(Repeats(prev, cur))
           rest == SubSeq(cur, n + 1, Len(cur))
           text == prev \o rest
<1>1. /\ Len(prev) \in Nat /\ Len(cur) \in Nat
      /\ \A i \in 1 .. Len(prev) : prev[i] \in Nat
      /\ \A k \in 1 .. Len(cur) : cur[k] \in Nat
  BY RisingFacts
<1>2. \A i, j \in 1 .. Len(prev) : (prev[i] < prev[j] <=> i < j) /\ (prev[i] <= prev[j] <=> i <= j)
  BY RisingFacts
<1>3. \A i, j \in 1 .. Len(cur) : (cur[i] < cur[j] <=> i < j) /\ (cur[i] <= cur[j] <=> i <= j)
  BY RisingFacts
<1>4. /\ n \in 0 .. Len(cur)
      /\ \A m \in Repeats(prev, cur) : m <= n
      /\ n # 0 => n \in Repeats(prev, cur)
  <2>1. Repeats(prev, cur) \in SUBSET (1 .. Len(cur))
    <3>1. \A m \in 1 .. Lower(Len(prev), Len(cur)) : m \in 1 .. Len(cur)
      BY <1>1 DEF Lower
    <3> QED
      BY <3>1 DEF Repeats
  <2> QED
    BY <1>1, <2>1, LongestIs
<1> HIDE DEF n
\* What is left out is in prev, ...
<1>5. \A k \in 1 .. n : \E i \in 1 .. Len(prev) : prev[i] = cur[k]
  <2> TAKE k \in 1 .. n
  <2>1. n \in Repeats(prev, cur)
    BY <1>4
  <2>2. n <= Len(prev) /\ \A j \in 1 .. n : prev[Len(prev) - n + j] = cur[j]
    BY <1>1, <2>1 DEF Repeats, Lower
  <2>3. Len(prev) - n + k \in 1 .. Len(prev)
    BY <1>1, <1>4, <2>2
  <2> QED
    BY <2>2, <2>3
\* ... and it is all that lies before the end of prev.
<1>6. \A k \in 1 .. Len(cur) : cur[k] < e => k <= n
  <2> DEFINE T == {k \in 1 .. (Len(cur) + 1) : k = Len(cur) + 1 \/ e <= cur[k]}
  <2>1. T \in SUBSET Nat /\ Len(cur) + 1 \in T
    BY <1>1
  <2>2. PICK f \in T : \A k \in T : f <= k
    <3> HIDE DEF T
    <3> QED
      BY <2>1, LeastNumber
  <2>3. f \in 1 .. (Len(cur) + 1) /\ (f = Len(cur) + 1 \/ e <= cur[f])
    BY <2>2
  <2>4. \A k \in 1 .. Len(cur) : k < f => cur[k] < e
    <3> TAKE k \in 1 .. Len(cur)
    <3> HAVE k < f
    <3>1. k \notin T
      BY <2>2, <2>3
    <3>2. k \in 1 .. (Len(cur) + 1) /\ k # Len(cur) + 1
      BY <1>1
    <3>3. ~(e <= cur[k])
      BY <3>1, <3>2
    <3>4. cur[k] \in Nat
      BY <1>1
    <3> QED
      BY <3>3, <3>4
  <2>5. \A k \in 1 .. Len(cur) : f <= k => ~(cur[k] < e)
    <3> TAKE k \in 1 .. Len(cur)
    <3> HAVE f <= k
    <3>1. f \in 1 .. Len(cur) /\ e <= cur[f]
      BY <1>1, <2>3
    <3>2. cur[f] <= cur[k] /\ cur[f] \in Nat /\ cur[k] \in Nat
      BY <1>1, <1>3, <3>1
    <3> QED
      BY <3>1, <3>2
  <2> DEFINE m == f - 1
  <2>6. \A k \in 1 .. Len(cur) : cur[k] < e <=> k <= m
    <3> TAKE k \in 1 .. Len(cur)
    <3>1. k < f \/ f <= k
      BY <2>3
    <3>2. (k < f <=> k <= m) /\ (k < f <=> ~(f <= k))
      BY <2>3
    <3> QED
      BY <2>4, <2>5, <3>1, <3>2
  <2>7. m # 0 => m \in Repeats(prev, cur)
    <3> SUFFICES ASSUME m # 0 PROVE m \in Repeats(prev, cur)
      OBVIOUS
    <3>1. m \in 1 .. Len(cur)
      BY <1>1, <2>3
    <3> HIDE DEF m
    <3> QED
      BY <2>6, <3>1, RepeatFound
  <2>8. m <= n
    BY <1>4, <2>3, <2>7
  <2>9. m \in Nat
    BY <2>3
  <2> HIDE DEF m
  <2> QED
    BY <1>4, <2>6, <2>8, <2>9
<1>7. /\ rest \in Seq(Nat) /\ Len(rest) = Len(cur) - n
      /\ \A i \in 1 .. (Len(cur) - n) : rest[i] = cur[n + i]
  <2>1. n + 1 \in Int /\ Len(cur) \in Int /\ \A i \in (n + 1) .. Len(cur) : cur[i] \in Nat
    BY <1>1, <1>4
  <2>2. /\ rest \in Seq(Nat)
        /\ Len(rest) = IF n + 1 <= Len(cur) THEN Len(cur) - (n + 1) + 1 ELSE 0
        /\ \A i \in 1 .. (Len(cur) - (n + 1) + 1) : rest[i] = cur[(n + 1) + i - 1]
    BY <2>1, SubSeqProperties
  <2>3. Len(cur) - (n + 1) + 1 = Len(cur) - n /\ \A i \in Nat : (n + 1) + i - 1 = n + i
    BY <1>1, <1>4
  <2> HIDE DEF rest
  <2>4. Len(rest) = Len(cur) - n
    BY <1>1, <1>4, <2>2
  <2>5. \A i \in 1 .. (Len(cur) - n) : rest[i] = cur[n + i]
    <3> TAKE i \in 1 .. (Len(cur) - n)
    <3>1. i \in 1 .. (Len(cur) - (n + 1) + 1) /\ (n + 1) + i - 1 = n + i
      BY <1>1, <1>4, <2>3
    <3>2. rest[i] = cur[(n + 1) + i - 1]
      BY <2>2, <3>1
    <3> QED
      BY <3>1, <3>2
  <2> QED
    BY <2>2, <2>4, <2>5
<1> HIDE DEF rest
<1> DEFINE p == Len(prev)
<1>8. /\ text \in Seq(Nat) /\ Len(text) = p + (Len(cur) - n)
      /\ \A i \in 1 .. Len(prev) : text[i] = prev[i]
      /\ \A i \in 1 .. (Len(cur) - n) : text[p + i] = cur[n + i]
  <2>1. prev \in Seq(Nat)
    BY DEF Rising
  <2>2. /\ text \in Seq(Nat) /\ Len(text) = Len(prev) + Len(rest)
        /\ \A i \in 1 .. (Len(prev) + Len(rest)) :
             text[i] = IF i <= Len(prev) THEN prev[i] ELSE rest[i - Len(prev)]
    BY <1>7, <2>1, ConcatProperties
  <2> HIDE DEF text
  <2>3. \A i \in 1 .. Len(prev) : text[i] = prev[i]
    <3> TAKE i \in 1 .. Len(prev)
    <3>1. i \in 1 .. (Len(prev) + Len(rest)) /\ i <= Len(prev)
      BY <1>1, <1>4, <1>7
    <3> QED
      BY <2>2, <3>1
  <2>4. \A i \in 1 .. (Len(cur) - n) : text[p + i] = cur[n + i]
    <3> TAKE i \in 1 .. (Len(cur) - n)
    <3>1. p + i \in 1 .. (Len(prev) + Len(rest)) /\ ~(p + i <= Len(prev)) /\ (p + i) - Len(prev) = i
      BY <1>1, <1>4, <1>7
    <3>2. text[p + i] = rest[i]
      BY <2>2, <3>1
    <3> QED
      BY <1>7, <3>2
  <2> QED
    BY <1>7, <2>2, <2>3, <2>4
<1> HIDE DEF text
\* A place in the joined text is one of prev or one of cur behind its end.
<1>9. \A i \in 1 .. Len(text) :
        \/ i \in 1 .. p /\ text[i] = prev[i] /\ text[i] < e /\ text[i] \in Nat
        \/ /\ i > p /\ i - p + n \in 1 .. Len(cur) /\ text[i] = cur[i - p + n]
           /\ ~(text[i] < e) /\ text[i] \in Nat
  <2> TAKE i \in 1 .. Len(text)
  <2>1. CASE i <= p
    <3>1. i \in 1 .. Len(prev)
      BY <2>1
    <3> QED
      BY <1>1, <1>8, <3>1
  <2>2. CASE ~(i <= p)
    <3> DEFINE k == i - p
    <3>1. k \in 1 .. (Len(cur) - n) /\ p + k = i /\ n + k = i - p + n /\ n + k \in 1 .. Len(cur) /\ ~(n + k <= n)
      BY <1>1, <1>4, <1>8, <2>2
    <3>2. text[p + k] = cur[n + k]
      BY <1>8, <3>1
    <3>3. ~(cur[n + k] < e) /\ cur[n + k] \in Nat
      BY <1>1, <1>6, <3>1
    <3> QED
      BY <2>2, <3>1, <3>2, <3>3
  <2> QED
    BY <2>1, <2>2
<1>10. Rising(text)
  <2>1. \A i, j \in 1 .. Len(text) : i < j => text[i] < text[j]
    <3> TAKE i, j \in 1 .. Len(text)
    <3> HAVE i < j
    <3>1. CASE j <= p
      BY <1>1, <1>2, <1>9, <3>1
    <3>2. CASE ~(j <= p) /\ i <= p
      <4>1. text[i] < e /\ text[i] \in Nat /\ ~(text[j] < e) /\ text[j] \in Nat
        BY <1>1, <1>9, <3>2
      <4> QED
        BY <4>1
    <3>3. CASE ~(i <= p)
      <4>1. /\ i - p + n \in 1 .. Len(cur) /\ text[i] = cur[i - p + n]
            /\ j - p + n \in 1 .. Len(cur) /\ text[j] = cur[j - p + n]
        BY <1>1, <1>9, <3>3
      <4>2. i - p + n < j - p + n
        BY <1>1, <1>4
      <4> QED
        BY <1>3, <4>1, <4>2
    <3> QED
      BY <1>1, <3>1, <3>2, <3>3
  <2> QED
    BY <1>8, <2>1 DEF Rising
<1>11. \A i \in 1 .. Len(text) : \/ \E k \in 1 .. Len(prev) : prev[k] = text[i]
                                 \/ \E k \in 1 .. Len(cur) : cur[k] = text[i]
  BY <1>9
<1>12. \A k \in 1 .. Len(prev) : \E i \in 1 .. Len(text) : text[i] = prev[k]
  <2> TAKE k \in 1 .. Len(prev)
  <2>1. k \in 1 .. Len(text)
    BY <1>1, <1>4, <1>8
  <2> QED
    BY <1>8, <2>1
<1>13. \A k \in 1 .. Len(cur) : \E i \in 1 .. Len(text) : text[i] = cur[k]
  <2> TAKE k \in 1 .. Len(cur)
  <2>1. CASE k <= n
    <3>1. k \in 1 .. n
      BY <2>1
    <3> QED
      BY <1>5, <1>12, <3>1
  <2>2. CASE ~(k <= n)
    <3>1. k - n \in 1 .. (Len(cur) - n) /\ n + (k - n) = k /\ p + (k - n) \in 1 .. Len(text)
      BY <1>1, <1>4, <1>8, <2>2
    <3> QED
      BY <1>8, <3>1
  <2> QED
    BY <2>1, <2>2
<1>14. text = prev \o StripOverlapRepeat(prev, cur)
  BY DEF StripOverlapRepeat, text, rest, n
<1> HIDE DEF text, rest, n
<1> QED
  BY <1>10, <1>11, <1>12, <1>13, <1>14 DEF JoinedWell

(* What fits is made of pairs of naturals that go forward.                *)
LEMMA FitFacts ==
  ASSUME NEW list, NEW end, Fit(list, end)
  PROVE  /\ list \in Seq(Nat \X Nat) /\ Len(list) \in Nat
         /\ \A k \in 1 .. Len(list) : /\ list[k][1] \in Nat /\ list[k][2] \in Nat
                                      /\ list[k] = <<list[k][1], list[k][2]>>
                                      /\ list[k][1] < list[k][2] /\ list[k][2] <= end
                                      /\ list[k][2] - list[k][1] <= Ceiling
         /\ \A k \in 1 .. (Len(list) - 1) : list[k][1] < list[k + 1][1] /\ list[k][2] <= list[k + 1][2]
<1>1. list \in Seq(Nat \X Nat) /\ Len(list) \in Nat
  BY LenProperties DEF Fit
<1>2. \A k \in 1 .. Len(list) : list[k] \in Nat \X Nat
  BY <1>1, ElementOfSeq
<1>3. \A k \in 1 .. Len(list) : list[k][1] \in Nat /\ list[k][2] \in Nat /\ list[k] = <<list[k][1], list[k][2]>>
  BY <1>2
<1> QED
  BY <1>1, <1>3 DEF Fit

(* Two lists that fit are one when the second goes on from the first, ... *)
LEMMA FitJoined ==
  ASSUME NEW a, NEW b, NEW end, Fit(a, end), Fit(b, end), Len(b) >= 1,
         Len(a) >= 1 => a[Len(a)][1] < b[1][1] /\ a[Len(a)][2] <= b[1][2]
  PROVE  /\ Fit(a \o b, end) /\ Len(a \o b) = Len(a) + Len(b)
         /\ (a \o b)[Len(a) + Len(b)] = b[Len(b)]
         /\ \A t : Within(t, a) \/ Within(t, b) => Within(t, a \o b)
<1> DEFINE m == Len(a)
           n == Len(b)
           c == a \o b
<1>1. /\ a \in Seq(Nat \X Nat) /\ m \in Nat /\ b \in Seq(Nat \X Nat) /\ n \in Nat
  BY FitFacts
<1>2. /\ c \in Seq(Nat \X Nat) /\ Len(c) = m + n
      /\ \A i \in 1 .. (m + n) : c[i] = IF i <= m THEN a[i] ELSE b[i - m]
  BY <1>1, ConcatProperties
<1> HIDE DEF c
<1>0. m \in Nat /\ n \in Nat /\ n >= 1
  BY <1>1
<1>3. \A i \in 1 .. m : i \in 1 .. Len(c) /\ c[i] = a[i]
  <2> TAKE i \in 1 .. m
  <2> HIDE DEF m, n
  <2>1. i \in 1 .. (m + n) /\ i <= m
    BY <1>0
  <2> QED
    BY <1>2, <2>1
<1>4. \A i \in 1 .. n : m + i \in 1 .. Len(c) /\ c[m + i] = b[i]
  <2> TAKE i \in 1 .. n
  <2>1. m + i \in 1 .. (m + n) /\ ~(m + i <= m) /\ (m + i) - m = i
    BY <1>1
  <2> QED
    BY <1>2, <2>1
<1>5. \A i \in 1 .. Len(c) : (i \in 1 .. m) \/ (i - m \in 1 .. n /\ i = m + (i - m))
  BY <1>1, <1>2
<1>6. \A i \in 1 .. Len(c) : c[i][1] < c[i][2] /\ c[i][2] <= end /\ c[i][2] - c[i][1] <= Ceiling
  <2> TAKE i \in 1 .. Len(c)
  <2>1. CASE i \in 1 .. m
    BY <1>3, <2>1, FitFacts
  <2>2. CASE i - m \in 1 .. n /\ i = m + (i - m)
    <3>1. c[i] = b[i - m]
      BY <1>4, <2>2
    <3> QED
      BY <2>2, <3>1, FitFacts
  <2> QED
    BY <1>5, <2>1, <2>2
<1>7. \A i \in 1 .. (Len(c) - 1) : c[i][1] < c[i + 1][1] /\ c[i][2] <= c[i + 1][2]
  <2> TAKE i \in 1 .. (Len(c) - 1)
  <2>1. CASE i < m
    <3>1. i \in 1 .. m /\ i + 1 \in 1 .. m /\ i \in 1 .. (m - 1)
      <4>1. i \in Nat /\ i >= 1
        BY <1>0, <1>2
      <4> HIDE DEF m, n
      <4> QED
        BY <1>0, <2>1, <4>1
    <3>2. c[i] = a[i] /\ c[i + 1] = a[i + 1]
      BY <1>3, <3>1
    <3> QED
      BY <3>1, <3>2, FitFacts
  <2>2. CASE i = m
    <3>1. i \in 1 .. m /\ 1 \in 1 .. n /\ i + 1 = m + 1
      BY <1>1, <2>2
    <3>2. c[i] = a[Len(a)] /\ c[i + 1] = b[1]
      BY <1>3, <1>4, <2>2, <3>1
    <3> QED
      BY <1>1, <2>2, <3>1, <3>2
  <2>3. CASE i > m
    <3> DEFINE k == i - m
    <3>1. k \in 1 .. n /\ k + 1 \in 1 .. n /\ k \in 1 .. (n - 1) /\ i = m + k /\ i + 1 = m + (k + 1)
      <4>1. i \in 1 .. (m + n - 1)
        BY <1>2
      <4> HIDE DEF m, n
      <4> QED
        BY <1>0, <2>3, <4>1
    <3> HIDE DEF k
    <3>2. c[i] = b[k] /\ c[i + 1] = b[k + 1]
      BY <1>4, <3>1
    <3>3. b[k][1] < b[k + 1][1] /\ b[k][2] <= b[k + 1][2]
      BY <3>1, FitFacts
    <3> QED
      BY <3>2, <3>3
  <2> QED
    BY <1>1, <2>1, <2>2, <2>3
<1>8. Fit(c, end)
  BY <1>2, <1>6, <1>7 DEF Fit
<1>9. c[m + n] = b[n]
  <2>1. n \in 1 .. n
    BY <1>0
  <2> QED
    BY <1>4, <2>1
<1>10. \A t : Within(t, a) \/ Within(t, b) => Within(t, c)
  <2> TAKE t
  <2>1. CASE Within(t, a)
    BY <1>3, <2>1 DEF Within
  <2>2. CASE Within(t, b)
    <3>1. PICK k \in 1 .. n : b[k][1] <= t /\ t < b[k][2]
      BY <2>2 DEF Within
    <3>2. m + k \in 1 .. Len(c) /\ c[m + k] = b[k]
      BY <1>4
    <3> QED
      BY <3>1, <3>2 DEF Within
  <2> QED
    BY <2>1, <2>2
<1> QED
  BY <1>2, <1>8, <1>9, <1>10 DEF c

(* ... one slice is one, ...                                              *)
LEMMA OneFits ==
  ASSUME NEW r \in Nat \X Nat, NEW end, r[1] < r[2], r[2] <= end, r[2] - r[1] <= Ceiling
  PROVE  /\ Fit(<<r>>, end) /\ Len(<<r>>) = 1 /\ <<r>>[1] = r
         /\ \A t : Within(t, <<r>>) <=> r[1] <= t /\ t < r[2]
<1>1. <<r>> \in Seq(Nat \X Nat) /\ Len(<<r>>) = 1 /\ <<r>>[1] = r
  OBVIOUS
<1>2. 1 .. Len(<<r>>) = {1} /\ 1 .. (Len(<<r>>) - 1) = {}
  BY <1>1
<1>3. Fit(<<r>>, end)
  BY <1>1, <1>2 DEF Fit
<1>4. \A t : Within(t, <<r>>) <=> r[1] <= t /\ t < r[2]
  BY <1>1, <1>2 DEF Within
<1> QED
  BY <1>1, <1>3, <1>4

(* ... one slice more makes one, ...                                      *)
LEMMA FitAppended ==
  ASSUME NEW a, NEW end, Fit(a, end), NEW r \in Nat \X Nat, r[1] < r[2], r[2] <= end, r[2] - r[1] <= Ceiling,
         Len(a) >= 1 => a[Len(a)][1] < r[1] /\ a[Len(a)][2] <= r[2]
  PROVE  /\ Fit(Append(a, r), end) /\ Len(Append(a, r)) = Len(a) + 1 /\ Append(a, r)[Len(a) + 1] = r
         /\ \A t : Within(t, a) \/ (r[1] <= t /\ t < r[2]) => Within(t, Append(a, r))
<1>1. Append(a, r) = a \o <<r>>
  BY FitFacts, AppendIsConcat
<1>2. /\ Fit(<<r>>, end) /\ Len(<<r>>) = 1 /\ <<r>>[1] = r
      /\ \A t : Within(t, <<r>>) <=> r[1] <= t /\ t < r[2]
  BY OneFits
<1> DEFINE b == <<r>>
<1> HIDE DEF b
<1>3. /\ Fit(b, end) /\ Len(b) = 1 /\ b[1] = r
      /\ \A t : Within(t, b) <=> r[1] <= t /\ t < r[2]
  BY <1>2 DEF b
<1>4. /\ Fit(a \o b, end) /\ Len(a \o b) = Len(a) + Len(b)
      /\ (a \o b)[Len(a) + Len(b)] = b[Len(b)]
      /\ \A t : Within(t, a) \/ Within(t, b) => Within(t, a \o b)
  <2>1. Len(a) >= 1 => a[Len(a)][1] < b[1][1] /\ a[Len(a)][2] <= b[1][2]
    BY <1>3
  <2>2. Len(b) >= 1 /\ Fit(b, end)
    BY <1>3
  <2> QED
    BY <2>1, <2>2, FitJoined
<1> QED
  BY <1>1, <1>3, <1>4 DEF b

(* ... and without its last slice a list fits, too.                       *)
LEMMA FitWithoutLast ==
  ASSUME NEW a \in Seq(Nat \X Nat), NEW r \in Nat \X Nat, NEW end, Fit(Append(a, r), end)
  PROVE  /\ Fit(a, end) /\ Len(a) \in Nat /\ r[1] < r[2] /\ r[2] <= end
         /\ Len(a) >= 1 => a[Len(a)][1] < r[1] /\ a[Len(a)][2] <= r[2]
         /\ Len(Append(a, r)) = Len(a) + 1 /\ Append(a, r)[Len(a) + 1] = r
         /\ \A t : Within(t, Append(a, r)) => Within(t, a) \/ (r[1] <= t /\ t < r[2])
<1> DEFINE m == Len(a)
           c == Append(a, r)
<1>1. /\ m \in Nat /\ Len(c) = m + 1 /\ c[m + 1] = r
      /\ \A i \in 1 .. m : c[i] = a[i]
  BY LenProperties, AppendProperties
<1> HIDE DEF c
<1>2. Fit(c, end)
  BY DEF c
<1>3. \A i \in 1 .. m : i \in 1 .. Len(c)
  BY <1>1
<1>4. \A i \in 1 .. (m - 1) : i \in 1 .. m /\ i + 1 \in 1 .. m /\ i \in 1 .. (Len(c) - 1)
  BY <1>1
<1>5. Fit(a, end)
  <2>1. \A i \in 1 .. m : a[i][1] < a[i][2] /\ a[i][2] <= end /\ a[i][2] - a[i][1] <= Ceiling
    BY <1>1, <1>2, <1>3 DEF Fit
  <2>2. \A i \in 1 .. (m - 1) : a[i][1] < a[i + 1][1] /\ a[i][2] <= a[i + 1][2]
    <3> TAKE i \in 1 .. (m - 1)
    <3>1. c[i] = a[i] /\ c[i + 1] = a[i + 1]
      BY <1>1, <1>4
    <3> QED
      BY <1>2, <1>4, <3>1 DEF Fit
  <2> QED
    BY <2>1, <2>2 DEF Fit
<1>6. r[1] < r[2] /\ r[2] <= end
  BY <1>1, <1>2 DEF Fit
<1>7. m >= 1 => a[m][1] < r[1] /\ a[m][2] <= r[2]
  <2> SUFFICES ASSUME m >= 1 PROVE a[m][1] < r[1] /\ a[m][2] <= r[2]
    OBVIOUS
  <2>1. m \in 1 .. (Len(c) - 1) /\ m \in 1 .. m
    BY <1>1
  <2> QED
    BY <1>1, <1>2, <2>1 DEF Fit
<1>8. \A t : Within(t, c) => Within(t, a) \/ (r[1] <= t /\ t < r[2])
  <2> TAKE t
  <2> HAVE Within(t, c)
  <2>1. PICK k \in 1 .. Len(c) : c[k][1] <= t /\ t < c[k][2]
    BY DEF Within
  <2>2. k \in 1 .. m \/ k = m + 1
    BY <1>1
  <2> QED
    BY <1>1, <2>1, <2>2 DEF Within
<1> QED
  BY <1>1, <1>5, <1>6, <1>7, <1>8 DEF c

(* What a list covers is covered by one that has more in it.              *)
LEMMA CoversKept ==
  ASSUME NEW a, NEW b, NEW from \in Nat, NEW to \in Nat, Covers(a, from, to),
         \A t \in Nat : Within(t, a) => Within(t, b)
  PROVE  Covers(b, from, to)
<1>1. \A t \in from .. (to - 1) : t \in Nat
  OBVIOUS
<1> QED
  BY <1>1 DEF Covers

(* Nothing is left out when every tick is in a slice.                     *)
LEMMA WholeIsCovered ==
  ASSUME overlap \in Nat, NEW list, NEW from \in Nat, NEW to \in Nat,
         \A t \in Nat : from <= t /\ t < to => Within(t, list)
  PROVE  Covers(list, from, to)
<1>1. AtMost(Lap) >= 0
  BY LapFacts DEF AtMost, Higher
<1>2. \A t \in from .. (to - 1) : t \in Nat /\ from <= t /\ t < to
  OBVIOUS
<1> USE DEF Covers
<1> WITNESS from \in Nat, from \in Nat
<1> QED
  BY <1>1, <1>2

(* What a request is: a clip and what the VAD said of it.                 *)
RequestOK ==
  /\ clip \in Nat /\ overlap \in Nat /\ spans \in Seq(Nat \X Nat)
  /\ \A i \in DOMAIN spans : spans[i][1] < spans[i][2] /\ spans[i][2] <= clip
  /\ \A i \in DOMAIN spans, j \in DOMAIN spans : i < j =>
       spans[i][2] <= spans[j][1] /\ spans[i][1] + Pad < spans[j][1]

(* A region is its span with a margin within the clip. Regions go forward *)
(* as the spans do, and overlap by two margins at most.                   *)
LEMMA RegionFacts ==
  ASSUME RequestOK
  PROVE  /\ \A i \in DOMAIN spans :
              /\ spans[i][1] \in Nat /\ spans[i][2] \in Nat /\ spans[i][1] < spans[i][2] /\ spans[i][2] <= clip
              /\ Region(i) \in Nat \X Nat
              /\ Region(i)[1] <= spans[i][1] /\ spans[i][2] <= Region(i)[2] /\ Region(i)[2] <= clip
              /\ Region(i)[2] <= spans[i][2] + Pad
              /\ Pad <= spans[i][1] => Region(i)[1] + Pad = spans[i][1]
         /\ \A i \in DOMAIN spans, j \in DOMAIN spans : i < j =>
              /\ Region(i)[1] < Region(j)[1] /\ Region(i)[2] <= Region(j)[2]
              /\ Region(i)[2] <= Region(j)[1] + 2 * Pad
<1>1. Pad \in Nat /\ clip \in Nat
  BY LapFacts DEF RequestOK
<1>2. \A i \in DOMAIN spans : spans[i] \in Nat \X Nat
  BY ElementOfSeq, LenProperties DEF RequestOK
<1>3. \A i \in DOMAIN spans : /\ spans[i][1] \in Nat /\ spans[i][2] \in Nat
                              /\ spans[i][1] < spans[i][2] /\ spans[i][2] <= clip
  BY <1>2 DEF RequestOK
<1>4. \A i \in DOMAIN spans, j \in DOMAIN spans : i < j =>
        spans[i][2] <= spans[j][1] /\ spans[i][1] + Pad < spans[j][1]
  BY DEF RequestOK
<1>5. ASSUME NEW i \in DOMAIN spans
      PROVE  /\ Region(i)[1] = IF spans[i][1] > Pad THEN spans[i][1] - Pad ELSE 0
             /\ Region(i)[2] = IF clip < spans[i][2] + Pad THEN clip ELSE spans[i][2] + Pad
             /\ Region(i) = <<Region(i)[1], Region(i)[2]>>
  BY <1>1, <1>3 DEF Region, Higher, Lower
<1>6. ASSUME NEW i \in DOMAIN spans
      PROVE  /\ Region(i) \in Nat \X Nat
             /\ Region(i)[1] <= spans[i][1] /\ spans[i][2] <= Region(i)[2] /\ Region(i)[2] <= clip
             /\ Region(i)[2] <= spans[i][2] + Pad
             /\ Pad <= spans[i][1] => Region(i)[1] + Pad = spans[i][1]
  <2> DEFINE s == spans[i][1]
             e == spans[i][2]
             r == Region(i)
  <2>1. s \in Nat /\ e \in Nat /\ s < e /\ e <= clip
    BY <1>3
  <2>2. /\ r[1] = IF s > Pad THEN s - Pad ELSE 0
        /\ r[2] = IF clip < e + Pad THEN clip ELSE e + Pad
        /\ r = <<r[1], r[2]>>
    BY <1>5
  <2> HIDE DEF s, e, r
  <2>3. r[1] \in Nat /\ r[2] \in Nat
    BY <1>1, <2>1, <2>2
  <2>4. r \in Nat \X Nat
    BY <2>2, <2>3
  <2>5. r[1] <= s /\ e <= r[2] /\ r[2] <= clip /\ r[2] <= e + Pad /\ (Pad <= s => r[1] + Pad = s)
    BY <1>1, <2>1, <2>2
  <2> QED
    BY <2>4, <2>5 DEF s, e, r
<1>7. ASSUME NEW i \in DOMAIN spans, NEW j \in DOMAIN spans, i < j
      PROVE  /\ Region(i)[1] < Region(j)[1] /\ Region(i)[2] <= Region(j)[2]
             /\ Region(i)[2] <= Region(j)[1] + 2 * Pad
  <2> DEFINE s == spans[i][1]
             e == spans[i][2]
             r == Region(i)
             s2 == spans[j][1]
             e2 == spans[j][2]
             r2 == Region(j)
  <2>1. s \in Nat /\ e \in Nat /\ s < e /\ e <= clip /\ s2 \in Nat /\ e2 \in Nat /\ s2 < e2 /\ e2 <= clip
        /\ e <= s2 /\ s + Pad < s2
    BY <1>3, <1>4, <1>7
  <2>2. /\ r[1] = IF s > Pad THEN s - Pad ELSE 0
        /\ r[2] = IF clip < e + Pad THEN clip ELSE e + Pad
        /\ r2[1] = IF s2 > Pad THEN s2 - Pad ELSE 0
        /\ r2[2] = IF clip < e2 + Pad THEN clip ELSE e2 + Pad
    BY <1>5
  <2> HIDE DEF s, e, r, s2, e2, r2
  <2>3. r[1] < r2[1] /\ r[2] <= r2[2] /\ r[2] <= r2[1] + 2 * Pad
    BY <1>1, <2>1, <2>2
  <2> QED
    BY <2>3 DEF r, r2
<1> QED
  BY <1>3, <1>6, <1>7

(* A region that does not fit the engine: its slices, moved to where it   *)
(* begins.                                                                *)
LEMMA CutFits ==
  ASSUME RequestOK, NEW r \in Nat \X Nat, r[2] - r[1] > Ceiling, r[2] <= clip
  PROVE  /\ Fit(Cut(r), clip) /\ Len(Cut(r)) >= 1
         /\ r[1] <= Cut(r)[1][1] /\ r[1] + Ceiling <= Cut(r)[1][2]
         /\ Cut(r)[Len(Cut(r))][2] = r[2] /\ Cut(r)[Len(Cut(r))][1] + MinTail <= r[2]
         /\ Covers(Cut(r), r[1], r[2])
<1> DEFINE o == r[1]
           length == r[2] - r[1]
           b == FixedSegmentBounds(length, Ceiling, overlap)
           c == [k \in DOMAIN b |-> <<o + b[k][1], o + b[k][2]>>]
<1>1. /\ o \in Nat /\ length \in Nat /\ length > Ceiling /\ overlap \in Nat /\ r[2] = o + length
      /\ Ceiling \in Nat /\ MinTail \in Nat /\ clip \in Nat /\ o + length <= clip
  BY LapFacts DEF RequestOK
<1>2. Cut(r) = c
  BY DEF Cut
<1> HIDE DEF o, length
<1>0. o \in Nat /\ length \in Nat
  BY <1>1
<1>3. SlicesOf(b, length)
  BY <1>1, FixedSlices
<1> HIDE DEF b
<1>4. /\ Fit(b, length) /\ Len(b) >= 1 /\ b[1][2] >= Ceiling
      /\ b[Len(b)][2] = length /\ b[Len(b)][1] + MinTail <= length
      /\ Covers(b, 0, length)
  BY <1>3 DEF SlicesOf
<1> DEFINE n == Len(b)
<1>5. /\ b \in Seq(Nat \X Nat) /\ n \in Nat /\ n >= 1 /\ DOMAIN b = 1 .. n
      /\ \A k \in 1 .. n : b[k][1] \in Nat /\ b[k][2] \in Nat
  BY <1>4, FitFacts, LenProperties
<1>6. /\ c \in Seq(Nat \X Nat) /\ Len(c) = n
      /\ \A k \in 1 .. n : c[k] = <<o + b[k][1], o + b[k][2]>>
  <2> HIDE DEF n
  <2>1. \A k \in 1 .. n : <<o + b[k][1], o + b[k][2]>> \in Nat \X Nat
    <3> TAKE k \in 1 .. n
    <3>1. b[k][1] \in Nat /\ b[k][2] \in Nat
      BY <1>5
    <3>2. o + b[k][1] \in Nat /\ o + b[k][2] \in Nat
      BY <1>0, <3>1
    <3> QED
      BY <3>2
  <2> QED
    BY <1>5, <2>1
<1> HIDE DEF c
<1>7. \A k \in 1 .. n : c[k][1] = o + b[k][1] /\ c[k][2] = o + b[k][2]
  BY <1>6
<1>8. Fit(c, clip)
  <2>1. \A i \in 1 .. n : c[i][1] < c[i][2] /\ c[i][2] <= clip /\ c[i][2] - c[i][1] <= Ceiling
    <3> TAKE i \in 1 .. n
    <3>1. b[i][1] < b[i][2] /\ b[i][2] <= length /\ b[i][2] - b[i][1] <= Ceiling
      BY <1>4, FitFacts
    <3>2. /\ b[i][1] \in Nat /\ b[i][2] \in Nat
          /\ c[i][1] = o + b[i][1] /\ c[i][2] = o + b[i][2]
      BY <1>5, <1>7
    <3> DEFINE u == b[i][1]
               v == b[i][2]
    <3>3. /\ u \in Nat /\ v \in Nat /\ u < v /\ v <= length /\ v - u <= Ceiling
          /\ c[i][1] = o + u /\ c[i][2] = o + v
      BY <3>1, <3>2
    <3> HIDE DEF u, v
    <3> QED
      BY <1>1, <3>3
  <2>2. \A i \in 1 .. (n - 1) : c[i][1] < c[i + 1][1] /\ c[i][2] <= c[i + 1][2]
    <3> TAKE i \in 1 .. (n - 1)
    <3>1. b[i][1] < b[i + 1][1] /\ b[i][2] <= b[i + 1][2]
      BY <1>4, FitFacts
    <3> HIDE DEF n
    <3>2. i \in 1 .. n /\ i + 1 \in 1 .. n
      BY <1>5
    <3>3. /\ b[i][1] \in Nat /\ b[i][2] \in Nat /\ b[i + 1][1] \in Nat /\ b[i + 1][2] \in Nat
          /\ c[i][1] = o + b[i][1] /\ c[i + 1][1] = o + b[i + 1][1]
          /\ c[i][2] = o + b[i][2] /\ c[i + 1][2] = o + b[i + 1][2]
      BY <1>5, <1>7, <3>2
    <3> QED
      BY <1>1, <3>1, <3>3
  <2> QED
    BY <1>6, <2>1, <2>2 DEF Fit
<1>9. /\ Len(c) >= 1 /\ o <= c[1][1] /\ o + Ceiling <= c[1][2]
      /\ c[Len(c)][2] = o + length /\ c[Len(c)][1] + MinTail <= o + length
  <2>1. 1 \in 1 .. n /\ n \in 1 .. n
    BY <1>5
  <2>2. /\ c[1][1] = o + b[1][1] /\ c[1][2] = o + b[1][2] /\ c[n][1] = o + b[n][1] /\ c[n][2] = o + b[n][2]
        /\ b[1][1] \in Nat /\ b[1][2] \in Nat /\ b[n][1] \in Nat /\ b[n][2] \in Nat
    BY <1>5, <1>7, <2>1
  <2>3. b[1][2] >= Ceiling /\ b[n][2] = length /\ b[n][1] + MinTail <= length
    BY <1>4
  <2>4. /\ o <= c[1][1] /\ o + Ceiling <= c[1][2]
        /\ c[n][2] = o + length /\ c[n][1] + MinTail <= o + length
    <3> HIDE DEF n
    <3> QED
      BY <1>1, <2>2, <2>3
  <2> QED
    BY <1>5, <1>6, <2>4
<1>10. Covers(c, o, o + length)
  <2>1. PICK x \in Nat, y \in Nat :
          /\ 0 <= x /\ x <= y /\ y - x <= AtMost(Lap)
          /\ x = y \/ y + MinTail <= length
          /\ x = 0 \/ y - x <= AtMost(2 * Lap)
          /\ \A t \in 0 .. (length - 1) : (x <= t /\ t < y) \/ Within(t, b)
    BY <1>4 DEF Covers
  <2>2. o + x \in Nat /\ o + y \in Nat /\ (o + y) - (o + x) = y - x
    BY <1>1
  <2>3. \A t \in o .. ((o + length) - 1) : (o + x <= t /\ t < o + y) \/ Within(t, c)
    <3> TAKE t \in o .. ((o + length) - 1)
    <3>1. t - o \in 0 .. (length - 1)
      BY <1>1
    <3>2. CASE x <= t - o /\ t - o < y
      BY <1>1, <3>2
    <3>3. CASE Within(t - o, b)
      <4>1. PICK k \in 1 .. n : b[k][1] <= t - o /\ t - o < b[k][2]
        BY <3>3 DEF Within
      <4>2. c[k][1] = o + b[k][1] /\ c[k][2] = o + b[k][2] /\ b[k][1] \in Nat /\ b[k][2] \in Nat
        BY <1>5, <1>7, <4>1
      <4>3. c[k][1] <= t /\ t < c[k][2]
        BY <1>0, <4>1, <4>2, SMTT(30)
      <4> QED
        BY <1>6, <4>1, <4>3 DEF Within
    <3> QED
      BY <2>1, <3>1, <3>2, <3>3
  <2>4. /\ o <= o + x /\ o + x <= o + y /\ (o + y) - (o + x) <= AtMost(Lap)
        /\ o + x = o + y \/ (o + y) + MinTail <= o + length
        /\ o + x = o \/ (o + y) - (o + x) <= AtMost(2 * Lap)
    BY <1>1, <2>1, <2>2
  <2> DEFINE u == o + x
             v == o + y
             to == o + length
  <2>5. /\ u \in Nat /\ v \in Nat /\ to \in Nat
        /\ o <= u /\ u <= v /\ v - u <= AtMost(Lap)
        /\ u = v \/ v + MinTail <= to
        /\ u = o \/ v - u <= AtMost(2 * Lap)
    BY <1>0, <2>2, <2>4
  <2>6. \A t \in o .. (to - 1) : (u <= t /\ t < v) \/ Within(t, c)
    BY <2>3
  <2> HIDE DEF u, v, to
  <2>7. Covers(c, o, to)
    <3> USE <2>5 DEF Covers
    <3> WITNESS u \in Nat, v \in Nat
    <3> QED
      BY <2>6
  <2> QED
    BY <2>7 DEF to
<1> QED
  BY <1>1, <1>2, <1>8, <1>9, <1>10 DEF o, length

(* What has been packed of the first i spans covers them, ...             *)
Covered(list, i) == \A j \in Heard : j <= i => Covers(list, Region(j)[1], Region(j)[2])
(* ... what is packed last begins before the regions to come, which it    *)
(* shares two margins with at most, ...                                   *)
Behind(list, i) ==
  Len(list) >= 1 =>
    \A j \in Heard : i < j => /\ list[Len(list)][1] < Region(j)[1]
                              /\ list[Len(list)][2] <= Region(j)[2]
                              /\ list[Len(list)][2] <= Region(j)[1] + 2 * Pad
(* ... and all of it fits.                                                *)
PackedSoFar(acc, i) ==
  /\ acc = [out |-> acc.out, open |-> acc.open]
  /\ acc.out \in Seq(Nat \X Nat) /\ (acc.open = <<>> \/ acc.open \in Nat \X Nat)
  /\ Fit(Flushed(acc), clip)
  /\ Behind(Flushed(acc), i)
  /\ Covered(Flushed(acc), i)

(* A pair is not the empty sequence, by which "no open region" is told.   *)
LEMMA PairIsNotEmpty == \A p \in Nat \X Nat : p # <<>>
<1>1. \A p \in Nat \X Nat : Len(p) = 2
  OBVIOUS
<1>2. Len(<<>>) = 0
  OBVIOUS
<1> QED
  BY <1>1, <1>2

(* The spans that are long enough.                                        *)
LEMMA HeardFacts ==
  ASSUME RequestOK
  PROVE  /\ Heard \subseteq DOMAIN spans /\ DOMAIN spans = 1 .. Len(spans) /\ Len(spans) \in Nat
         /\ \A i \in Heard : /\ Region(i) \in Nat \X Nat /\ Region(i)[1] \in Nat /\ Region(i)[2] \in Nat
                             /\ Region(i)[1] < Region(i)[2] /\ Region(i)[2] <= clip
         /\ \A i, j \in Heard : i < j => /\ Region(i)[1] < Region(j)[1] /\ Region(i)[2] <= Region(j)[2]
                                         /\ Region(i)[2] <= Region(j)[1] + 2 * Pad
<1>1. DOMAIN spans = 1 .. Len(spans) /\ Len(spans) \in Nat
  BY LenProperties DEF RequestOK
<1>2. Heard \subseteq DOMAIN spans
  BY DEF Heard
<1>3. ASSUME NEW i \in Heard
      PROVE  /\ Region(i) \in Nat \X Nat /\ Region(i)[1] \in Nat /\ Region(i)[2] \in Nat
             /\ Region(i)[1] < Region(i)[2] /\ Region(i)[2] <= clip
  <2>1. /\ spans[i][1] \in Nat /\ spans[i][2] \in Nat /\ spans[i][1] < spans[i][2]
        /\ Region(i) \in Nat \X Nat
        /\ Region(i)[1] <= spans[i][1] /\ spans[i][2] <= Region(i)[2] /\ Region(i)[2] <= clip
    BY <1>2, RegionFacts
  <2>2. Region(i)[1] \in Nat /\ Region(i)[2] \in Nat
    BY <2>1
  <2> QED
    BY <2>1, <2>2
<1>4. \A i, j \in Heard : i < j => /\ Region(i)[1] < Region(j)[1] /\ Region(i)[2] <= Region(j)[2]
                                   /\ Region(i)[2] <= Region(j)[1] + 2 * Pad
  BY <1>2, RegionFacts
<1> QED
  BY <1>1, <1>2, <1>3, <1>4

(* A span more is covered.                                                *)
LEMMA CoveredKept ==
  ASSUME RequestOK, NEW a, NEW b, NEW i \in Nat, Covered(a, i - 1),
         \A t \in Nat : Within(t, a) => Within(t, b),
         Covers(b, Region(i)[1], Region(i)[2])
  PROVE  Covered(b, i)
<1> SUFFICES ASSUME NEW j \in Heard, j <= i PROVE Covers(b, Region(j)[1], Region(j)[2])
  BY DEF Covered
<1>1. CASE j = i
  BY <1>1
<1>2. CASE j # i
  <2>1. j <= i - 1
    BY <1>2, HeardFacts
  <2>2. Covers(a, Region(j)[1], Region(j)[2])
    BY <2>1 DEF Covered
  <2> QED
    BY <2>2, HeardFacts, CoversKept
<1> QED
  BY <1>1, <1>2

(* One region more (group_regions): packed with the open one, cut, or     *)
(* opened itself. The last slice of a region that was cut begins before   *)
(* the next region, as MinTail is longer than two margins.                *)
LEMMA PackStep ==
  ASSUME RequestOK, NEW i \in Heard, NEW acc, PackedSoFar(acc, i - 1)
  PROVE  PackedSoFar(Pack(acc, Region(i)), i)
<1> DEFINE r == Region(i)
           a == Flushed(acc)
           m == Len(a)
<1>1. /\ i \in Nat /\ r \in Nat \X Nat /\ r[1] \in Nat /\ r[2] \in Nat /\ r[1] < r[2] /\ r[2] <= clip
      /\ \A j \in Heard : i < j => /\ r[1] < Region(j)[1] /\ r[2] <= Region(j)[2] /\ r[2] <= Region(j)[1] + 2 * Pad
      /\ \A j \in Heard : Region(j)[1] \in Nat /\ Region(j)[2] \in Nat
  BY HeardFacts
<1>2. /\ Ceiling \in Nat /\ MinTail \in Nat /\ Pad \in Nat /\ 2 * Pad < MinTail /\ MinTail < Ceiling /\ clip \in Nat
      /\ overlap \in Nat
  BY LapFacts DEF RequestOK
<1>3. /\ acc.out \in Seq(Nat \X Nat) /\ (acc.open = <<>> \/ acc.open \in Nat \X Nat)
      /\ Fit(a, clip) /\ Behind(a, i - 1) /\ Covered(a, i - 1)
  BY DEF PackedSoFar
<1>4. a \in Seq(Nat \X Nat) /\ m \in Nat
  BY <1>3, FitFacts
<1>5. m >= 1 => /\ a[m][1] < r[1] /\ a[m][2] <= r[2] /\ a[m][2] <= r[1] + 2 * Pad
                /\ a[m][1] \in Nat /\ a[m][2] \in Nat
  <2> SUFFICES ASSUME m >= 1
               PROVE  /\ a[m][1] < r[1] /\ a[m][2] <= r[2] /\ a[m][2] <= r[1] + 2 * Pad
                      /\ a[m][1] \in Nat /\ a[m][2] \in Nat
    OBVIOUS
  <2>1. i - 1 < i
    BY <1>1
  <2>2. a[m][1] < r[1] /\ a[m][2] <= r[2] /\ a[m][2] <= r[1] + 2 * Pad
    BY <1>3, <2>1 DEF Behind
  <2>3. m \in 1 .. m
    BY <1>4
  <2> QED
    BY <1>3, <2>2, <2>3, FitFacts
<1>6. Flushed([out |-> a, open |-> r]) = Append(a, r)
  BY <1>1, PairIsNotEmpty DEF Flushed
<1> DEFINE new == Pack(acc, r)
<1>7. CASE r[2] - r[1] > Ceiling
  <2> DEFINE c == Cut(r)
             b == a \o c
             n == Len(c)
  <2>1. new = [out |-> b, open |-> <<>>]
    BY <1>1, <1>2, <1>7 DEF Pack
  <2>2. /\ Fit(c, clip) /\ n >= 1 /\ r[1] <= c[1][1] /\ r[1] + Ceiling <= c[1][2]
        /\ c[n][2] = r[2] /\ c[n][1] + MinTail <= r[2]
        /\ Covers(c, r[1], r[2])
    BY <1>1, <1>7, CutFits
  <2> HIDE DEF c, a
  <2>3. n \in Nat /\ 1 \in 1 .. n /\ n \in 1 .. n /\ \A k \in 1 .. n : c[k][1] \in Nat /\ c[k][2] \in Nat
    BY <2>2, FitFacts
  <2>4. m >= 1 => a[m][1] < c[1][1] /\ a[m][2] <= c[1][2]
    <3> SUFFICES ASSUME m >= 1 PROVE a[m][1] < c[1][1] /\ a[m][2] <= c[1][2]
      OBVIOUS
    <3> DEFINE u == c[1][1]
               v == c[1][2]
               x == a[m][1]
               y == a[m][2]
               lo == r[1]
    <3>1. /\ u \in Nat /\ v \in Nat /\ x \in Nat /\ y \in Nat /\ lo \in Nat
          /\ lo <= u /\ lo + Ceiling <= v /\ x < lo /\ y <= lo + 2 * Pad
      BY <1>1, <1>5, <2>2, <2>3
    <3> HIDE DEF u, v, x, y, lo
    <3>2. x < u /\ y <= v
      BY <1>2, <3>1
    <3> QED
      BY <3>2 DEF u, v, x, y
  <2>5. /\ Fit(b, clip) /\ Len(b) = m + n /\ b[m + n] = c[n]
        /\ \A t : Within(t, a) \/ Within(t, c) => Within(t, b)
    BY <1>3, <2>2, <2>4, FitJoined
  <2> HIDE DEF b, r
  <2>6. Flushed(new) = b
    BY <2>1 DEF Flushed
  <2>7. Covered(b, i)
    <3>1. Covers(b, r[1], r[2])
      BY <1>1, <2>2, <2>5, CoversKept
    <3>2. \A t : Within(t, a) => Within(t, b)
      BY <2>5
    <3> QED
      BY <1>1, <1>3, <3>1, <3>2, CoveredKept DEF r
  <2>8. Behind(b, i)
    <3> SUFFICES ASSUME NEW j \in Heard, i < j
                 PROVE  /\ b[Len(b)][1] < Region(j)[1] /\ b[Len(b)][2] <= Region(j)[2]
                        /\ b[Len(b)][2] <= Region(j)[1] + 2 * Pad
      BY DEF Behind
    <3>1. b[Len(b)] = c[n]
      BY <2>5
    <3> DEFINE lo == Region(j)[1]
               hi == Region(j)[2]
               u == c[n][1]
               v == c[n][2]
    <3>2. /\ r[2] <= hi /\ r[2] <= lo + 2 * Pad /\ lo \in Nat /\ hi \in Nat /\ u \in Nat /\ v \in Nat
          /\ v = r[2] /\ u + MinTail <= v
      BY <1>1, <2>2, <2>3
    <3> HIDE DEF lo, hi, u, v
    <3>3. u < lo /\ v <= hi /\ v <= lo + 2 * Pad
      BY <1>2, <3>2
    <3> QED
      BY <3>1, <3>3 DEF lo, hi, u, v
  <2>9. b \in Seq(Nat \X Nat)
    BY <2>5, FitFacts
  <2> QED
    BY <2>1, <2>5, <2>6, <2>7, <2>8, <2>9 DEF PackedSoFar, r
<1>8. ASSUME r[2] - r[1] <= Ceiling, new = [out |-> a, open |-> r]
      PROVE  PackedSoFar(new, i)
  <2> DEFINE b == Append(a, r)
  <2>1. Flushed(new) = b
    BY <1>6, <1>8
  <2> HIDE DEF a, r
  <2>2. /\ Fit(b, clip) /\ Len(b) = m + 1 /\ b[m + 1] = r
        /\ \A t : Within(t, a) \/ (r[1] <= t /\ t < r[2]) => Within(t, b)
    BY <1>1, <1>3, <1>5, <1>8, FitAppended
  <2> HIDE DEF b
  <2>3. Covers(b, r[1], r[2])
    BY <1>1, <1>2, <2>2, WholeIsCovered
  <2>4. Covered(b, i)
    <3>1. \A t : Within(t, a) => Within(t, b)
      BY <2>2
    <3> QED
      BY <1>1, <1>3, <2>3, <3>1, CoveredKept DEF r
  <2>5. Behind(b, i)
    BY <1>1, <2>2 DEF Behind
  <2> QED
    BY <1>1, <1>4, <1>8, <2>1, <2>2, <2>4, <2>5 DEF PackedSoFar
<1>9. CASE r[2] - r[1] <= Ceiling /\ acc.open # <<>> /\ r[2] - acc.open[1] <= Ceiling
  <2> DEFINE o == acc.open
             s == <<o[1], r[2]>>
             b == Append(acc.out, s)
             k == Len(acc.out)
  <2>1. new = [out |-> acc.out, open |-> s]
    BY <1>1, <1>2, <1>9 DEF Pack
  <2>2. o \in Nat \X Nat /\ o[1] \in Nat /\ o[2] \in Nat /\ o = <<o[1], o[2]>> /\ a = Append(acc.out, o)
    BY <1>3, <1>9 DEF Flushed
  <2> HIDE DEF a, o
  <2>3. /\ Fit(acc.out, clip) /\ k \in Nat /\ o[1] < o[2] /\ o[2] <= clip
        /\ k >= 1 => acc.out[k][1] < o[1] /\ acc.out[k][2] <= o[2]
        /\ m = k + 1 /\ a[m] = o
        /\ \A t : Within(t, a) => Within(t, acc.out) \/ (o[1] <= t /\ t < o[2])
    BY <1>3, <2>2, FitWithoutLast
  <2>4. o[1] < r[1] /\ o[2] <= r[2]
    BY <1>5, <2>3
  <2> HIDE DEF r
  <2>5. s \in Nat \X Nat /\ s[1] = o[1] /\ s[2] = r[2] /\ s[1] < s[2] /\ s[2] <= clip /\ s[2] - s[1] <= Ceiling
        /\ s # <<>>
    <3>1. s \in Nat \X Nat /\ s[1] = o[1] /\ s[2] = r[2]
      BY <1>1, <2>2
    <3>2. r[2] - o[1] <= Ceiling
      BY <1>9 DEF o
    <3>3. o[1] < r[2]
      BY <1>1, <2>2, <2>4
    <3> QED
      BY <1>1, <3>1, <3>2, <3>3, PairIsNotEmpty
  <2> HIDE DEF s
  <2>6. k >= 1 => acc.out[k][1] < s[1] /\ acc.out[k][2] <= s[2]
    <3> SUFFICES ASSUME k >= 1 PROVE acc.out[k][1] < s[1] /\ acc.out[k][2] <= s[2]
      OBVIOUS
    <3>1. acc.out[k][2] <= o[2] /\ o[2] <= r[2] /\ acc.out[k][1] < o[1]
      BY <2>3, <2>4
    <3>2. k \in 1 .. k
      BY <2>3
    <3>3. acc.out[k][2] \in Nat
      BY <2>3, <3>2, FitFacts
    <3> QED
      BY <1>1, <2>2, <2>5, <3>1, <3>3
  <2>7. /\ Fit(b, clip) /\ Len(b) = k + 1 /\ b[k + 1] = s
        /\ \A t : Within(t, acc.out) \/ (s[1] <= t /\ t < s[2]) => Within(t, b)
    BY <2>3, <2>5, <2>6, FitAppended
  <2> HIDE DEF b
  <2>8. \A t \in Nat : Within(t, a) => Within(t, b)
    <3> TAKE t \in Nat
    <3> HAVE Within(t, a)
    <3>1. CASE Within(t, acc.out)
      BY <2>7, <3>1
    <3>2. CASE o[1] <= t /\ t < o[2]
      <4>1. s[1] <= t /\ t < s[2]
        BY <1>1, <2>2, <2>4, <2>5, <3>2
      <4> QED
        BY <2>7, <4>1
    <3> QED
      BY <2>3, <3>1, <3>2
  <2>9. Covers(b, r[1], r[2])
    <3>1. \A t \in Nat : r[1] <= t /\ t < r[2] => s[1] <= t /\ t < s[2]
      BY <1>1, <2>2, <2>4, <2>5
    <3> QED
      BY <1>1, <1>2, <2>7, <3>1, WholeIsCovered
  <2>10. Covered(b, i)
    BY <1>1, <1>3, <2>8, <2>9, CoveredKept DEF r
  <2>11. Behind(b, i)
    <3> SUFFICES ASSUME NEW j \in Heard, i < j
                 PROVE  /\ b[Len(b)][1] < Region(j)[1] /\ b[Len(b)][2] <= Region(j)[2]
                        /\ b[Len(b)][2] <= Region(j)[1] + 2 * Pad
      BY DEF Behind
    <3>1. b[Len(b)][1] = o[1] /\ b[Len(b)][2] = r[2]
      BY <2>5, <2>7
    <3>2. r[1] < Region(j)[1] /\ Region(j)[1] \in Nat
      BY <1>1
    <3> QED
      BY <1>1, <2>2, <2>4, <3>1, <3>2
  <2>12. Flushed(new) = b
    BY <2>1, <2>5 DEF Flushed, b
  <2>13. new = [out |-> new.out, open |-> new.open] /\ new.out = acc.out /\ new.open = s
    BY <2>1
  <2>14. new.out \in Seq(Nat \X Nat) /\ (new.open = <<>> \/ new.open \in Nat \X Nat)
    BY <1>3, <2>5, <2>13
  <2>15. Fit(Flushed(new), clip) /\ Behind(Flushed(new), i) /\ Covered(Flushed(new), i)
    BY <2>7, <2>10, <2>11, <2>12
  <2> HIDE DEF new
  <2>16. PackedSoFar(new, i)
    BY <2>13, <2>14, <2>15 DEF PackedSoFar
  <2> QED
    BY <2>16 DEF new, r
<1>10. CASE r[2] - r[1] <= Ceiling /\ ~(acc.open # <<>> /\ r[2] - acc.open[1] <= Ceiling)
  <2>1. new = [out |-> a, open |-> r]
    BY <1>1, <1>2, <1>10 DEF Pack
  <2> QED
    BY <1>8, <1>10, <2>1
<1>11. r[2] - r[1] > Ceiling \/ r[2] - r[1] <= Ceiling
  BY <1>1, <1>2
<1> QED
  BY <1>7, <1>9, <1>10, <1>11

(* One step of the packing, ...                                           *)
PackOne(g, i) ==
  IF i = 0 THEN [out |-> <<>>, open |-> <<>>]
  ELSE IF i \in Heard THEN Pack(g[i - 1], Region(i)) ELSE g[i - 1]
(* ... and a packing of the first n spans.                                *)
Packing(g, n) == g = [i \in 0 .. n |-> PackOne(g, i)]

(* There is a packing of any number of spans: a first number without one  *)
(* would be one more than that of another.                                *)
LEMMA PackingExists ==
  ASSUME NEW n \in Nat
  PROVE  \E g : Packing(g, n)
<1> DEFINE T == {k \in 0 .. n : ~ \E g : Packing(g, k)}
<1>1. SUFFICES ASSUME T # {} PROVE FALSE
  BY n \in 0 .. n
<1>2. T \in SUBSET Nat
  OBVIOUS
<1>3. PICK k \in T : \A j \in T : k <= j
  <2> HIDE DEF T
  <2> QED
    BY <1>1, <1>2, LeastNumber
<1>4. k \in 0 .. n /\ ~ \E g : Packing(g, k)
  BY <1>3
<1>5. \A j \in 0 .. n : j < k => \E g : Packing(g, j)
  <2> TAKE j \in 0 .. n
  <2> HAVE j < k
  <2>1. j \notin T
    BY <1>3, <1>4
  <2> QED
    BY <2>1
<1> HIDE DEF T
<1>6. CASE k = 0
  <2> DEFINE g == [i \in 0 .. 0 |-> [out |-> <<>>, open |-> <<>>]]
  <2>1. g = [i \in 0 .. 0 |-> PackOne(g, i)]
    <3>1. \A i \in 0 .. 0 : PackOne(g, i) = [out |-> <<>>, open |-> <<>>]
      BY DEF PackOne
    <3> QED
      BY <3>1
  <2> HIDE DEF g
  <2>2. Packing(g, k)
    BY <1>6, <2>1 DEF Packing
  <2> QED
    BY <1>4, <2>2
<1>7. CASE k # 0
  <2>1. k - 1 \in 0 .. n /\ k - 1 < k
    BY <1>4, <1>7
  <2>2. PICK h : Packing(h, k - 1)
    BY <1>5, <2>1
  <2>3. h = [i \in 0 .. (k - 1) |-> PackOne(h, i)]
    BY <2>2 DEF Packing
  <2> DEFINE g == [i \in 0 .. k |-> IF i = k THEN PackOne(h, k) ELSE h[i]]
  <2>4. \A i \in 0 .. k : (i = k \/ i \in 0 .. (k - 1)) /\ (i # 0 => i - 1 \in 0 .. (k - 1) /\ i - 1 # k)
    BY <1>4, <1>7
  <2>5. \A i \in 0 .. (k - 1) : g[i] = h[i]
    BY <1>4
  <2>6. \A i \in 0 .. k : PackOne(g, i) = PackOne(h, i)
    <3> HIDE DEF g
    <3> QED
      BY <2>4, <2>5 DEF PackOne
  <2>7. \A i \in 0 .. (k - 1) : h[i] = PackOne(h, i)
    BY <2>3
  <2>8. \A i \in 0 .. k : (IF i = k THEN PackOne(h, k) ELSE h[i]) = PackOne(g, i)
    <3> HIDE DEF g
    <3> QED
      BY <2>4, <2>6, <2>7
  <2>9. g = [i \in 0 .. k |-> PackOne(g, i)]
    BY <2>8
  <2> HIDE DEF g
  <2>10. Packing(g, k)
    BY <2>9 DEF Packing
  <2> QED
    BY <1>4, <2>10
<1> QED
  BY <1>6, <1>7

(* GroupRegions is one.                                                   *)
LEMMA GroupRegionsIs ==
  ASSUME RequestOK
  PROVE  \A i \in 0 .. Len(spans) : GroupRegions[i] = PackOne(GroupRegions, i)
<1> DEFINE n == Len(spans)
<1>1. \E g : Packing(g, n)
  BY HeardFacts, PackingExists
<1>2. GroupRegions = CHOOSE g : Packing(g, n)
  BY DEF GroupRegions, Packing, PackOne
<1>3. Packing(GroupRegions, n)
  BY <1>1, <1>2
<1>4. GroupRegions = [i \in 0 .. n |-> PackOne(GroupRegions, i)]
  BY <1>3 DEF Packing
<1> QED
  BY <1>4

(* It fits and covers what it should: the first step where it did not     *)
(* would be one of Pack.                                                  *)
LEMMA AllPacked ==
  ASSUME RequestOK
  PROVE  PackedSoFar(GroupRegions[Len(spans)], Len(spans))
<1> DEFINE n == Len(spans)
           T == {i \in 0 .. n : ~PackedSoFar(GroupRegions[i], i)}
<1>1. n \in Nat /\ Heard \subseteq 1 .. n
  BY HeardFacts
<1>2. SUFFICES ASSUME T # {} PROVE FALSE
  <2>1. n \in 0 .. n
    BY <1>1
  <2> QED
    BY <2>1
<1>3. T \in SUBSET Nat
  BY <1>1
<1>4. PICK k \in T : \A j \in T : k <= j
  <2> HIDE DEF T
  <2> QED
    BY <1>2, <1>3, LeastNumber
<1>5. k \in 0 .. n /\ ~PackedSoFar(GroupRegions[k], k)
  BY <1>4
<1>6. \A j \in 0 .. n : j < k => PackedSoFar(GroupRegions[j], j)
  <2> TAKE j \in 0 .. n
  <2> HAVE j < k
  <2>1. j \notin T
    BY <1>1, <1>4, <1>5
  <2> QED
    BY <2>1
<1>7. GroupRegions[k] = PackOne(GroupRegions, k)
  BY <1>5, GroupRegionsIs
<1> HIDE DEF T, n
<1>8. CASE k = 0
  <2> DEFINE start == [out |-> <<>>, open |-> <<>>]
  <2>1. GroupRegions[k] = start
    BY <1>7, <1>8 DEF PackOne
  <2>2. Flushed(start) = <<>>
    BY DEF Flushed
  <2>3. <<>> \in Seq(Nat \X Nat) /\ Len(<<>>) = 0
    OBVIOUS
  <2>4. Fit(<<>>, clip)
    BY <2>3 DEF Fit
  <2>5. Covered(<<>>, 0) /\ Behind(<<>>, 0)
    <3>1. \A j \in Heard : ~(j <= 0)
      BY <1>1
    <3> QED
      BY <2>3, <3>1 DEF Covered, Behind
  <2>6. start = [out |-> start.out, open |-> start.open] /\ start.out = <<>> /\ start.open = <<>>
    OBVIOUS
  <2> HIDE DEF start
  <2>7. PackedSoFar(start, 0)
    BY <2>2, <2>3, <2>4, <2>5, <2>6 DEF PackedSoFar
  <2> QED
    BY <1>5, <1>8, <2>1, <2>7
<1>9. CASE k # 0
  <2>1. k - 1 \in 0 .. n /\ k - 1 < k /\ k \in 1 .. n
    BY <1>1, <1>5, <1>9
  <2>2. PackedSoFar(GroupRegions[k - 1], k - 1)
    BY <1>6, <2>1
  <2>3. CASE k \in Heard
    <3>1. GroupRegions[k] = Pack(GroupRegions[k - 1], Region(k))
      BY <1>7, <1>9, <2>3 DEF PackOne
    <3> QED
      BY <1>5, <2>2, <2>3, <3>1, PackStep
  <2>4. CASE k \notin Heard
    <3>1. GroupRegions[k] = GroupRegions[k - 1]
      BY <1>7, <1>9, <2>4 DEF PackOne
    <3>2. \A j \in Heard : (j <= k => j <= k - 1) /\ (k < j => k - 1 < j)
      BY <1>1, <2>1, <2>4
    <3> DEFINE a == Flushed(GroupRegions[k])
    <3>3. Covered(a, k)
      BY <2>2, <3>1, <3>2 DEF PackedSoFar, Covered
    <3>4. Behind(a, k)
      BY <2>2, <3>1, <3>2 DEF PackedSoFar, Behind
    <3> QED
      BY <1>5, <2>2, <3>1, <3>3, <3>4 DEF PackedSoFar
  <2> QED
    BY <2>3, <2>4
<1> QED
  BY <1>8, <1>9

(* What a plan is worth: every span that is long enough is covered,       *)
(* without a VAD the clip.                                                *)
PlanCovers(list) ==
  /\ \A j \in Heard : Covers(list, Region(j)[1], Region(j)[2])
  /\ Heard = {} => Covers(list, 0, clip)

(* plan_segments: for any clip that is too long, whatever the VAD said of *)
(* it.                                                                    *)
LEMMA PlanIsGood ==
  ASSUME RequestOK, clip > Ceiling
  PROVE  Fit(PlanSegments, clip) /\ PlanCovers(PlanSegments)
<1>1. CASE Heard # {}
  <2> DEFINE list == Flushed(GroupRegions[Len(spans)])
  <2>1. PlanSegments = list
    BY <1>1 DEF PlanSegments
  <2>2. Fit(list, clip) /\ Covered(list, Len(spans))
    BY AllPacked DEF PackedSoFar
  <2> HIDE DEF list
  <2>3. \A j \in Heard : Covers(list, Region(j)[1], Region(j)[2])
    BY <2>2, HeardFacts DEF Covered
  <2> QED
    <3>1. PlanCovers(list)
      BY <1>1, <2>3 DEF PlanCovers
    <3> QED
      BY <2>1, <2>2, <3>1
<1>2. CASE Heard = {}
  <2> DEFINE list == FixedSegmentBounds(clip, Ceiling, overlap)
  <2>1. PlanSegments = list
    BY <1>2 DEF PlanSegments
  <2>2. SlicesOf(list, clip)
    BY FixedSlices DEF RequestOK
  <2> HIDE DEF list
  <2> QED
    BY <1>2, <2>1, <2>2 DEF SlicesOf, PlanCovers
<1> QED
  BY <1>1, <1>2

(* Slices that go forward one by one go forward.                          *)
LEMMA FitOrdered ==
  ASSUME NEW list, NEW end, Fit(list, end), NEW n \in 1 .. Len(list)
  PROVE  \A k \in 1 .. n : list[k][2] <= list[n][2]
<1> DEFINE T == {d \in 0 .. (n - 1) : ~(list[n - d][2] <= list[n][2])}
<1>1. Len(list) \in Nat /\ \A k \in 1 .. Len(list) : list[k][2] \in Nat
  BY FitFacts
<1>2. T = {}
  <2> SUFFICES ASSUME T # {} PROVE FALSE
    OBVIOUS
  <2>1. T \in SUBSET Nat
    OBVIOUS
  <2>2. PICK d \in T : \A c \in T : d <= c
    <3> HIDE DEF T
    <3> QED
      BY <2>1, LeastNumber
  <2>3. d \in 0 .. (n - 1) /\ ~(list[n - d][2] <= list[n][2])
    BY <2>2
  <2>4. d # 0
    BY <1>1, <2>3
  <2>5. d - 1 \in 0 .. (n - 1) /\ d - 1 < d
    BY <2>3, <2>4
  <2>6. d - 1 \notin T
    <3>1. d \in Nat
      BY <2>3
    <3> HIDE DEF T
    <3>2. d - 1 \in T => d <= d - 1
      BY <2>2
    <3> QED
      BY <2>5, <3>1, <3>2
  <2>7. list[n - (d - 1)][2] <= list[n][2]
    BY <2>5, <2>6
  <2>8. /\ n - d \in 1 .. (Len(list) - 1) /\ n - d \in 1 .. Len(list)
        /\ (n - d) + 1 = n - (d - 1) /\ n - (d - 1) \in 1 .. Len(list)
    BY <1>1, <2>3, <2>4
  <2>9. list[n - d][2] <= list[(n - d) + 1][2]
    BY <2>8, FitFacts
  <2>10. list[n - d][2] \in Nat /\ list[n - (d - 1)][2] \in Nat /\ list[n][2] \in Nat
    BY <1>1, <2>8
  <2> DEFINE u == list[n - d][2]
             v == list[n - (d - 1)][2]
             w == list[n][2]
  <2>11. u \in Nat /\ v \in Nat /\ w \in Nat /\ u <= v /\ v <= w /\ ~(u <= w)
    BY <2>3, <2>7, <2>8, <2>9, <2>10
  <2> HIDE DEF u, v, w
  <2> QED
    BY <2>11
<1>3. \A k \in 1 .. n : list[k][2] <= list[n][2]
  <2> TAKE k \in 1 .. n
  <2>1. n - k \in 0 .. (n - 1) /\ n - (n - k) = k
    OBVIOUS
  <2>2. n - k \notin T
    BY <1>2
  <2> HIDE <1>2
  <2>3. list[n - (n - k)][2] <= list[n][2]
    BY <2>1, <2>2
  <2> QED
    BY <2>1, <2>3
<1> QED
  BY <1>3

(* What may be said is made of ticks of the clip.                         *)
LEMMA SpokenFacts ==
  ASSUME RequestOK
  PROVE  /\ Spoken \subseteq Nat
         /\ spans = <<>> => Spoken = 0 .. (clip - 1)
         /\ \A i \in DOMAIN spans : Ticks(spans[i]) \subseteq Spoken
<1>1. clip \in Nat
  BY DEF RequestOK
<1>2. \A i \in DOMAIN spans : Ticks(spans[i]) \subseteq Nat
  BY RegionFacts DEF Ticks
<1>3. CASE spans = <<>>
  <2>1. Spoken = 0 .. (clip - 1)
    BY <1>3 DEF Spoken
  <2>2. \A i \in DOMAIN spans : FALSE
    <3>1. DOMAIN <<>> = {}
      OBVIOUS
    <3> QED
      BY <1>3, <3>1
  <2> QED
    BY <1>1, <2>1, <2>2
<1>4. CASE spans # <<>>
  <2>1. Spoken = UNION {Ticks(spans[i]) : i \in DOMAIN spans}
    BY <1>4 DEF Spoken
  <2> QED
    BY <1>2, <1>4, <2>1
<1> QED
  BY <1>3, <1>4

(* What has been decoded by the time slice n is due.                      *)
DecodedBefore(n) == {t \in Spoken : \E k \in 1 .. (n - 1) : slices[k][1] <= t /\ t < slices[k][2]}

(* The inductive invariant: the plan fits and covers; the text is what    *)
(* the slices so far hold, each word once and in order. Without the order *)
(* of the slices the longest common end and beginning could be a longer   *)
(* repetition than that of the overlap.                                   *)
SegInv ==
  /\ job \in {"new", "planning", "decoding", "whole", "done", "failed"}
  /\ RequestOK
  /\ limit \in {0, Ceiling}
  /\ job \in {"new", "planning", "whole"} => slices = <<>> /\ next = 1
  /\ job \in {"decoding", "done", "failed"} => clip > Ceiling /\ Fit(slices, clip) /\ PlanCovers(slices)
  /\ next \in 1 .. (Len(slices) + 1)
  /\ job = "decoding" => next <= Len(slices)
  /\ job = "done" => next = Len(slices) + 1
  /\ Rising(joined)
  /\ Said = DecodedBefore(next)
  /\ WholeIsOneStretch

(* The slices of a request fit, before there are any as well.             *)
LEMMA SlicesTyped ==
  ASSUME SegInv
  PROVE  /\ Fit(slices, clip) /\ Len(slices) \in Nat /\ DOMAIN slices = 1 .. Len(slices)
<1>1. CASE job \in {"new", "planning", "whole"}
  <2>1. slices = <<>> /\ <<>> \in Seq(Nat \X Nat) /\ Len(<<>>) = 0
    BY <1>1 DEF SegInv
  <2>2. Fit(slices, clip)
    BY <2>1 DEF Fit
  <2> QED
    BY <2>2, FitFacts, LenProperties
<1>2. CASE job \in {"decoding", "done", "failed"}
  <2>1. Fit(slices, clip)
    BY <1>2 DEF SegInv
  <2> QED
    BY <2>1, FitFacts, LenProperties
<1> QED
  BY <1>1, <1>2 DEF SegInv

(* What of a span is missing lies where the fold of a tail left a gap.    *)
LEMMA LittleIsMissing ==
  ASSUME SegInv, job = "done", NEW s, s[1] \in Nat, s[2] \in Nat, s[1] < s[2], Ticks(s) \subseteq Spoken,
         NEW from \in Nat, NEW to \in Nat, from <= s[1], s[2] <= to, to <= s[2] + Pad,
         Covers(slices, from, to)
  PROVE  /\ s[2] - 1 \notin Missing(s)
         /\ Cardinality(Missing(s)) <= AtMost(Lap)
         /\ Pad <= s[1] /\ from + Pad = s[1] /\ Lap + Pad >= MinTail => Missing(s) = {}
<1> DEFINE lo == s[1]
           hi == s[2]
           M == Missing(s)
<1>1. /\ Pad \in Nat /\ MinTail \in Nat /\ Lap \in Nat /\ 2 * Pad < MinTail
  BY LapFacts DEF SegInv, RequestOK
<1>2. PICK x \in Nat, y \in Nat :
        /\ from <= x /\ x <= y /\ y - x <= AtMost(Lap)
        /\ x = y \/ y + MinTail <= to
        /\ x = from \/ y - x <= AtMost(2 * Lap)
        /\ \A t \in from .. (to - 1) : (x <= t /\ t < y) \/ Within(t, slices)
  BY DEF Covers
<1>3. lo \in Nat /\ hi \in Nat /\ lo < hi /\ from <= lo /\ hi <= to /\ to <= hi + Pad
  OBVIOUS
<1>4. \A t \in M : t \in lo .. (hi - 1) /\ x <= t /\ t < y
  <2> TAKE t \in M
  <2>1. t \in Ticks(s) /\ t \notin Said /\ t \in Spoken
    BY DEF Missing
  <2>2. t \in lo .. (hi - 1)
    BY <2>1 DEF Ticks
  <2>3. t \in from .. (to - 1)
    <3> HIDE DEF lo, hi
    <3> QED
      BY <1>3, <2>2
  <2>4. ~Within(t, slices)
    <3>1. Said = DecodedBefore(next) /\ next = Len(slices) + 1
      BY DEF SegInv
    <3>2. next - 1 = Len(slices)
      BY <3>1, SlicesTyped
    <3> QED
      BY <2>1, <3>1, <3>2 DEF DecodedBefore, Within
  <2> QED
    BY <1>2, <2>2, <2>3, <2>4
<1> HIDE DEF lo, hi, M
<1>5. hi - 1 \notin M
  <2>1. x = y => hi - 1 \notin M
    BY <1>3, <1>4
  <2>2. y + MinTail <= to => hi - 1 \notin M
    BY <1>1, <1>3, <1>4
  <2> QED
    BY <1>2, <2>1, <2>2
<1>6. Cardinality(M) <= AtMost(Lap)
  <2>1. M \in SUBSET (x .. (y - 1))
    BY <1>3, <1>4
  <2>2. IsFiniteSet(x .. (y - 1)) /\ Cardinality(x .. (y - 1)) = (IF x > y - 1 THEN 0 ELSE (y - 1) - x + 1)
    <3>1. x \in Int /\ y - 1 \in Int
      OBVIOUS
    <3> QED
      BY <3>1, FS_Interval
  <2>3. Cardinality(x .. (y - 1)) = y - x
    BY <1>2, <2>2
  <2>4. Cardinality(M) <= Cardinality(x .. (y - 1)) /\ IsFiniteSet(M)
    BY <2>1, <2>2, FS_Subset
  <2>5. Cardinality(M) \in Nat
    BY <2>4, FS_CardinalityType
  <2>6. AtMost(Lap) \in Int
    BY <1>1 DEF AtMost, Higher
  <2> QED
    BY <1>2, <2>3, <2>4, <2>5, <2>6
<1>7. Pad <= lo /\ from + Pad = lo /\ Lap + Pad >= MinTail => M = {}
  <2> SUFFICES ASSUME from + Pad = lo, Lap + Pad >= MinTail, NEW t \in M PROVE FALSE
    OBVIOUS
  <2>1. t \in Nat /\ lo <= t /\ x <= t /\ t < y
    BY <1>3, <1>4
  <2>2. AtMost(2 * Lap) = 0
    BY <1>1 DEF AtMost, Higher
  <2>3. x = from
    BY <1>2, <2>1, <2>2
  <2>4. AtMost(Lap) <= IF Pad = 0 THEN 0 ELSE Pad - 1
    BY <1>1 DEF AtMost, Higher
  <2>5. AtMost(Lap) \in Int
    BY <1>1 DEF AtMost, Higher
  <2> QED
    BY <1>1, <1>2, <1>3, <2>1, <2>3, <2>4, <2>5
<1> QED
  BY <1>5, <1>6, <1>7 DEF lo, hi, M

(* It implies what the run checks.                                        *)
LEMMA SegFacts == SegInv => ClipIsDecoded
<1> SUFFICES ASSUME SegInv PROVE ClipIsDecoded
  OBVIOUS
<1>1. SegTypeOK
  BY DEF SegInv, SegTypeOK, DecodedBefore
<1>2. SlicesFit
  BY SlicesTyped DEF SlicesFit, Fit
<1>3. WordsOnce
  <2>1. Rising(joined)
    BY DEF SegInv
  <2>2. \A i \in 1 .. (Len(joined) - 1) : i \in 1 .. Len(joined) /\ i + 1 \in 1 .. Len(joined) /\ i < i + 1
    BY <2>1, RisingFacts
  <2> QED
    BY <2>1, <2>2 DEF Rising, WordsOnce
<1>4. SpeechIsDecoded
  <2> SUFFICES ASSUME job = "done",
                      NEW s \in (IF spans = <<>> THEN {<<0, clip>>} ELSE {spans[i] : i \in DOMAIN spans}),
                      s[2] - s[1] >= MinSpeech
               PROVE  /\ s[2] - 1 \notin Missing(s)
                      /\ Cardinality(Missing(s)) <= Higher(MinTail, Lap + 1) - Lap - 1
                      /\ spans # <<>> /\ s[1] >= Pad /\ Lap + Pad >= MinTail => Missing(s) = {}
    BY DEF SpeechIsDecoded
  <2>1. RequestOK /\ clip > Ceiling /\ PlanCovers(slices) /\ clip \in Nat
    BY DEF SegInv, RequestOK
  <2>2. Pad \in Nat /\ Ceiling \in Nat
    BY <2>1, LapFacts DEF RequestOK
  <2>3. CASE spans = <<>>
    <3>1. s[1] = 0 /\ s[2] = clip
      BY <2>3
    <3>2. Ticks(s) \subseteq Spoken
      BY <2>1, <2>3, <3>1, SpokenFacts DEF Ticks
    <3>3. Covers(slices, 0, clip)
      BY <2>1, <2>3, HeardFacts DEF PlanCovers
    <3>4. /\ s[1] \in Nat /\ s[2] \in Nat /\ s[1] < s[2] /\ 0 <= s[1] /\ s[2] <= clip /\ clip <= s[2] + Pad
      BY <2>1, <2>2, <3>1
    <3>5. s[2] - 1 \notin Missing(s) /\ Cardinality(Missing(s)) <= AtMost(Lap)
      BY <2>1, <3>2, <3>3, <3>4, LittleIsMissing
    <3> QED
      BY <2>3, <3>5 DEF AtMost
  <2>4. CASE spans # <<>>
    <3>1. PICK i \in DOMAIN spans : s = spans[i]
      BY <2>4
    <3>2. i \in Heard
      BY <3>1 DEF Heard
    <3>3. /\ s[1] \in Nat /\ s[2] \in Nat /\ s[1] < s[2]
          /\ Region(i) \in Nat \X Nat
          /\ Region(i)[1] <= s[1] /\ s[2] <= Region(i)[2]
          /\ Region(i)[2] <= s[2] + Pad
          /\ Pad <= s[1] => Region(i)[1] + Pad = s[1]
      BY <2>1, <3>1, RegionFacts
    <3>4. Ticks(s) \subseteq Spoken
      BY <2>1, <3>1, SpokenFacts
    <3>5. Covers(slices, Region(i)[1], Region(i)[2])
      BY <2>1, <3>2 DEF PlanCovers
    <3>6. Region(i)[1] \in Nat /\ Region(i)[2] \in Nat
      BY <3>3
    <3>7. /\ s[2] - 1 \notin Missing(s)
          /\ Cardinality(Missing(s)) <= AtMost(Lap)
          /\ Pad <= s[1] /\ Region(i)[1] + Pad = s[1] /\ Lap + Pad >= MinTail => Missing(s) = {}
      BY <3>3, <3>4, <3>5, <3>6, LittleIsMissing
    <3>8. s[1] >= Pad => Pad <= s[1]
      BY <2>2, <3>3
    <3> QED
      BY <3>3, <3>7, <3>8 DEF AtMost
  <2> QED
    BY <2>3, <2>4
<1> QED
  BY <1>1, <1>2, <1>3, <1>4 DEF ClipIsDecoded, SegInv

(* A plan of one slice holds a region that it covers, but for the little  *)
(* at its beginning that the fold left out.                               *)
LEMMA StretchOfOne ==
  ASSUME overlap \in Nat, NEW list, Fit(list, clip), Len(list) <= 1, NEW from \in Nat, NEW to \in Nat, from < to,
         Covers(list, from, to)
  PROVE  /\ list[1][1] \in Nat /\ list[1][2] \in Nat /\ list[1][2] - list[1][1] <= Ceiling
         /\ to <= list[1][2] /\ list[1][1] < from + MinTail
<1>1. PICK x \in Nat, y \in Nat :
        /\ from <= x /\ x <= y /\ y - x <= AtMost(Lap)
        /\ x = y \/ y + MinTail <= to
        /\ \A t \in from .. (to - 1) : (x <= t /\ t < y) \/ Within(t, list)
  BY DEF Covers
<1>2. /\ MinTail \in Nat /\ MinTail > 0 /\ Lap \in Nat /\ Ceiling \in Nat /\ AtMost(Lap) \in Nat
      /\ AtMost(Lap) < MinTail
  <2>1. MinTail \in Nat /\ MinTail > 0 /\ Lap \in Nat /\ Ceiling \in Nat
    BY LapFacts
  <2> QED
    BY <2>1 DEF AtMost, Higher
<1>3. Len(list) \in Nat /\ \A k \in 1 .. Len(list) : list[k][1] \in Nat /\ list[k][2] \in Nat
                                                    /\ list[k][2] - list[k][1] <= Ceiling
  BY FitFacts
<1>4. Within(to - 1, list)
  <2>1. to - 1 \in from .. (to - 1) /\ ~(x <= to - 1 /\ to - 1 < y)
    BY <1>1, <1>2
  <2> QED
    BY <1>1, <2>1
<1>5. Len(list) = 1 /\ 1 \in 1 .. Len(list) /\ \A t : Within(t, list) => list[1][1] <= t /\ t < list[1][2]
  <2>1. Len(list) = 1
    <3> DEFINE n == Len(list)
    <3>1. \E k \in 1 .. n : TRUE
      BY <1>4 DEF Within
    <3>2. n \in Nat /\ n <= 1
      BY <1>3
    <3> HIDE DEF n
    <3>3. n = 1
      BY <3>1, <3>2
    <3> QED
      BY <3>3 DEF n
  <2>2. \A k \in 1 .. Len(list) : k = 1
    BY <2>1
  <2> QED
    BY <2>1, <2>2 DEF Within
<1>6. to <= list[1][2]
  BY <1>3, <1>4, <1>5
<1>7. list[1][1] < from + MinTail
  <2>1. CASE x = from /\ x < y
    <3>1. y \in from .. (to - 1) /\ ~(y < y)
      BY <1>1, <1>2, <2>1
    <3>2. list[1][1] <= y
      BY <1>1, <1>5, <3>1
    <3> QED
      BY <1>1, <1>2, <1>3, <1>5, <2>1, <3>2
  <2>2. CASE ~(x = from /\ x < y)
    <3>1. from \in from .. (to - 1) /\ ~(x <= from /\ from < y)
      BY <1>1, <2>2
    <3>2. list[1][1] <= from
      BY <1>1, <1>5, <3>1
    <3> QED
      BY <1>2, <1>3, <1>5, <3>2
  <2> QED
    BY <2>1, <2>2
<1> QED
  BY <1>3, <1>5, <1>6, <1>7

(* So what is sent whole although it is too long has its speech in one    *)
(* stretch, at most a tail longer than the limit.                         *)
LEMMA OneStretch ==
  ASSUME RequestOK, clip > Ceiling, ~(Len(PlanSegments) > 1)
  PROVE  /\ \A i \in Heard, j \in Heard : Region(j)[2] - Region(i)[1] < Ceiling + MinTail
         /\ Heard = {} => clip < Ceiling + MinTail
<1> DEFINE list == PlanSegments
<1>1. Fit(list, clip) /\ PlanCovers(list)
  BY PlanIsGood
<1>2. ~(Len(list) > 1)
  OBVIOUS
<1> HIDE DEF list
<1>3. overlap \in Nat /\ clip \in Nat /\ Ceiling \in Nat /\ MinTail \in Nat
  BY LapFacts DEF RequestOK
<1>4. Len(list) <= 1
  BY <1>1, <1>2, FitFacts
<1>5. ASSUME NEW i \in Heard, NEW j \in Heard PROVE Region(j)[2] - Region(i)[1] < Ceiling + MinTail
  <2>1. /\ Region(i)[1] \in Nat /\ Region(i)[2] \in Nat /\ Region(i)[1] < Region(i)[2]
        /\ Region(j)[1] \in Nat /\ Region(j)[2] \in Nat /\ Region(j)[1] < Region(j)[2]
    <3>1. i \in DOMAIN spans /\ j \in DOMAIN spans
      BY DEF Heard
    <3>2. \A k \in DOMAIN spans : /\ spans[k][1] \in Nat /\ spans[k][2] \in Nat /\ spans[k][1] < spans[k][2]
                                 /\ Region(k) \in Nat \X Nat
                                 /\ Region(k)[1] <= spans[k][1] /\ spans[k][2] <= Region(k)[2]
      BY RegionFacts
    <3>3. \A k \in DOMAIN spans : Region(k)[1] \in Nat /\ Region(k)[2] \in Nat
      BY <3>2
    <3> QED
      BY <3>1, <3>2, <3>3
  <2>2. Covers(list, Region(i)[1], Region(i)[2]) /\ Covers(list, Region(j)[1], Region(j)[2])
    BY <1>1 DEF PlanCovers
  <2>3. list[1][1] < Region(i)[1] + MinTail
    BY <1>1, <1>3, <1>4, <2>1, <2>2, StretchOfOne
  <2>4. /\ list[1][1] \in Nat /\ list[1][2] \in Nat /\ list[1][2] - list[1][1] <= Ceiling
        /\ Region(j)[2] <= list[1][2]
    BY <1>1, <1>3, <1>4, <2>1, <2>2, StretchOfOne
  <2> DEFINE a == Region(i)[1]
             b == Region(j)[2]
             c == list[1][1]
             d == list[1][2]
  <2>5. a \in Nat /\ b \in Nat /\ c \in Nat /\ d \in Nat /\ c < a + MinTail /\ d - c <= Ceiling /\ b <= d
    BY <2>1, <2>3, <2>4
  <2> HIDE DEF a, b, c, d
  <2>6. b - a < Ceiling + MinTail
    BY <1>3, <2>5
  <2> QED
    BY <2>6 DEF a, b
<1>6. ASSUME Heard = {} PROVE clip < Ceiling + MinTail
  <2>1. Covers(list, 0, clip) /\ 0 < clip
    BY <1>1, <1>3, <1>6 DEF PlanCovers
  <2>2. /\ list[1][1] \in Nat /\ list[1][2] \in Nat /\ list[1][2] - list[1][1] <= Ceiling
        /\ clip <= list[1][2] /\ list[1][1] < 0 + MinTail
    BY <1>1, <1>3, <1>4, <2>1, StretchOfOne
  <2> QED
    BY <1>3, <2>2
<1> QED
  BY <1>5, <1>6

(* It holds at the start.                                                 *)
LEMMA SegInitially == SegInit => SegInv
<1> SUFFICES ASSUME SegInit PROVE SegInv
  OBVIOUS
<1>1. /\ clip = 0 /\ overlap = 0 /\ limit = 0 /\ spans = <<>>
      /\ slices = <<>> /\ next = 1 /\ joined = <<>> /\ job = "new"
  BY DEF SegInit
<1>2. <<>> \in Seq(Nat \X Nat) /\ <<>> \in Seq(Nat) /\ Len(<<>>) = 0 /\ DOMAIN <<>> = {}
  OBVIOUS
<1>3. RequestOK
  BY <1>1, <1>2 DEF RequestOK
<1>4. Rising(joined)
  BY <1>1, <1>2 DEF Rising
<1>5. Said = {} /\ DecodedBefore(next) = {}
  BY <1>1, <1>2 DEF Said, DecodedBefore
<1> QED
  BY <1>1, <1>2, <1>3, <1>4, <1>5 DEF SegInv, WholeIsOneStretch

(* What a plan and a text are compared with changes with the request      *)
(* only, ...                                                              *)
LEMMA RequestKept ==
  ASSUME UNCHANGED <<clip, overlap, spans>>
  PROVE  /\ RequestOK' <=> RequestOK
         /\ Spoken' = Spoken /\ Heard' = Heard /\ Lap' = Lap
         /\ \A list : PlanCovers(list)' <=> PlanCovers(list)
<1>1. RequestOK' <=> RequestOK
  BY DEF RequestOK
<1>2. Spoken' = Spoken /\ Heard' = Heard /\ Lap' = Lap
  BY DEF Spoken, Heard, Lap, Ticks
<1>3. \A i : Region(i)' = Region(i)
  BY DEF Region
<1>4. \A list, from, to : Covers(list, from, to)' <=> Covers(list, from, to)
  BY <1>2 DEF Covers, AtMost, Within
<1>5. \A list : PlanCovers(list)' <=> PlanCovers(list)
  BY <1>2, <1>3, <1>4 DEF PlanCovers
<1> QED
  BY <1>1, <1>2, <1>5

(* ... and the worth of the plan with it.                                 *)
LEMMA PlanCoversKept ==
  ASSUME UNCHANGED <<clip, overlap, spans, slices>>
  PROVE  PlanCovers(slices)' <=> PlanCovers(slices)
BY DEF PlanCovers, Covers, Within, Region, AtMost, Heard, Lap

(* A request.                                                             *)
LEMMA ClipSubmitted ==
  ASSUME SegInv, NEW length \in Clips, NEW lap \in Overlaps, NEW max \in {0, Ceiling}, NEW said \in Spans,
         SubmitClip(length, lap, max, said)
  PROVE  SegInv'
<1>1. /\ job = "new" /\ job' = "planning"
      /\ \A i \in DOMAIN said : said[i][2] <= length
      /\ clip' = length /\ overlap' = lap /\ limit' = max /\ spans' = said
      /\ slices' = slices /\ next' = next /\ joined' = joined
  BY DEF SubmitClip
<1>2. slices = <<>> /\ next = 1 /\ Rising(joined) /\ Said = DecodedBefore(next)
  BY <1>1 DEF SegInv
<1>3. RequestOK'
  <2>1. length \in Nat /\ lap \in Nat
    BY SegmentAssumption
  <2>2. /\ said \in Seq(Nat \X Nat) /\ \A i \in DOMAIN said : said[i][1] < said[i][2]
        /\ \A i \in DOMAIN said, j \in DOMAIN said : i < j =>
             said[i][2] <= said[j][1] /\ said[i][1] + Pad < said[j][1]
    BY SegmentAssumption
  <2> QED
    BY <1>1, <2>1, <2>2 DEF RequestOK
<1>4. Said = {}
  BY <1>2 DEF DecodedBefore
<1>5. Said' = {}
  BY <1>1, <1>4 DEF Said
<1>6. DecodedBefore(next)' = {}
  BY <1>1, <1>2 DEF DecodedBefore
<1>7. Rising(joined)'
  BY <1>1, <1>2 DEF Rising
<1>8. next' \in 1 .. (Len(slices') + 1)
  BY <1>1 DEF SegInv
<1> QED
  BY <1>1, <1>2, <1>3, <1>5, <1>6, <1>7, <1>8 DEF SegInv, WholeIsOneStretch

(* Its plan.                                                              *)
LEMMA ClipPlanned ==
  ASSUME SegInv, Plan
  PROVE  SegInv'
<1>1. /\ job = "planning" /\ UNCHANGED <<clip, overlap, spans>>
      /\ limit' = limit /\ next' = next /\ joined' = joined
      /\ \/ /\ limit > 0 /\ clip > limit /\ Len(PlanSegments) > 1
            /\ slices' = PlanSegments /\ job' = "decoding"
         \/ /\ slices' = <<>> /\ job' = "whole"
            /\ ~(limit > 0 /\ clip > limit /\ Len(PlanSegments) > 1)
  BY DEF Plan
<1>2. /\ RequestOK /\ slices = <<>> /\ next = 1 /\ limit \in {0, Ceiling}
      /\ Rising(joined) /\ Said = DecodedBefore(next)
  BY <1>1 DEF SegInv
<1>3. RequestOK' /\ \A list : PlanCovers(list)' <=> PlanCovers(list)
  BY <1>1, <1>2, RequestKept
<1>4. Said' = {} /\ DecodedBefore(next)' = {}
  BY <1>1, <1>2 DEF DecodedBefore, Said
<1>5. Rising(joined)'
  BY <1>1, <1>2 DEF Rising
<1>6. CASE limit > 0 /\ clip > limit /\ Len(PlanSegments) > 1 /\ slices' = PlanSegments /\ job' = "decoding"
  <2>1. limit = Ceiling /\ clip > Ceiling
    BY <1>2, <1>6
  <2>2. Fit(PlanSegments, clip) /\ PlanCovers(PlanSegments)
    BY <1>2, <2>1, PlanIsGood
  <2> DEFINE list == PlanSegments
  <2> HIDE DEF list
  <2>3. slices' = list /\ Len(list) > 1 /\ Fit(list, clip) /\ PlanCovers(list)
    BY <1>6, <2>2 DEF list
  <2>4. Fit(slices, clip)'
    BY <1>1, <2>3 DEF Fit
  <2>5. PlanCovers(slices)'
    <3>1. Heard' = Heard /\ Lap' = Lap /\ clip' = clip
      BY <1>1, RequestKept
    <3>2. \A i : Region(i)' = Region(i)
      BY <1>1 DEF Region
    <3>3. \A from, to : Covers(list, from, to) => Covers(slices, from, to)'
      BY <2>3, <3>1 DEF Covers, Within, AtMost
    <3> QED
      BY <2>3, <3>1, <3>2, <3>3 DEF PlanCovers
  <2>6. next' \in 1 .. (Len(slices') + 1) /\ next' <= Len(slices')
    <3>1. Len(list) \in Nat
      BY <2>3, FitFacts
    <3> QED
      BY <1>1, <1>2, <2>3, <3>1
  <2>7. clip' > Ceiling /\ limit' \in {0, Ceiling}
    BY <1>1, <1>2, <2>1
  <2> QED
    BY <1>3, <1>4, <1>5, <1>6, <2>4, <2>5, <2>6, <2>7 DEF SegInv, WholeIsOneStretch
<1>7. CASE /\ slices' = <<>> /\ job' = "whole"
             /\ ~(limit > 0 /\ clip > limit /\ Len(PlanSegments) > 1)
  <2>2. WholeIsOneStretch'
    <3>1. ASSUME limit > 0, clip > limit
          PROVE  /\ \A i \in Heard, j \in Heard : Region(j)[2] - Region(i)[1] < Ceiling + MinTail
                 /\ Heard = {} => clip < Ceiling + MinTail
      <4>1. limit = Ceiling
        BY <1>2, <3>1
      <4> QED
        BY <1>2, <1>7, <3>1, <4>1, OneStretch
    <3>2. Heard' = Heard /\ \A i : Region(i)' = Region(i)
      BY <1>1 DEF Heard, Region
    <3> QED
      BY <1>1, <3>1, <3>2 DEF WholeIsOneStretch
  <2>1. next' \in 1 .. (Len(slices') + 1)
    <3>1. Len(<<>>) = 0
      OBVIOUS
    <3> QED
      BY <1>1, <1>2, <1>7, <3>1
  <2> QED
    BY <1>1, <1>2, <1>3, <1>4, <1>5, <1>7, <2>1, <2>2 DEF SegInv
<1> QED
  BY <1>1, <1>6, <1>7

(* The next slice: it begins behind the one before and before the end of  *)
(* the text, and what it repeats is what they share.                      *)
LEMMA SliceDecoded ==
  ASSUME SegInv, DecodeSlice
  PROVE  SegInv'
<1> DEFINE slice == slices[next]
           cur == Words(slice)
           text == joined \o StripOverlapRepeat(joined, cur)
           more == {t \in Spoken : slice[1] <= t /\ t < slice[2]}
<1>1. /\ job = "decoding" /\ UNCHANGED <<clip, overlap, spans>>
      /\ limit' = limit /\ slices' = slices /\ next' = next + 1 /\ joined' = text
      /\ job' = IF next = Len(slices) THEN "done" ELSE job
  BY DEF DecodeSlice
<1>2. /\ RequestOK /\ clip > Ceiling /\ Fit(slices, clip) /\ PlanCovers(slices)
      /\ next \in 1 .. (Len(slices) + 1) /\ next <= Len(slices)
      /\ Rising(joined) /\ Said = DecodedBefore(next) /\ limit \in {0, Ceiling}
  BY <1>1 DEF SegInv
<1>3. /\ Len(slices) \in Nat /\ next \in 1 .. Len(slices) /\ Spoken \subseteq Nat
      /\ \A k \in 1 .. Len(slices) : slices[k][1] \in Nat /\ slices[k][2] \in Nat
  BY <1>2, FitFacts, SpokenFacts
<1>4. /\ Rising(cur)
      /\ \A k \in 1 .. Len(cur) : cur[k] \in more
      /\ \A t \in more : \E k \in 1 .. Len(cur) : cur[k] = t
  <2>1. slice[1] \in Nat /\ slice[2] \in Nat
    BY <1>3
  <2>2. Ticks(slice) \cap Spoken = more
    <3> HIDE DEF slice
    <3>1. \A t \in Spoken : t \in Ticks(slice) <=> slice[1] <= t /\ t < slice[2]
      <4> TAKE t \in Spoken
      <4>1. t \in Nat
        BY <1>3
      <4> QED
        BY <2>1, <4>1 DEF Ticks
    <3> QED
      BY <3>1
  <2> HIDE DEF slice, more
  <2> QED
    BY <2>1, <2>2, WordsInOrder
<1>5. \A i \in 1 .. Len(joined) : joined[i] \in Said
  BY <1>2, RisingFacts, LenProperties DEF Said, Rising
<1>6. \A t \in Said : \E i \in 1 .. Len(joined) : joined[i] = t
  BY <1>2, RisingFacts, LenProperties DEF Said, Rising
<1> DEFINE Joins(new) ==
             /\ Rising(new)
             /\ \A i \in 1 .. Len(new) : \/ \E k \in 1 .. Len(joined) : joined[k] = new[i]
                                         \/ \E k \in 1 .. Len(cur) : cur[k] = new[i]
             /\ \A k \in 1 .. Len(joined) : \E i \in 1 .. Len(new) : new[i] = joined[k]
             /\ \A k \in 1 .. Len(cur) : \E i \in 1 .. Len(new) : new[i] = cur[k]
<1>7. Joins(text)
  <2>1. CASE next = 1
    <3>1. Said = {}
      BY <1>2, <2>1 DEF DecodedBefore
    <3>2. \A i \in 1 .. Len(joined) : FALSE
      BY <1>5, <3>1
    <3>3. \A k \in 1 .. Len(cur) : 0 <= cur[k] /\ ~(cur[k] < 0)
      BY <1>4, RisingFacts
    <3>4. Rising(joined) /\ Rising(cur) /\ 0 \in Nat
      BY <1>2, <1>4
    <3> HIDE DEF cur
    <3>5. /\ \A i \in 1 .. Len(joined) : joined[i] < 0
          /\ \A k \in 1 .. Len(cur) : 0 <= cur[k]
          /\ \A i \in 1 .. Len(joined) : 0 <= joined[i] => \E k \in 1 .. Len(cur) : cur[k] = joined[i]
          /\ \A k \in 1 .. Len(cur) : cur[k] < 0 => \E i \in 1 .. Len(joined) : joined[i] = cur[k]
      BY <3>2, <3>3
    <3> HIDE <3>2, <3>3
    <3>6. JoinedWell(joined, cur)
      BY <3>4, <3>5, JoinedTexts
    <3> QED
      BY <3>6 DEF JoinedWell
  <2>2. CASE next # 1
    <3> DEFINE a == slice[1]
               e == slices[next - 1][2]
    <3>1. next - 1 \in 1 .. Len(slices) /\ next - 1 \in 1 .. (Len(slices) - 1) /\ (next - 1) + 1 = next
          /\ next - 1 \in 1 .. (next - 1)
      BY <1>3, <2>2
    <3>2. slices[next - 1][1] < a /\ e <= slice[2] /\ a \in Nat /\ e \in Nat /\ slices[next - 1][1] \in Nat
          /\ slice[2] \in Nat
      <4>1. slices[next - 1][1] < slices[(next - 1) + 1][1] /\ slices[next - 1][2] <= slices[(next - 1) + 1][2]
        BY <1>2, <3>1, FitFacts
      <4> QED
        BY <1>3, <3>1, <4>1
    <3>3. \A t \in Said : t \in Nat /\ t < e /\ (a <= t => t \in more)
      <4> TAKE t \in Said
      <4>1. PICK k \in 1 .. (next - 1) : slices[k][1] <= t /\ t < slices[k][2]
        BY <1>2 DEF DecodedBefore
      <4>2. slices[k][2] <= e
        BY <1>2, <3>1, <4>1, FitOrdered
      <4>3. k \in 1 .. Len(slices)
        BY <1>3, <4>1
      <4>4. t \in Spoken /\ t \in Nat /\ slices[k][2] \in Nat
        BY <1>2, <1>3, <4>3 DEF DecodedBefore
      <4> HIDE DEF a, e, slice
      <4>5. t < e /\ t < slice[2]
        BY <3>2, <4>1, <4>2, <4>4
      <4> QED
        BY <4>4, <4>5 DEF a
    <3>4. \A t \in more : t < e => t \in Said
      <4> TAKE t \in more
      <4> HAVE t < e
      <4>1. t \in Spoken /\ t \in Nat /\ a <= t
        BY <1>3
      <4>2. slices[next - 1][1] <= t /\ t < slices[next - 1][2]
        <5>1. t < slices[next - 1][2]
          OBVIOUS
        <5> HIDE DEF a, slice
        <5> QED
          BY <3>2, <4>1, <5>1
      <4> QED
        BY <1>2, <3>1, <4>1, <4>2 DEF DecodedBefore
    <3>5. \A t \in more : a <= t
      BY <1>3
    <3> HIDE DEF a, e, cur, more
    <3>6. /\ \A i \in 1 .. Len(joined) : joined[i] < e
          /\ \A k \in 1 .. Len(cur) : a <= cur[k]
          /\ \A i \in 1 .. Len(joined) : a <= joined[i] => \E k \in 1 .. Len(cur) : cur[k] = joined[i]
          /\ \A k \in 1 .. Len(cur) : cur[k] < e => \E i \in 1 .. Len(joined) : joined[i] = cur[k]
      <4>1. \A i \in 1 .. Len(joined) : joined[i] < e
        BY <1>5, <3>3
      <4>2. \A k \in 1 .. Len(cur) : a <= cur[k]
        BY <1>4, <3>5
      <4>3. \A i \in 1 .. Len(joined) : a <= joined[i] => \E k \in 1 .. Len(cur) : cur[k] = joined[i]
        BY <1>4, <1>5, <3>3
      <4>4. \A k \in 1 .. Len(cur) : cur[k] < e => \E i \in 1 .. Len(joined) : joined[i] = cur[k]
        BY <1>4, <1>6, <3>4
      <4> QED
        BY <4>1, <4>2, <4>3, <4>4
    <3>7. Rising(joined) /\ Rising(cur) /\ a \in Nat /\ e \in Nat
      BY <1>2, <1>4, <3>2
    <3>8. JoinedWell(joined, cur)
      BY <3>6, <3>7, JoinedTexts
    <3> QED
      BY <3>8 DEF JoinedWell
  <2> QED
    BY <2>1, <2>2
<1> HIDE DEF text, cur
<1>8. Said' = Said \cup more
  <2>1. DOMAIN text = 1 .. Len(text)
    BY <1>7, LenProperties DEF Rising
  <2>2. Said' = {text[i] : i \in 1 .. Len(text)}
    BY <1>1, <2>1 DEF Said
  <2>3. \A t \in Said' : t \in Said \/ t \in more
    <3>1. \A i \in 1 .. Len(text) : text[i] \in Said \/ text[i] \in more
      <4> TAKE i \in 1 .. Len(text)
      <4>1. CASE \E k \in 1 .. Len(joined) : joined[k] = text[i]
        BY <1>5, <4>1
      <4>2. CASE \E k \in 1 .. Len(cur) : cur[k] = text[i]
        BY <1>4, <4>2
      <4> QED
        BY <1>7, <4>1, <4>2
    <3> QED
      BY <2>2, <3>1
  <2>4. \A t \in Said : t \in Said'
    BY <1>6, <1>7, <2>2
  <2>5. \A t \in more : t \in Said'
    BY <1>4, <1>7, <2>2
  <2> QED
    BY <2>3, <2>4, <2>5
<1>9. DecodedBefore(next)' = DecodedBefore(next) \cup more
  <2>1. DecodedBefore(next)' = {t \in Spoken : \E k \in 1 .. ((next + 1) - 1) : slices[k][1] <= t /\ t < slices[k][2]}
    BY <1>1, RequestKept DEF DecodedBefore
  <2>2. \A k : k \in 1 .. ((next + 1) - 1) <=> k \in 1 .. (next - 1) \/ k = next
    BY <1>3
  <2> QED
    BY <2>1, <2>2 DEF DecodedBefore
<1>10. RequestOK' /\ Fit(slices, clip)' /\ Rising(joined)' /\ clip' > Ceiling
  <2>1. RequestOK'
    BY <1>1, <1>2, RequestKept
  <2>2. Fit(slices, clip)' /\ clip' > Ceiling
    BY <1>1, <1>2 DEF Fit
  <2>3. Rising(joined)'
    BY <1>1, <1>7 DEF Rising
  <2> QED
    BY <2>1, <2>2, <2>3
<1>11. PlanCovers(slices)'
  BY <1>1, <1>2, PlanCoversKept
<1>12. /\ next' \in 1 .. (Len(slices') + 1)
       /\ job' = "decoding" => next' <= Len(slices')
       /\ job' = "done" => next' = Len(slices') + 1
       /\ job' \in {"decoding", "done"}
  BY <1>1, <1>3
<1> QED
  BY <1>1, <1>2, <1>8, <1>9, <1>10, <1>11, <1>12 DEF SegInv, WholeIsOneStretch

(* A failure, or nothing.                                                 *)
LEMMA SegKept ==
  ASSUME SegInv, UNCHANGED <<clip, overlap, limit, spans, slices, next, joined>>,
         job' = job \/ (job = "decoding" /\ job' = "failed")
  PROVE  SegInv'
<1>1. RequestOK'
  BY RequestKept DEF SegInv
<1>2. PlanCovers(slices)' <=> PlanCovers(slices)
  BY PlanCoversKept
<1>3. Fit(slices, clip)' <=> Fit(slices, clip)
  BY DEF Fit
<1>5. WholeIsOneStretch'
  <2>1. WholeIsOneStretch
    BY DEF SegInv
  <2>2. Heard' = Heard /\ \A i : Region(i)' = Region(i)
    BY DEF Heard, Region
  <2> QED
    BY <2>1, <2>2 DEF WholeIsOneStretch
<1>4. Said' = Said /\ DecodedBefore(next)' = DecodedBefore(next) /\ (Rising(joined)' <=> Rising(joined))
  BY RequestKept DEF Said, DecodedBefore, Rising
<1> QED
  BY <1>1, <1>2, <1>3, <1>4, <1>5 DEF SegInv

(* Segmented decoding (asr_segmenter.py): for any clip, limit, overlap    *)
(* and speech the VAD may report, of a clip that is sliced no slice is    *)
(* longer than the engine takes, the joined text has every word at most   *)
(* once and in order, and it misses nothing but speech too short for the  *)
(* VAD and, of a span that had to be cut, a stretch shorter than MinTail  *)
(* less the overlap, never the end of the span. A clip over the limit     *)
(* that is not sliced goes to the engine whole: of it the theorem says    *)
(* only that its speech is one stretch at most a tail longer than the     *)
(* limit.                                                                 *)
THEOREM ClipDecoded == SegSpec => []ClipIsDecoded
<1>1. SegInit => SegInv
  BY SegInitially
<1>2. SegInv /\ [SegNext]_segVars => SegInv'
  <2> SUFFICES ASSUME SegInv, [SegNext]_segVars PROVE SegInv'
    OBVIOUS
  <2>1. ASSUME NEW length \in Clips, NEW lap \in Overlaps, NEW max \in {0, Ceiling}, NEW said \in Spans,
               SubmitClip(length, lap, max, said)
        PROVE  SegInv'
    BY <2>1, ClipSubmitted
  <2>2. CASE Plan
    BY <2>2, ClipPlanned
  <2>3. CASE DecodeSlice
    BY <2>3, SliceDecoded
  <2>4. CASE DecodeFails
    BY <2>4, SegKept DEF DecodeFails
  <2>5. CASE UNCHANGED segVars
    BY <2>5, SegKept DEF segVars
  <2> QED
    BY <2>1, <2>2, <2>3, <2>4, <2>5 DEF SegNext
<1>3. SegInv => ClipIsDecoded
  BY SegFacts
<1> QED
  BY <1>1, <1>2, <1>3, PTL DEF SegSpec
=============================================================================
