----------------------------- MODULE ProfileEnv -----------------------------
(***************************************************************************)
(* apply_profile (server/core/profile_loader.py): how the process          *)
(* environment is reconciled with a profile, key by key.  A full apply     *)
(* happens once, at startup; every later one is a reload of one kind of    *)
(* backend and touches the keys of that kind only.  Operator keys are the  *)
(* keys that were set when the process started; a profile may declare some *)
(* of them its own.  The engine resolver exports paths on top of that.     *)
(*                                                                         *)
(* The value of a key is abstracted to where it comes from: a profile, the *)
(* operator, or nowhere.  What a reload adds to BackendManager, which sees *)
(* the environment of a kind as one value, is how that value comes about.  *)
(***************************************************************************)
EXTENDS FiniteSets

CONSTANTS
  EnvKeys,        \* environment keys
  KeyKind,        \* _key_kind: "asr", "tts" or "shared"
  OperatorKeys,   \* _OPERATOR_KEYS
  CriticalKeys,   \* CRITICAL_KEYS
  Refs,           \* profiles
  Block,          \* keys of a profile's env block, derived keys included
  Owned,          \* profile_owned_env
  Engines,        \* env_var of the required_engines
  Agreeing,       \* profiles that ask of a critical key what the operator set
  Operator, Absent, TornRef

Kinds == {"asr", "tts"}
Scopes == Kinds \cup {"shared"}

ASSUME ProfileAssumption ==
  /\ KeyKind \in [EnvKeys -> Scopes]
  /\ OperatorKeys \subseteq EnvKeys
  /\ CriticalKeys \subseteq EnvKeys
  /\ Block \in [Refs -> SUBSET EnvKeys]
  /\ Owned \in [Refs -> SUBSET EnvKeys]
  /\ \A p \in Refs : Owned[p] \subseteq Block[p]
  /\ Engines \in [Refs -> SUBSET EnvKeys]
  /\ {Operator, Absent, TornRef} \cap Refs = {}
  /\ Operator # Absent

VARIABLES
  environ,     \* os.environ: where the value of a key comes from
  appliedKeys, \* _APPLIED_KEYS
  overridden,  \* _OWNED_OVERRIDES
  inForce,     \* history: the profile a scope was last written from
  escaped,     \* history: keys written by an apply that did not record them
  booted

envVars == <<environ, appliedKeys, overridden, inForce, escaped, booted>>

EnvTypeOK ==
  /\ environ \in [EnvKeys -> Refs \cup {Operator, Absent}]
  /\ appliedKeys \subseteq EnvKeys
  /\ overridden \subseteq OperatorKeys
  /\ inForce \in [Scopes -> Refs \cup {TornRef}]
  /\ escaped \subseteq EnvKeys
  /\ booted \in BOOLEAN

EnvInit ==
  /\ environ = [k \in EnvKeys |-> IF k \in OperatorKeys THEN Operator ELSE Absent]
  /\ appliedKeys = {}
  /\ overridden = {}
  /\ inForce = [c \in Scopes |-> TornRef]
  /\ escaped = {}
  /\ booted = FALSE

-----------------------------------------------------------------------------
(* The sets apply_profile computes, for profile p and the scopes it covers. *)

InScope(k, scopes) == KeyKind[k] \in scopes

Merged(p, scopes) == {k \in Block[p] : InScope(k, scopes)}

\* _OPERATOR_KEYS - owned
EffOperator(p) == OperatorKeys \ Owned[p]

Relinquished(p, scopes) == {k \in overridden : k \notin Owned[p] /\ InScope(k, scopes)}

\* Mistake: the stale keys of the other kind are cleared too.
StaleUnscoped(p, scopes) == {k \in appliedKeys \ Merged(p, scopes) : k \notin EffOperator(p)}

Stale(p, scopes) ==
  {k \in appliedKeys \ Merged(p, scopes) : k \notin EffOperator(p) /\ InScope(k, scopes)}

\* The keys the write loop assigns.
Writable(p, scopes) == Merged(p, scopes) \ EffOperator(p)

\* A critical key that belongs to the operator and has another value.
Conflict(p, scopes) ==
  \E k \in Merged(p, scopes) \cap CriticalKeys \cap EffOperator(p) : p \notin Agreeing

\* Hand back, clear, and write the keys in written.
Written(p, scopes, written) ==
  [k \in EnvKeys |->
     IF k \in written THEN p
     ELSE IF k \in Relinquished(p, scopes) THEN Operator
     ELSE IF k \in Stale(p, scopes) THEN Absent
     ELSE environ[k]]

OverriddenBy(p, scopes, written) ==
  (overridden \ Relinquished(p, scopes)) \cup (written \cap OperatorKeys \cap Owned[p])

\* The bookkeeping after the write loop.
Recorded(p, scopes) ==
  {k \in appliedKeys : ~InScope(k, scopes)} \cup Writable(p, scopes)

\* resolve_all exports the shared engines and those of the kind.
Exportable(p, scopes) == {k \in Engines[p] : KeyKind[k] \in scopes \cup {"shared"}}

-----------------------------------------------------------------------------
(* startup(): a full apply, then the engines of the profile, all of which   *)
(* must resolve.  The exports of startup are not recorded.  A conflict or a *)
(* missing engine ends the process.                                         *)
Boot(p) ==
  /\ ~booted
  /\ ~Conflict(p, Scopes)
  /\ \E optional \in SUBSET Engines[p] :
       LET exports == Engines[p] \ optional IN
       /\ environ' = [k \in EnvKeys |->
                        IF k \in exports THEN p ELSE Written(p, Scopes, Writable(p, Scopes))[k]]
       /\ escaped' = exports \ Recorded(p, Scopes)
  /\ overridden' = OverriddenBy(p, Scopes, Writable(p, Scopes))
  /\ appliedKeys' = Recorded(p, Scopes)
  /\ inForce' = [c \in Scopes |-> p]
  /\ booted' = TRUE

(* apply_profile(p, resolve_engines=True, kind=c) of a reload or of its     *)
(* rollback.  A resolver that fails has exported what it could before it    *)
(* raised; the exception is logged, and the exports are not recorded.       *)
Reload(p, c) ==
  /\ booted
  /\ ~Conflict(p, {c})
  /\ \E exports \in SUBSET Exportable(p, {c}), resolved \in BOOLEAN :
       /\ environ' = [k \in EnvKeys |->
                        IF k \in exports THEN p ELSE Written(p, {c}, Writable(p, {c}))[k]]
       /\ appliedKeys' = Recorded(p, {c}) \cup (IF resolved THEN exports \ OperatorKeys ELSE {})
       /\ escaped' = (escaped \cup exports) \ appliedKeys'
  /\ overridden' = OverriddenBy(p, {c}, Writable(p, {c}))
  /\ inForce' = [inForce EXCEPT ![c] = p]
  /\ UNCHANGED booted

(* The write loop meets a conflict and raises.  The keys handed back,       *)
(* cleared and written before it stay as they are; nothing is recorded.     *)
ReloadRaises(p, c) ==
  /\ booted
  /\ Conflict(p, {c})
  /\ \E written \in SUBSET Writable(p, {c}) :
       /\ environ' = Written(p, {c}, written)
       /\ overridden' = OverriddenBy(p, {c}, written)
       /\ escaped' = escaped \cup (written \ appliedKeys)
  /\ inForce' = [inForce EXCEPT ![c] = TornRef]
  /\ UNCHANGED <<appliedKeys, booted>>

EnvNext ==
  \/ \E p \in Refs : Boot(p)
  \/ \E p \in Refs, c \in Kinds : Reload(p, c)
  \/ \E p \in Refs, c \in Kinds : ReloadRaises(p, c)

EnvSpec == EnvInit /\ [][EnvNext]_envVars

-----------------------------------------------------------------------------
(* Whatever sequence of reloads, failures and rollbacks went before, a key  *)
(* of one kind has the value of the profile last applied for that kind, if  *)
(* that profile defines it, and no value otherwise.  Out of it are operator *)
(* keys, and keys that an apply wrote without recording them.               *)
EnvironFollowsProfiles ==
  \A k \in EnvKeys \ (OperatorKeys \cup escaped) :
    LET p == inForce[KeyKind[k]] IN
    KeyKind[k] \in Kinds /\ p # TornRef =>
      /\ k \in Block[p] => environ[k] = p
      /\ k \notin Block[p] \cup Engines[p] => environ[k] = Absent

(* Every value that came from a profile is on record, so that the next      *)
(* apply of its scope can clear it, or was written by an apply that failed  *)
(* half way or by the resolver of startup.                                  *)
ProfileValuesAreOnRecord ==
  \A k \in EnvKeys \ OperatorKeys : environ[k] \in Refs => k \in appliedKeys \cup escaped

(* An operator key has the operator's value unless the profile in force for *)
(* it owns the key or the resolver exported it; and a key that was handed   *)
(* over is handed back by the next profile that does not own it.            *)
OperatorValuesComeBack ==
  \A k \in OperatorKeys \ escaped :
    /\ k \notin overridden => environ[k] = Operator
    /\ k \in overridden /\ inForce[KeyKind[k]] # TornRef => k \in Owned[inForce[KeyKind[k]]]

(* The environment is explained by the profiles in force and the operator's *)
(* values, after any sequence of one-sided reloads and failed ones.         *)
EnvironIsAccountedFor ==
  /\ EnvTypeOK
  /\ EnvironFollowsProfiles
  /\ ProfileValuesAreOnRecord
  /\ OperatorValuesComeBack
=============================================================================
