--------------------------- MODULE EngineResolver ---------------------------
(***************************************************************************)
(* Provisioning of TensorRT engines at every start and reload              *)
(* (server/core/engine_resolver.py, hf_artifacts.py).  For each engine of  *)
(* the profile the resolver trusts the file beside a sidecar that names    *)
(* this host and the file's hash, or adopts a file without one, or fetches *)
(* the bundle published for the host and installs it file by file.  The    *)
(* process may die at any step; the device may be flashed, and files may   *)
(* change, while it is down.                                               *)
(*                                                                         *)
(* Calls are serial (one flock covers resolve_all).  A hash is the content *)
(* it is taken of.  The engines of the profile share a directory and a     *)
(* bundle, which is usually so.                                            *)
(***************************************************************************)
EXTENDS Naturals, FiniteSets

CONSTANTS
  EngineCount,   \* engines of the profile
  Hosts,         \* host signatures
  Bundle,        \* [host signature -> files of its published bundle, {} if there is none]
  MaxMishaps     \* bound: crashes, flashes and files changed by hand

EngineFiles == 1..EngineCount
Extra == EngineCount + 1          \* an extra_file of every engine
Files == 1..Extra

ASSUME ResolverAssumption ==
  /\ EngineCount \in Nat \ {0} /\ Bundle \in [Hosts -> SUBSET Files] /\ MaxMishaps \in Nat
  \* a bundle may lack the extra file, but no engine of its profile
  /\ \A h \in Hosts : Bundle[h] = {} \/ EngineFiles \subseteq Bundle[h]

VARIABLES
  host,        \* detect_host_signature()
  locked,      \* require_published_integrity
  force,       \* OVS_FORCE_REBUILD
  content,     \* bytes of every file, or Missing
  meta,        \* sidecar of every engine
  registry,    \* whether the registry answers
  resolver,    \* where the process stands
  engine,      \* the engine it resolves
  payload,     \* files of the bundle still to be moved, or sidecars still to be written
  moving,      \* file that is unlinked and not yet replaced, or 0
  report,      \* engines that failed
  mishaps,     \* mishaps so far
  owned,       \* history: files that have been there
  sidecars     \* history: what became of every engine's sidecar

settled == <<host, locked, force>>
disk == <<content, meta>>
engineVars == <<settled, disk, registry, resolver, engine, payload, moving, report, mishaps, owned,
                sidecars>>

Missing == [origin |-> "missing", host |-> CHOOSE h \in Hosts : TRUE]
Damaged == [origin |-> "damaged", host |-> CHOOSE h \in Hosts : TRUE]
Published(h) == [origin |-> "published", host |-> h]
Staged(h) == [origin |-> "staged", host |-> h]    \* built on such a host, not published
Contents == {Missing, Damaged} \cup {Published(h) : h \in Hosts} \cup {Staged(h) : h \in Hosts}

\* What is beside an engine: nothing, something that is not a sidecar, a
\* sidecar from before the platform field (the hash Missing stands for none),
\* or one of today.
NoMeta == [kind |-> "none"]
Malformed == [kind |-> "malformed"]
LegacyMeta(h, c) == [kind |-> "legacy", host |-> h, hash |-> c]
Meta(h, c, source) == [kind |-> "current", host |-> h, hash |-> c, source |-> source]
Metas == {NoMeta, Malformed} \cup {LegacyMeta(h, c) : h \in Hosts, c \in Contents}
           \cup {Meta(h, c, s) : h \in Hosts, c \in Contents, s \in {"hf_bundle", "migration"}}

Fits(c) == c.origin \in {"published", "staged"} /\ c.host = host

\* Installations from before the resolver, from any of its releases, and ones
\* whose engines were replaced since.
EngineInit ==
  /\ host \in Hosts /\ locked \in BOOLEAN /\ force \in BOOLEAN
  /\ \E c \in Contents, x \in {Missing, Published(host)}, h \in Hosts :
       /\ content = [f \in Files |-> IF f = Extra THEN x ELSE c]
       /\ meta \in {[e \in EngineFiles |-> m] : m \in
            {NoMeta, Malformed, LegacyMeta(h, Staged(h)), LegacyMeta(h, Missing),
             Meta(h, Published(h), "hf_bundle"), Meta(h, Staged(h), "migration")}}
  /\ registry \in {"up", "down"} /\ resolver = "off" /\ engine = 1 /\ payload = {} /\ moving = 0
  /\ report = {} /\ mishaps = 0
  /\ owned = {f \in Files : content[f] # Missing}
  \* an engine that came without a hash, or with one
  /\ sidecars = [e \in EngineFiles |->
                   IF meta[e].kind = "none" \/ meta[e] \in {LegacyMeta(h, Missing) : h \in Hosts}
                   THEN "bare" ELSE "kept"]

-----------------------------------------------------------------------------
(* Tests.                                                                  *)

ExtraFilesExist == content[Extra] # Missing

\* Mistake: the bytes are not hashed again.
MetaMatchesName(e) == content[e] # Missing /\ meta[e].kind = "current" /\ meta[e].host = host

MetaMatches(e) ==
  /\ content[e] # Missing /\ meta[e].kind = "current"
  /\ meta[e].host = host /\ meta[e].hash = content[e]

\* The lock in the repository names the published bundle.
ReleaseLockHonoured(e) == locked => Bundle[host] # {} /\ meta[e].source = "hf_bundle"

CacheHolds(e) == ~force /\ MetaMatches(e) /\ ReleaseLockHonoured(e) /\ ExtraFilesExist

\* A file without a sidecar is trusted once; a legacy sidecar must agree in
\* everything it knows.
Migratable(e) ==
  /\ ~force /\ ~locked /\ ExtraFilesExist /\ content[e] # Missing
  /\ \/ meta[e].kind = "none"
     \/ meta[e].kind = "legacy" /\ meta[e].host = host /\ meta[e].hash \in {Missing, content[e]}

-----------------------------------------------------------------------------
(* resolve_all.                                                            *)

resolving == <<settled, registry, mishaps>>

ResolveAll ==
  /\ resolver = "down"
  /\ resolver' = "check" /\ engine' = 1 /\ report' = {}
  /\ UNCHANGED <<resolving, disk, payload, moving, owned, sidecars>>

\* The outcome of one engine is noted and the next one taken.  Backends are
\* imported only if none has failed.
NextEngine(failed) ==
  /\ report' = IF failed THEN report \cup {engine} ELSE report
  /\ payload' = {} /\ moving' = 0
  /\ IF engine < EngineCount
       THEN engine' = engine + 1 /\ resolver' = "check"
       ELSE engine' = 1 /\ resolver' = IF report' = {} THEN "serving" ELSE "down"

CacheHit ==
  /\ resolver = "check" /\ CacheHolds(engine)
  /\ NextEngine(FALSE)
  /\ UNCHANGED <<resolving, disk, owned, sidecars>>

MigrateExistingEngine ==
  /\ resolver = "check" /\ ~CacheHolds(engine) /\ Migratable(engine)
  /\ meta' = [meta EXCEPT ![engine] = Meta(host, content[engine], "migration")]
  /\ NextEngine(FALSE)
  /\ UNCHANGED <<resolving, content, owned, sidecars>>

\* Stale: the sidecar goes, the engine stays until a bundle replaces it.  Where none does, the next
\* start finds an engine without a sidecar.
ClearSidecar ==
  /\ resolver = "check" /\ ~CacheHolds(engine) /\ ~Migratable(engine)
  /\ meta' = [meta EXCEPT ![engine] = NoMeta]
  /\ resolver' = "fetch"
  /\ sidecars' = IF meta[engine].kind = "none" THEN sidecars
                 ELSE [sidecars EXCEPT ![engine] = "stripped"]
  /\ UNCHANGED <<resolving, content, engine, payload, moving, report, owned>>

\* No manifest, no bundle for this host, drift from the release lock, a
\* download that breaks or has another hash: nothing was touched.
HfResolveFails ==
  /\ resolver = "fetch" /\ (registry = "down" \/ Bundle[host] = {})
  /\ NextEngine(TRUE)
  /\ UNCHANGED <<resolving, disk, owned, sidecars>>

\* Downloaded, verified and extracted beside the target directory.
BundleExtracted ==
  /\ resolver = "fetch" /\ registry = "up" /\ Bundle[host] # {}
  /\ resolver' = "move" /\ payload' = Bundle[host]
  /\ UNCHANGED <<resolving, disk, engine, moving, report, owned, sidecars>>

\* A file is unlinked, then its successor is renamed into its place.
UnlinkTarget(f) ==
  /\ resolver = "move" /\ moving = 0 /\ f \in payload /\ content[f] # Missing
  /\ content' = [content EXCEPT ![f] = Missing]
  /\ moving' = f
  /\ UNCHANGED <<resolving, meta, resolver, engine, payload, report, owned, sidecars>>

\* Mistake: a file that is not there is not replaced.
MoveOverTarget(f) ==
  /\ resolver = "move" /\ moving = f
  /\ content' = [content EXCEPT ![f] = Published(host)] /\ owned' = owned \cup {f}
  /\ payload' = payload \ {f} /\ moving' = 0
  /\ UNCHANGED <<resolving, meta, resolver, engine, report, sidecars>>

MoveIntoPlace(f) ==
  /\ resolver = "move" /\ f \in payload /\ content[f] = Missing /\ moving \in {0, f}
  /\ content' = [content EXCEPT ![f] = Published(host)] /\ owned' = owned \cup {f}
  /\ payload' = payload \ {f} /\ moving' = 0
  /\ UNCHANGED <<resolving, meta, resolver, engine, report, sidecars>>

\* The file system refuses (the exception is not an ArtifactError): the
\* engine is reported, what was moved stays.
MoveFails ==
  /\ resolver = "move" /\ payload # {} /\ mishaps < MaxMishaps
  /\ mishaps' = mishaps + 1
  /\ NextEngine(TRUE)
  /\ UNCHANGED <<settled, registry, disk, owned, sidecars>>

\* All in place: is the engine there, are its extra files?
BundleInstalled ==
  /\ resolver = "move" /\ payload = {}
  /\ IF content[engine] # Missing /\ ExtraFilesExist
       THEN /\ resolver' = "record" /\ payload' = {e \in EngineFiles : content[e] # Missing}
            /\ UNCHANGED <<engine, report, moving>>
       ELSE NextEngine(TRUE)
  /\ UNCHANGED <<resolving, disk, owned, sidecars>>

\* A sidecar for every engine file of the directory; one that cannot be
\* written is passed over.
RecordMeta(e) ==
  /\ resolver = "record" /\ e \in payload
  /\ payload' = payload \ {e}
  /\ \/ /\ meta' = [meta EXCEPT ![e] = Meta(host, content[e], "hf_bundle")]
        /\ sidecars' = [sidecars EXCEPT ![e] = "kept"]
     \/ UNCHANGED <<meta, sidecars>>
  /\ UNCHANGED <<resolving, content, resolver, engine, moving, report, owned>>

BundleRecorded ==
  /\ resolver = "record" /\ payload = {}
  /\ NextEngine(FALSE)
  /\ UNCHANGED <<resolving, disk, owned, sidecars>>

-----------------------------------------------------------------------------
(* Around the process.                                                     *)

\* Started by the container; a failed start is repeated by its restart policy.
PowerOn ==
  /\ resolver = "off" /\ resolver' = "down"
  /\ UNCHANGED <<resolving, disk, engine, payload, moving, report, owned, sidecars>>

Stop ==
  /\ resolver = "serving" /\ resolver' = "off"
  /\ UNCHANGED <<resolving, disk, engine, payload, moving, report, owned, sidecars>>

Mishap == mishaps < MaxMishaps /\ mishaps' = mishaps + 1

\* The process dies; the extraction directory is left behind, unread.
Crash ==
  /\ Mishap /\ resolver \notin {"off", "down"}
  /\ resolver' = "down" /\ engine' = 1 /\ payload' = {} /\ moving' = 0 /\ report' = {}
  /\ UNCHANGED <<settled, registry, disk, owned, sidecars>>

\* Another JetPack or TensorRT.
Flash ==
  /\ Mishap /\ resolver = "off" /\ host' \in Hosts \ {host}
  /\ UNCHANGED <<locked, force, registry, disk, resolver, engine, payload, moving, report, owned,
                 sidecars>>

\* An engine is copied by hand, or its bytes rot.
ReplaceEngine(e, c) ==
  /\ Mishap /\ resolver = "off" /\ c # content[e]
  /\ content' = [content EXCEPT ![e] = c]
  /\ UNCHANGED <<settled, registry, meta, resolver, engine, payload, moving, report, owned, sidecars>>

RegistryTurns ==
  /\ registry' = IF registry = "up" THEN "down" ELSE "up"
  /\ UNCHANGED <<settled, disk, resolver, engine, payload, moving, report, mishaps, owned, sidecars>>

ResolverSteps ==
  \/ ResolveAll \/ CacheHit \/ MigrateExistingEngine \/ ClearSidecar \/ HfResolveFails \/ BundleExtracted
  \/ \E f \in Files : UnlinkTarget(f) \/ MoveIntoPlace(f)
  \/ BundleInstalled \/ (\E e \in EngineFiles : RecordMeta(e)) \/ BundleRecorded

EngineNext ==
  \/ ResolverSteps \/ MoveFails
  \/ PowerOn \/ Stop \/ Crash \/ Flash \/ RegistryTurns
  \/ \E e \in EngineFiles : \E c \in {Damaged, Staged(host)} : ReplaceEngine(e, c)

\* A started process runs on, and is started again when it fails.
EngineFairness == WF_engineVars(ResolverSteps)

EngineSpec == EngineInit /\ [][EngineNext]_engineVars /\ EngineFairness

-----------------------------------------------------------------------------
(* Properties.                                                             *)

\* Types; no file is out of its place except in the hands of the resolver.
EngineTypeOK ==
  /\ host \in Hosts /\ locked \in BOOLEAN /\ force \in BOOLEAN
  /\ content \in [Files -> Contents] /\ \A e \in EngineFiles : meta[e] \in Metas
  /\ registry \in {"up", "down"}
  /\ resolver \in {"off", "down", "check", "fetch", "move", "record", "serving"}
  /\ engine \in EngineFiles /\ payload \subseteq Files /\ moving \in {0} \cup payload
  /\ (moving # 0 => resolver = "move") /\ report \subseteq EngineFiles
  /\ mishaps \in 0..MaxMishaps
  /\ sidecars \in [EngineFiles -> {"bare", "kept", "stripped"}]

\* An engine the backends are given was built for this host as long as the sidecar it came with, or
\* was given, is still consulted: no crash between two files or two sidecars, no flash and no
\* exchanged file gets past that check.  Two kinds are adopted unseen: an engine that came without a
\* hash, and one whose sidecar a start removed as stale, malformed or unverified before it failed to
\* fetch a bundle.  The second is not what the comments promise (a malformed sidecar "is *not*
\* treated as absent"; the sidecar is removed so that it "can't falsely match").
OnlyAdoptionMisjudges ==
  resolver = "serving" =>
    \A e \in EngineFiles :
      Fits(content[e]) \/ (meta[e].source = "migration" /\ sidecars[e] \in {"bare", "stripped"})

\* A release-locked engine that is served has the published bytes.
LockedEnginesArePublished ==
  resolver = "serving" /\ locked => \A e \in EngineFiles : content[e] = Published(host)

\* A mishap costs at most the one file that was being replaced: a stale or
\* unverified engine is kept until its replacement is at hand (the comment in
\* _resolve_one: "Do NOT delete the engine file itself here").
LossIsBounded ==
  Cardinality({f \in owned : content[f] = Missing}) <= mishaps + (IF moving = 0 THEN 0 ELSE 1)

\* Once the registry answers and has a complete bundle for this host, a
\* process that is started gets to serve, whatever was left on the disk.
ProvisionedInTheEnd ==
  []<>(resolver \in {"serving", "off"}) \/ []<>(registry = "down") \/ []<>(Bundle[host] # Files)

\* What a process serves with fits its host, the adopted engines excepted, and its release, and what
\* is on the disk is not given up before its replacement is there.
EnginesAreCertified ==
  /\ EngineTypeOK
  /\ OnlyAdoptionMisjudges
  /\ LockedEnginesArePublished
  /\ LossIsBounded
=============================================================================
