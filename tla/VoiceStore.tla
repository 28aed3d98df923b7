----------------------------- MODULE VoiceStore -----------------------------
(***************************************************************************)
(* The store of cloned voices (server/core/sparktts_voices.py).  A voice   *)
(* is a pair of files that no single rename replaces: a transaction keeps  *)
(* the old and the new files in a directory of its own, writes a journal,  *)
(* changes the two files and removes directory and journal.  Every entry   *)
(* point first recovers the journals it finds.  Mutations are serial (a    *)
(* thread lock and a file lock); listings are not.                         *)
(*                                                                         *)
(* One voice.  A generation is the token both files of a pair carry.  The  *)
(* process may be killed at any step; what it wrote is on the disk (each   *)
(* step of the code ends in fsync).                                        *)
(***************************************************************************)
EXTENDS Naturals, FiniteSets

CONSTANTS
  MaxTx,         \* bound: transactions
  MaxFaults      \* bound: crashes and disk errors

ASSUME VoiceAssumption == MaxTx \in Nat \ {0} /\ MaxFaults \in Nat

Legacy == 1                    \* the generation of a pair from before tokens
Transactions == 2..(MaxTx + 1)
Generations == {Legacy} \cup Transactions

VARIABLES
  json, npz,     \* generation of the two files, 0 if there is none
  tx,            \* what the journal of a transaction says, and its backups hold
  area,          \* what there is in the directory of a transaction
  journal,       \* "none", "torn" (not to be parsed) or "whole"
  step,          \* where the holder of the lock stands
  job,           \* its entry point
  token,         \* its transaction, 0 before there is one
  failed,        \* whether the commit of its transaction raised
  todo,          \* journals it has still to recover
  current,       \* transaction it restores or cleans up
  issued,        \* tokens drawn
  answer,        \* what the last mutation reported
  faults,
  reader,        \* where a listing stands that has left the lock
  readerJson,    \* generation of the JSON file it has loaded
  disturbed      \* history: whether a file of the pair has changed since it began

pair == <<json, npz>>
records == <<tx, area, journal>>
reading == <<reader, readerJson>>
voiceVars == <<pair, records, step, job, token, failed, todo, current, issued, answer, faults, reading, disturbed>>

NoTx == [op |-> "none", present |-> FALSE, json |-> 0, npz |-> 0]
Backups == {"old.json", "old.npz"}

VoiceInit ==
  /\ json \in {0, Legacy} /\ npz = json
  /\ tx = [t \in Transactions |-> NoTx]
  /\ area = [t \in Transactions |-> {}] /\ journal = [t \in Transactions |-> "none"]
  /\ step = "idle" /\ job = "none" /\ token = 0 /\ failed = FALSE /\ todo = {} /\ current = 0
  /\ issued = {} /\ answer = "none" /\ faults = 0
  /\ reader = "out" /\ readerJson = 0 /\ disturbed = FALSE

-----------------------------------------------------------------------------
(* What a journal calls for.                                               *)

NewComplete(t) == json = t /\ npz = t

OldComplete(t) ==
  IF tx[t].present
    THEN Backups \subseteq area[t] /\ json = tx[t].json /\ npz = tx[t].npz
    ELSE json = 0 /\ npz = 0

\* Mistake: without its JSON file a pair counts as deleted.
SettledByJson(t) == IF tx[t].op = "write" THEN NewComplete(t) \/ OldComplete(t) ELSE json = 0

Settled(t) == IF tx[t].op = "write" THEN NewComplete(t) \/ OldComplete(t) ELSE json = 0 /\ npz = 0

\* A journal without its directory is passed over, and one whose backup is
\* gone raises.
Verdict(t) ==
  CASE journal[t] # "whole" \/ "dir" \notin area[t] -> "ignore"
    [] OTHER -> CASE Settled(t) -> "cleanup"
                  [] ~Settled(t) /\ (tx[t].present => Backups \subseteq area[t]) -> "restore"
                  [] OTHER -> "raise"

-----------------------------------------------------------------------------
(* The lock and the end of a call.                                         *)

\* The lock is released and the caller told.
Leave(outcome) ==
  /\ step' = "idle" /\ job' = "none" /\ token' = 0 /\ failed' = FALSE /\ todo' = {} /\ current' = 0
  /\ answer' = IF job = "list" THEN answer ELSE outcome

\* list_voices and load_embedding_voice, register_*, delete_voice.
Enter(j) ==
  /\ step = "idle" /\ j \in {"list", "write", "delete"} /\ (j = "list" => reader = "out")
  /\ step' = "scan" /\ job' = j /\ todo' = {t \in Transactions : journal[t] # "none"}
  /\ answer' = IF j = "list" THEN answer ELSE "none"
  /\ UNCHANGED <<pair, records, token, failed, current, issued, faults, reading, disturbed>>

-----------------------------------------------------------------------------
(* Recovery.                                                               *)

\* An exception is logged, the journal stays, and the next one is taken.
RecoverTransaction(t) ==
  /\ step = "scan" /\ t \in todo /\ todo' = todo \ {t}
  /\ IF Verdict(t) \in {"cleanup", "restore"} THEN step' = Verdict(t) /\ current' = t
                                              ELSE UNCHANGED <<step, current>>
  /\ UNCHANGED <<pair, records, job, token, failed, issued, answer, faults, reading, disturbed>>

\* The old file is put back, or the new one removed.
RestoreJson ==
  /\ step = "restore" /\ json' = tx[current].json /\ step' = "restoreNpz"
  /\ disturbed' = TRUE
  /\ UNCHANGED <<npz, records, job, token, failed, todo, current, issued, answer, faults, reading>>

RestoreNpz ==
  /\ step = "restoreNpz" /\ npz' = tx[current].npz /\ step' = "cleanup"
  /\ disturbed' = TRUE
  /\ UNCHANGED <<json, records, job, token, failed, todo, current, issued, answer, faults, reading>>

\* rmtree of the directory of the transaction, in any order.
RemoveFile(f) ==
  /\ step = "cleanup" /\ f \in area[current] /\ (f = "dir" => area[current] = {"dir"})
  /\ area' = [area EXCEPT ![current] = @ \ {f}]
  /\ UNCHANGED <<pair, tx, journal, step, job, token, failed, todo, current, issued, answer, faults, reading, disturbed>>

\* The clean-up is over: the next journal, or the end of the call.
CleanedUp ==
  IF current = token
    THEN Leave(IF failed THEN "error" ELSE "ok")
    ELSE step' = "scan" /\ current' = 0 /\ UNCHANGED <<job, token, failed, todo, answer>>

RemoveJournal ==
  /\ step = "cleanup" /\ area[current] = {} /\ journal' = [journal EXCEPT ![current] = "none"]
  /\ CleanedUp
  /\ UNCHANGED <<pair, tx, area, issued, faults, reading, disturbed>>

\* Directories no journal names are removed.
SweepOrphans ==
  /\ step = "scan" /\ todo = {} /\ step' = "op"
  /\ area' = [t \in Transactions |-> IF journal[t] = "none" THEN {} ELSE area[t]]
  /\ UNCHANGED <<pair, tx, journal, job, token, failed, todo, current, issued, answer, faults, reading, disturbed>>

-----------------------------------------------------------------------------
(* The operations.                                                         *)

\* The lock is released; the directory is scanned without it.
LeaveToScan ==
  /\ step = "op" /\ job = "list" /\ Leave("none")
  /\ reader' = "open" /\ readerJson' = 0 /\ disturbed' = FALSE
  /\ UNCHANGED <<pair, records, issued, faults>>

\* _assert_safe_id_available and the checks of delete_voice: half a pair,
\* a mixed pair, a legacy pair that would have to be migrated.
Unavailable ==
  CASE job = "write" -> json # npz \/ json = Legacy
    [] job = "delete" -> (json = 0) # (npz = 0)
    [] OTHER -> FALSE

Refuse ==
  /\ step = "op" /\ Unavailable = TRUE /\ Leave("error")
  /\ UNCHANGED <<pair, records, issued, faults, reading, disturbed>>

NothingThere ==
  /\ step = "op" /\ job = "delete" /\ json = 0 /\ npz = 0 /\ Leave("absent")
  /\ UNCHANGED <<pair, records, issued, faults, reading, disturbed>>

\* The directory with the old pair and, to write, the new one.
Stage(t) ==
  /\ step = "op" /\ job \in {"write", "delete"} /\ ~Unavailable /\ (job = "delete" => json # 0)
  /\ t \in Transactions \ issued /\ issued' = issued \cup {t} /\ token' = t
  /\ tx' = [tx EXCEPT ![t] = [op |-> job, present |-> json # 0, json |-> json, npz |-> npz]]
  /\ area' = [area EXCEPT ![t] = {"dir"} \cup (IF json # 0 THEN Backups ELSE {})
                                    \cup (IF job = "write" THEN {"new.json", "new.npz"} ELSE {})]
  /\ step' = "staged"
  /\ UNCHANGED <<pair, journal, job, failed, todo, current, answer, faults, reading, disturbed>>

\* Mistake: the first file is replaced before the journal is written.
WriteJournalLate ==
  /\ step = "staged" /\ step' = "commit" /\ UNCHANGED journal
  /\ UNCHANGED <<pair, tx, area, job, token, failed, todo, current, issued, answer, faults, reading, disturbed>>

WriteJournal ==
  /\ step = "staged" /\ step' = "commit" /\ journal' = [journal EXCEPT ![token] = "whole"]
  /\ UNCHANGED <<pair, tx, area, job, token, failed, todo, current, issued, answer, faults, reading, disturbed>>

\* The archive of a new pair is replaced first, the JSON file of an old one
\* unlinked first.
CommitFirst ==
  /\ step = "commit" /\ step' = "commitSecond"
  /\ IF job = "write" THEN npz' = token /\ area' = [area EXCEPT ![token] = @ \ {"new.npz"}] /\ UNCHANGED json
                      ELSE json' = 0 /\ UNCHANGED <<npz, area>>
  /\ disturbed' = TRUE
  /\ UNCHANGED <<tx, journal, job, token, failed, todo, current, issued, answer, faults, reading>>

CommitSecond ==
  /\ step = "commitSecond" /\ step' = "cleanup" /\ current' = token
  /\ IF job = "write" THEN json' = token /\ area' = [area EXCEPT ![token] = @ \ {"new.json"}] /\ UNCHANGED npz
                      ELSE npz' = 0 /\ UNCHANGED <<json, area>>
  /\ disturbed' = TRUE
  /\ UNCHANGED <<tx, journal, job, token, failed, todo, issued, answer, faults, reading>>

-----------------------------------------------------------------------------
(* A listing: the JSON file is loaded, then the token of its archive.      *)

LoadJson ==
  /\ reader = "open" /\ readerJson' = json /\ reader' = "loaded"
  /\ UNCHANGED <<pair, records, step, job, token, failed, todo, current, issued, answer, faults, disturbed>>

PairTokenMatches == npz = readerJson

\* A pair of one generation is listed, anything else is not.
ListPair ==
  /\ reader = "loaded"
  /\ reader' = IF readerJson # 0 /\ PairTokenMatches THEN "listed" ELSE "hidden"
  /\ UNCHANGED <<pair, records, step, job, token, failed, todo, current, issued, answer, faults, readerJson, disturbed>>

EndListing ==
  /\ reader \in {"listed", "hidden"} /\ reader' = "out" /\ readerJson' = 0 /\ disturbed' = FALSE
  /\ UNCHANGED <<pair, records, step, job, token, failed, todo, current, issued, answer, faults>>

-----------------------------------------------------------------------------
(* Faults.                                                                 *)

Fault == faults < MaxFaults /\ faults' = faults + 1

\* The process that holds the lock is killed; a listing may be another's.
KillHolder ==
  /\ Fault /\ step # "idle" /\ Leave("lost")
  /\ UNCHANGED <<pair, records, issued, reading, disturbed>>

\* The journal is not written to its end: an error or a kill.
TearJournal(outcome) ==
  /\ Fault /\ step = "staged" /\ Leave(outcome)
  /\ journal' = [journal EXCEPT ![token] = "torn"]
  /\ UNCHANGED <<pair, tx, area, issued, reading, disturbed>>

\* The disk is full before there is a journal.
StageFails ==
  /\ Fault /\ step = "staged" /\ Leave("error")
  /\ UNCHANGED <<pair, records, issued, reading, disturbed>>

\* One of the two changes raises: the transaction is recovered at once.
CommitFails ==
  /\ Fault /\ step \in {"commit", "commitSecond"} /\ failed' = TRUE
  /\ step' = Verdict(token) /\ current' = token
  /\ UNCHANGED <<pair, records, job, token, todo, issued, answer, reading, disturbed>>

\* Cleaning up or restoring raises; the journal stays for the next reader.
RepairFails ==
  /\ Fault /\ step \in {"cleanup", "restore", "restoreNpz"} /\ CleanedUp
  /\ UNCHANGED <<pair, records, issued, reading, disturbed>>

VoiceNext ==
  \/ \E j \in {"list", "write", "delete"} : Enter(j)
  \/ (\E t \in Transactions : RecoverTransaction(t)) \/ RestoreJson \/ RestoreNpz
  \/ (\E f \in Backups \cup {"dir", "new.json", "new.npz"} : RemoveFile(f)) \/ RemoveJournal \/ SweepOrphans
  \/ LeaveToScan \/ Refuse \/ NothingThere
  \/ (\E t \in Transactions : Stage(t)) \/ WriteJournal \/ CommitFirst \/ CommitSecond
  \/ LoadJson \/ ListPair \/ EndListing
  \/ KillHolder \/ (\E o \in {"error", "lost"} : TearJournal(o)) \/ StageFails \/ CommitFails

VoiceSpec == VoiceInit /\ [][VoiceNext]_voiceVars

\* The same with a disk that may refuse a repair.
StubbornVoiceSpec == VoiceInit /\ [][VoiceNext \/ RepairFails]_voiceVars

-----------------------------------------------------------------------------
(* Properties.                                                             *)

Steps == {"idle", "scan", "restore", "restoreNpz", "cleanup", "op", "staged", "commit", "commitSecond"}

\* Types; a transaction is under repair exactly in the steps of a repair.
VoiceTypeOK ==
  /\ json \in Generations \cup {0} /\ npz \in Generations \cup {0}
  /\ tx \in [Transactions -> [op : {"none", "write", "delete"}, present : BOOLEAN,
                             json : Generations \cup {0}, npz : Generations \cup {0}]]
  /\ area \in [Transactions -> SUBSET (Backups \cup {"dir", "new.json", "new.npz"})]
  /\ journal \in [Transactions -> {"none", "torn", "whole"}]
  /\ step \in Steps /\ job \in {"none", "list", "write", "delete"}
  /\ token \in Transactions \cup {0} /\ failed \in BOOLEAN
  /\ (current # 0) = (step \in {"restore", "restoreNpz", "cleanup"})
  /\ todo \subseteq Transactions /\ current \in Transactions \cup {0} /\ issued \subseteq Transactions
  /\ answer \in {"none", "ok", "error", "absent", "lost"} /\ faults \in 0..MaxFaults
  /\ reader \in {"out", "open", "loaded", "listed", "hidden"} /\ readerJson \in Generations \cup {0}
  /\ disturbed \in BOOLEAN

\* When recovery is over the two files are of one generation, or both gone
\* (the docstring of _atomic_write_pair: "never a mixed generation"): also
\* after kills in the middle of a commit, of a recovery and of the recovery
\* of that.
RecoveredPairIsWhole == step \in {"op", "staged"} => json = npz

\* A journal that recovery leaves behind never acts again: whatever is
\* registered later, it neither restores nor removes anything.
LeftoversAreInert ==
  step \in {"op", "staged"} => \A t \in Transactions :
    journal[t] # "none" => Verdict(t) = "ignore" \/ (tx[t].present /\ ~(Backups \subseteq area[t]))

\* The state of the voice as its callers may think of it: a mixed pair stands
\* for the one its transaction started from.
Voice ==
  CASE json = npz -> json
    [] json # npz /\ (\E t \in Transactions : Verdict(t) = "restore")
         -> tx[CHOOSE t \in Transactions : Verdict(t) = "restore"].json
    [] OTHER -> 0

\* A listing takes no lock and may meet a pair in the middle of its change;
\* but if nothing changes while it scans, it names the voice exactly when
\* there is one, whatever state an earlier crash left the files in.
UndisturbedListingIsRight ==
  reader \in {"listed", "hidden"} /\ ~disturbed => (reader = "listed") = (Voice # 0)

Applied == token # 0 /\ (IF job = "write" THEN NewComplete(token) ELSE json = 0 /\ npz = 0)

Phase ==
  CASE step = "idle" \/ job = "list" -> "idle"
    [] step # "idle" /\ job # "list" /\ Applied -> "applied"
    [] OTHER -> "called"

Register == INSTANCE VoiceRegister WITH
  voice <- Voice, phase <- Phase, request <- IF job = "list" THEN "none" ELSE job

\* The store implements the register: replacing and deleting a voice are
\* atomic, a reported success is neither undone nor outlived by the old pair,
\* a failure leaves the old pair or the new one.
VoiceChangesAtomically == Register!RegisterSpec

\* After a success no journal is left that brings an older pair back, also
\* when a repair has failed before (the comment in _cleanup_transaction: "A
\* leftover journal is safe: the next reader retries recovery").
LeftoverJournalIsSafe == step = "idle" /\ answer = "ok" => \A t \in Transactions : Verdict(t) # "restore"

\* Recovery leaves a whole pair and journals that can do no more harm, and a
\* listing that follows it tells the truth.
VoicesAreWhole ==
  /\ VoiceTypeOK
  /\ RecoveredPairIsWhole
  /\ LeftoversAreInert
  /\ UndisturbedListingIsRight
=============================================================================
