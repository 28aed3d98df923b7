--------------------------- MODULE Content_proofs ---------------------------
(* Theorems about what outlives a request: on the disk of the server, the   *)
(* voice store, its recovery and its refinement of VoiceRegister, and the   *)
(* engine resolver; between the agent and the server, the replies that      *)
(* become responses, and the history a prompt comes from. For any number of *)
(* transactions, faults, engines, turns, chunks, rounds and clears.         *)
EXTENDS VoiceStore, EngineResolver, ReplyStream, TurnHistory, FiniteSetTheorems, SequenceTheorems, TLAPS

-----------------------------------------------------------------------------
(* The voice store.                                                         *)

(* A journal that recovery could act on: whole, its directory there, and  *)
(* the old files in it if there were any.                                 *)
Potent(t) ==
  /\ journal[t] = "whole" /\ "dir" \in area[t]
  /\ tx[t].present => Backups \subseteq area[t]

(* The generation a transaction is to leave in both files.                *)
New(t) == IF tx[t].op = "write" THEN t ELSE 0

(* The steps of a repair, ...                                             *)
Repairs == {"restore", "restoreNpz", "cleanup"}
(* ... and of a change.                                                   *)
Changes == {"staged", "commit", "commitSecond"}

(* What is on the disk bears a token that was drawn; a transaction        *)
(* records a whole pair, never of its own token; and there is a journal   *)
(* only of a transaction that began.                                      *)
RecordsFit ==
  /\ json \in issued \cup {0, Legacy} /\ npz \in issued \cup {0, Legacy}
  /\ \A t \in Transactions :
       /\ tx[t].npz = tx[t].json /\ (tx[t].present <=> tx[t].json # 0)
       /\ tx[t].json \in (issued \cup {0, Legacy}) \ {t}
       /\ journal[t] = "whole" => tx[t].op # "none"
       /\ journal[t] # "none" => t \in issued

(* The holder of the lock has a transaction from its staging to the end,  *)
(* and what it repairs then is its own.                                   *)
HolderFits ==
  /\ step = "idle" <=> job = "none"
  /\ step \in {"idle", "scan", "op"} => token = 0
  /\ step \in Changes => token # 0
  /\ token # 0 =>
       /\ token \in issued /\ job \in {"write", "delete"} /\ tx[token].op = job
       /\ job = "delete" => tx[token].json # 0
       /\ step \in Repairs => current = token

(* How far a change has come: the old pair is backed up before the        *)
(* journal is written, and the first of the two files alone is new before *)
(* the second.                                                            *)
ChangesFit ==
  /\ step = "staged" => /\ journal[token] = "none" /\ "dir" \in area[token] /\ json = tx[token].json
                        /\ tx[token].present => Backups \subseteq area[token]
  /\ step \in {"commit", "commitSecond"} => Potent(token)
  /\ step = "commit" => json = tx[token].json /\ npz = tx[token].json
  /\ step = "commitSecond" /\ job = "write" => npz = token /\ json = tx[token].json
  /\ step = "commitSecond" /\ job = "delete" => json = 0 /\ npz = tx[token].json

(* How far a repair has come; and a holder that reports a success has     *)
(* left the new pair.                                                     *)
RepairsFit ==
  /\ step \in {"restore", "restoreNpz"} => Potent(current) /\ (token # 0 => failed)
  /\ step = "restore" => ~(json = New(current) /\ npz = New(current))
  /\ step = "restoreNpz" => json = tx[current].json
  /\ step = "cleanup" => /\ json = npz /\ journal[current] = "whole"
                         /\ token # 0 /\ ~failed => json = New(token)

(* The journals that could act.                                           *)
Potents == {t \in Transactions : Potent(t)}

(* At most one journal could act, and none while an operation is checked  *)
(* and staged: it is that of the change under way, or recovery has it     *)
(* before it.                                                             *)
OnePotent ==
  /\ \A t, u \in Potents : t = u
  /\ \A t \in Potents :
       /\ step \notin {"op", "staged"}
       /\ step \in {"commit", "commitSecond"} => t = token
       /\ step = "scan" => t \in todo
       /\ step \in Repairs => t = current \/ t \in todo

(* The two files differ only within what that journal knows.              *)
PairFits ==
  /\ \A t \in Potents : json \in {tx[t].json, New(t)} /\ npz \in {tx[t].json, New(t)}
  /\ json = npz \/ Potents # {}

(* What a listing has read is the pair, as long as nothing has changed.   *)
ListingFits ==
  reader # "out" /\ ~disturbed =>
    /\ json = npz
    /\ reader # "open" => readerJson = json
    /\ reader = "listed" => json # 0
    /\ reader = "hidden" => json = 0

(* The inductive invariant. Without OnePotent two journals could disagree *)
(* about the pair that a mixed one stands for; without PairFits a journal *)
(* could stand beside a pair it knows nothing of.                         *)
VoiceInv ==
  /\ VoiceTypeOK /\ RecordsFit /\ HolderFits /\ ChangesFit /\ RepairsFit /\ OnePotent /\ PairFits /\ ListingFits

(* The types of VoiceTypeOK in parts: flags, ...                          *)
VoiceFlags == failed \in BOOLEAN /\ disturbed \in BOOLEAN

(* ... records on the disk, ...                                           *)
VoiceRecords ==
  /\ tx \in [Transactions -> [op : {"none", "write", "delete"}, present : BOOLEAN,
                             json : Generations \cup {0}, npz : Generations \cup {0}]]
  /\ area \in [Transactions -> SUBSET (Backups \cup {"dir", "new.json", "new.npz"})]
  /\ journal \in [Transactions -> {"none", "torn", "whole"}]

(* ... places, ...                                                        *)
VoicePlaces ==
  /\ json \in Generations \cup {0} /\ npz \in Generations \cup {0}
  /\ step \in Steps /\ job \in {"none", "list", "write", "delete"}
  /\ token \in Transactions \cup {0} /\ current \in Transactions \cup {0}
  /\ todo \subseteq Transactions /\ issued \subseteq Transactions
  /\ answer \in {"none", "ok", "error", "absent", "lost"} /\ faults \in 0..MaxFaults
  /\ reader \in {"out", "open", "loaded", "listed", "hidden"} /\ readerJson \in Generations \cup {0}

(* ... and the transaction under repair.                                  *)
CurrentFits == (current # 0) = (step \in {"restore", "restoreNpz", "cleanup"})

(* The parts are the whole.                                               *)
LEMMA TypeParts == VoiceTypeOK <=> VoiceFlags /\ VoiceRecords /\ VoicePlaces /\ CurrentFits
BY DEF VoiceTypeOK, VoiceFlags, VoiceRecords, VoicePlaces, CurrentFits

(* A token is neither 0 nor the generation of a legacy pair.              *)
LEMMA TokensAreFresh == Transactions \cap {0, Legacy} = {} /\ Generations = Transactions \cup {Legacy}
BY VoiceAssumption DEF Transactions, Generations, Legacy

(* What recovery decides (_recover_transaction): it restores exactly for  *)
(* a journal that could act whose pair is neither the new nor, of a       *)
(* write, the old one; and it never raises for one that could act.        *)
LEMMA VerdictIs ==
  ASSUME VoiceInv, NEW t \in Transactions
  PROVE  /\ Verdict(t) \in {"ignore", "cleanup", "restore", "raise"}
         /\ Verdict(t) = "restore" <=>
              /\ Potent(t) /\ ~(json = New(t) /\ npz = New(t))
              /\ ~(tx[t].op = "write" /\ json = tx[t].json /\ npz = tx[t].json)
         /\ Verdict(t) = "cleanup" => journal[t] = "whole" /\ json = npz
         /\ Potent(t) => Verdict(t) \in {"cleanup", "restore"}
<1> USE DEF VoiceInv, RecordsFit
<1>1. Settled(t) = TRUE \/ Settled(t) = FALSE
  BY DEF Settled
<1> DEFINE Whole == (json = New(t) /\ npz = New(t)) \/ (tx[t].op = "write" /\ json = tx[t].json /\ npz = tx[t].json)
<1>2. Potent(t) => (Settled(t) <=> Whole)
  <2>1. tx[t].npz = tx[t].json /\ (tx[t].present <=> tx[t].json # 0)
    OBVIOUS
  <2>2. CASE tx[t].op = "write"
    <3>1. CASE tx[t].present
      BY <2>1, <2>2, <3>1 DEF Potent, New, Settled, NewComplete, OldComplete
    <3>2. CASE ~tx[t].present
      BY <2>1, <2>2, <3>2 DEF Potent, New, Settled, NewComplete, OldComplete
    <3>3. QED
      BY <3>1, <3>2
  <2>3. CASE tx[t].op # "write"
    BY <2>3 DEF New, Settled
  <2>4. QED
    BY <2>2, <2>3
<1>3. Settled(t) => json = npz
  BY DEF Settled, NewComplete, OldComplete
<1>4. CASE Potent(t) /\ Settled(t)
  BY <1>2, <1>3, <1>4 DEF Verdict, Potent
<1>5. CASE Potent(t) /\ ~Settled(t)
  BY <1>2, <1>5 DEF Verdict, Potent
<1>6. CASE ~Potent(t)
  <2>1. Verdict(t) # "restore"
    BY <1>6 DEF Verdict, Potent
  <2>2. Verdict(t) \in {"ignore", "cleanup", "raise"} /\ (Verdict(t) = "cleanup" => journal[t] = "whole" /\ Settled(t))
    BY <1>1, <1>6 DEF Verdict, Potent
  <2>3. QED
    BY <1>3, <1>6, <2>1, <2>2
<1>7. QED
  BY <1>4, <1>5, <1>6

(* A commit that raises leaves its journal able to act.                   *)
LEMMA CommitRecovers ==
  ASSUME VoiceInv, CommitFails
  PROVE  token \in Transactions /\ Potent(token) /\ Verdict(token) \in {"cleanup", "restore"}
<1>1. token \in Transactions /\ Potent(token)
  BY TypeParts, TokensAreFresh DEF VoiceInv, VoicePlaces, CommitFails, HolderFits, ChangesFit, Changes
<1>2. QED
  BY <1>1, VerdictIs

(* A repair has a transaction.                                            *)
LEMMA RepairsSomething ==
  ASSUME VoiceInv, step \in Repairs
  PROVE  current \in Transactions
BY TypeParts DEF VoiceInv, VoicePlaces, CurrentFits, Repairs

(* Every step keeps the types of the flags, ...                           *)
LEMMA VoiceFlagsStep == ASSUME VoiceInv, VoiceNext PROVE VoiceFlags'
<1> USE TypeParts
<1> USE DEF VoiceInv, VoiceFlags, pair, records, reading
<1>1. ASSUME NEW f \in Backups \cup {"dir", "new.json", "new.npz"}, RestoreJson \/ RestoreNpz \/ RemoveFile(f) PROVE VoiceFlags'
  BY <1>1 DEF RestoreJson, RestoreNpz, RemoveFile
<1>2. CASE SweepOrphans \/ Refuse \/ NothingThere
  BY <1>2 DEF SweepOrphans, Refuse, Unavailable, Leave, NothingThere
<1>3. CASE WriteJournal \/ CommitFirst \/ CommitSecond
  BY <1>3 DEF WriteJournal, CommitFirst, CommitSecond
<1>4. CASE LoadJson \/ ListPair \/ EndListing
  BY <1>4 DEF LoadJson, ListPair, PairTokenMatches, EndListing
<1>5. CASE KillHolder \/ StageFails \/ CommitFails
  BY <1>5 DEF KillHolder, Fault, Leave, StageFails, CommitFails
<1>6. ASSUME NEW j \in {"list", "write", "delete"}, Enter(j) PROVE VoiceFlags'
  BY <1>6 DEF Enter
<1>7. ASSUME NEW s \in Transactions, RecoverTransaction(s) PROVE VoiceFlags'
  BY <1>7 DEF RecoverTransaction
<1>8. CASE RemoveJournal
  BY <1>8 DEF RemoveJournal, CleanedUp, Leave
<1>9. CASE LeaveToScan
  BY <1>9 DEF LeaveToScan, Leave
<1>10. ASSUME NEW s \in Transactions, Stage(s) PROVE VoiceFlags'
  BY <1>10 DEF Stage, Unavailable
<1>11. ASSUME NEW o \in {"error", "lost"}, TearJournal(o) PROVE VoiceFlags'
  BY <1>11 DEF TearJournal, Fault, Leave
<1> QED  BY <1>1, <1>2, <1>3, <1>4, <1>5, <1>6, <1>7, <1>8, <1>9, <1>10, <1>11 DEF VoiceNext

(* ... of the records, ...                                                *)
LEMMA VoiceRecordsStep == ASSUME VoiceInv, VoiceNext PROVE VoiceRecords'
<1> USE TypeParts
<1> USE DEF VoiceInv, VoiceRecords, VoicePlaces, pair, records
<1>1. ASSUME NEW j \in {"list", "write", "delete"}, Enter(j) PROVE VoiceRecords'
  BY <1>1 DEF Enter
<1>2. ASSUME NEW s \in Transactions, RecoverTransaction(s) PROVE VoiceRecords'
  BY <1>2 DEF RecoverTransaction
<1>3. CASE RestoreJson
  BY <1>3 DEF RestoreJson
<1>4. CASE RestoreNpz
  BY <1>4 DEF RestoreNpz
<1>5. ASSUME NEW f \in Backups \cup {"dir", "new.json", "new.npz"}, RemoveFile(f) PROVE VoiceRecords'
  BY <1>5 DEF RemoveFile
<1>6. CASE RemoveJournal
  BY <1>6 DEF RemoveJournal, CleanedUp, Leave
<1>7. CASE SweepOrphans
  BY <1>7 DEF SweepOrphans
<1>8. CASE LeaveToScan
  BY <1>8 DEF LeaveToScan, Leave
<1>9. CASE Refuse
  BY <1>9 DEF Refuse, Unavailable, Leave
<1>10. CASE NothingThere
  BY <1>10 DEF NothingThere, Leave
<1>11. ASSUME NEW s \in Transactions, Stage(s) PROVE VoiceRecords'
  BY <1>11 DEF Stage, Unavailable
<1>12. CASE WriteJournal
  BY <1>12 DEF WriteJournal
<1>13. CASE CommitFirst
  BY <1>13 DEF CommitFirst
<1>14. CASE CommitSecond
  BY <1>14 DEF CommitSecond
<1>15. CASE LoadJson
  BY <1>15 DEF LoadJson
<1>16. CASE ListPair
  BY <1>16 DEF ListPair, PairTokenMatches
<1>17. CASE EndListing
  BY <1>17 DEF EndListing
<1>18. CASE KillHolder
  BY <1>18 DEF KillHolder, Fault, Leave
<1>19. ASSUME NEW o \in {"error", "lost"}, TearJournal(o) PROVE VoiceRecords'
  BY <1>19 DEF TearJournal, Fault, Leave
<1>20. CASE StageFails
  BY <1>20 DEF StageFails, Fault, Leave
<1>21. CASE CommitFails
  BY <1>21 DEF CommitFails, Fault
<1> QED  BY <1>1, <1>2, <1>3, <1>4, <1>5, <1>6, <1>7, <1>8, <1>9, <1>10, <1>11, <1>12, <1>13, <1>14, <1>15, <1>16, <1>17, <1>18, <1>19, <1>20, <1>21 DEF VoiceNext

(* ... of the places, ...                                                 *)
LEMMA VoicePlacesStep == ASSUME VoiceInv, VoiceNext PROVE VoicePlaces'
<1> USE TypeParts, TokensAreFresh, VoiceAssumption
<1> USE DEF VoiceInv, VoicePlaces, VoiceRecords, HolderFits, Repairs, Steps, pair, records, reading
<1>1. ASSUME NEW j \in {"list", "write", "delete"}, Enter(j) PROVE VoicePlaces'
  BY <1>1 DEF Enter
<1>2. ASSUME NEW s \in Transactions, RecoverTransaction(s) PROVE VoicePlaces'
  BY <1>2 DEF RecoverTransaction
<1>3. CASE RestoreJson
  BY <1>3, RepairsSomething DEF RestoreJson
<1>4. CASE RestoreNpz
  BY <1>4, RepairsSomething DEF RestoreNpz
<1>5. ASSUME NEW f \in Backups \cup {"dir", "new.json", "new.npz"}, RemoveFile(f) PROVE VoicePlaces'
  BY <1>5 DEF RemoveFile
<1>6. CASE RemoveJournal
  BY <1>6 DEF RemoveJournal, CleanedUp, Leave
<1>7. CASE SweepOrphans
  BY <1>7 DEF SweepOrphans
<1>8. CASE LeaveToScan
  BY <1>8 DEF LeaveToScan, Leave
<1>9. CASE Refuse
  BY <1>9 DEF Refuse, Unavailable, Leave
<1>10. CASE NothingThere
  BY <1>10 DEF NothingThere, Leave
<1>11. ASSUME NEW s \in Transactions, Stage(s) PROVE VoicePlaces'
  BY <1>11 DEF Stage, Unavailable
<1>12. CASE WriteJournal
  BY <1>12 DEF WriteJournal
<1>13. CASE CommitFirst
  BY <1>13 DEF CommitFirst
<1>14. CASE CommitSecond
  BY <1>14 DEF CommitSecond
<1>15. CASE LoadJson
  BY <1>15 DEF LoadJson
<1>16. CASE ListPair
  BY <1>16 DEF ListPair, PairTokenMatches
<1>17. CASE EndListing
  BY <1>17 DEF EndListing
<1>18. CASE KillHolder
  BY <1>18 DEF KillHolder, Fault, Leave
<1>19. ASSUME NEW o \in {"error", "lost"}, TearJournal(o) PROVE VoicePlaces'
  BY <1>19 DEF TearJournal, Fault, Leave
<1>20. CASE StageFails
  BY <1>20 DEF StageFails, Fault, Leave
<1>21. CASE CommitFails
  BY <1>21, CommitRecovers DEF CommitFails, Fault
<1> QED  BY <1>1, <1>2, <1>3, <1>4, <1>5, <1>6, <1>7, <1>8, <1>9, <1>10, <1>11, <1>12, <1>13, <1>14, <1>15, <1>16, <1>17, <1>18, <1>19, <1>20, <1>21 DEF VoiceNext

(* ... and the transaction under repair, ...                              *)
LEMMA CurrentStep == ASSUME VoiceInv, VoiceNext PROVE CurrentFits'
<1> USE TypeParts, TokensAreFresh
<1> USE DEF VoiceInv, CurrentFits, VoicePlaces, HolderFits, Changes
<1>1. ASSUME NEW j \in {"list", "write", "delete"}, Enter(j) PROVE CurrentFits'
  BY <1>1 DEF Enter
<1>2. ASSUME NEW s \in Transactions, RecoverTransaction(s) PROVE CurrentFits'
  BY <1>2 DEF RecoverTransaction
<1>3. CASE RestoreJson
  BY <1>3 DEF RestoreJson
<1>4. CASE RestoreNpz
  BY <1>4 DEF RestoreNpz
<1>5. ASSUME NEW f \in Backups \cup {"dir", "new.json", "new.npz"}, RemoveFile(f) PROVE CurrentFits'
  BY <1>5 DEF RemoveFile
<1>6. CASE RemoveJournal
  BY <1>6 DEF RemoveJournal, CleanedUp, Leave
<1>7. CASE SweepOrphans
  BY <1>7 DEF SweepOrphans
<1>8. CASE LeaveToScan
  BY <1>8 DEF LeaveToScan, Leave
<1>9. CASE Refuse
  BY <1>9 DEF Refuse, Unavailable, Leave
<1>10. CASE NothingThere
  BY <1>10 DEF NothingThere, Leave
<1>11. ASSUME NEW s \in Transactions, Stage(s) PROVE CurrentFits'
  BY <1>11 DEF Stage, Unavailable
<1>12. CASE WriteJournal
  BY <1>12 DEF WriteJournal
<1>13. CASE CommitFirst
  BY <1>13 DEF CommitFirst
<1>14. CASE CommitSecond
  BY <1>14 DEF CommitSecond
<1>15. CASE LoadJson
  BY <1>15 DEF LoadJson
<1>16. CASE ListPair
  BY <1>16 DEF ListPair, PairTokenMatches
<1>17. CASE EndListing
  BY <1>17 DEF EndListing
<1>18. CASE KillHolder
  BY <1>18 DEF KillHolder, Fault, Leave
<1>19. ASSUME NEW o \in {"error", "lost"}, TearJournal(o) PROVE CurrentFits'
  BY <1>19 DEF TearJournal, Fault, Leave
<1>20. CASE StageFails
  BY <1>20 DEF StageFails, Fault, Leave
<1>21. CASE CommitFails
  BY <1>21, CommitRecovers DEF CommitFails, Fault
<1> QED  BY <1>1, <1>2, <1>3, <1>4, <1>5, <1>6, <1>7, <1>8, <1>9, <1>10, <1>11, <1>12, <1>13, <1>14, <1>15, <1>16, <1>17, <1>18, <1>19, <1>20, <1>21 DEF VoiceNext

(* ... what the disk may bear, ...                                        *)
LEMMA RecordsStep == ASSUME VoiceInv, VoiceNext PROVE RecordsFit'
<1> USE TypeParts, TokensAreFresh
<1> USE DEF VoiceInv, RecordsFit, VoicePlaces, VoiceRecords, HolderFits, Changes, Repairs, pair, records
<1>1. ASSUME NEW j \in {"list", "write", "delete"}, Enter(j) PROVE RecordsFit'
  BY <1>1 DEF Enter
<1>2. ASSUME NEW s \in Transactions, RecoverTransaction(s) PROVE RecordsFit'
  BY <1>2 DEF RecoverTransaction
<1>3. CASE RestoreJson
  BY <1>3, RepairsSomething DEF RestoreJson
<1>4. CASE RestoreNpz
  BY <1>4, RepairsSomething DEF RestoreNpz
<1>5. ASSUME NEW f \in Backups \cup {"dir", "new.json", "new.npz"}, RemoveFile(f) PROVE RecordsFit'
  BY <1>5 DEF RemoveFile
<1>6. CASE RemoveJournal
  BY <1>6 DEF RemoveJournal, CleanedUp, Leave
<1>7. CASE SweepOrphans
  BY <1>7 DEF SweepOrphans
<1>8. CASE LeaveToScan
  BY <1>8 DEF LeaveToScan, Leave
<1>9. CASE Refuse
  BY <1>9 DEF Refuse, Unavailable, Leave
<1>10. CASE NothingThere
  BY <1>10 DEF NothingThere, Leave
<1>11. ASSUME NEW s \in Transactions, Stage(s) PROVE RecordsFit'
  <2>1. json = npz
    BY <1>11 DEF Stage, OnePotent, PairFits
  <2>2. s \notin issued /\ issued' = issued \cup {s} /\ tx' = [tx EXCEPT ![s] = [op |-> job, present |-> json # 0, json |-> json, npz |-> npz]]
    BY <1>11 DEF Stage
  <2>3. UNCHANGED <<json, npz, journal>> /\ job \in {"write", "delete"}
    BY <1>11 DEF Stage
  <2>4. \A t \in Transactions \ {s} : tx'[t] = tx[t]
    BY <2>2
  <2>5. tx'[s].npz = tx'[s].json /\ (tx'[s].present <=> tx'[s].json # 0) /\ tx'[s].json = json
    BY <2>1, <2>2
  <2>6. journal[s] # "whole" /\ journal[s] = "none"
    BY <2>2
  <2>7. json \in (issued \cup {0, Legacy}) \ {s}
    BY <2>2
  <2>8. QED
    BY <2>2, <2>3, <2>4, <2>5, <2>6, <2>7
<1>12. CASE WriteJournal
  BY <1>12 DEF WriteJournal
<1>13. CASE CommitFirst
  BY <1>13 DEF CommitFirst
<1>14. CASE CommitSecond
  BY <1>14 DEF CommitSecond
<1>15. CASE LoadJson
  BY <1>15 DEF LoadJson
<1>16. CASE ListPair
  BY <1>16 DEF ListPair, PairTokenMatches
<1>17. CASE EndListing
  BY <1>17 DEF EndListing
<1>18. CASE KillHolder
  BY <1>18 DEF KillHolder, Fault, Leave
<1>19. ASSUME NEW o \in {"error", "lost"}, TearJournal(o) PROVE RecordsFit'
  BY <1>19 DEF TearJournal, Fault, Leave
<1>20. CASE StageFails
  BY <1>20 DEF StageFails, Fault, Leave
<1>21. CASE CommitFails
  BY <1>21 DEF CommitFails, Fault
<1> QED  BY <1>1, <1>2, <1>3, <1>4, <1>5, <1>6, <1>7, <1>8, <1>9, <1>10, <1>11, <1>12, <1>13, <1>14, <1>15, <1>16, <1>17, <1>18, <1>19, <1>20, <1>21 DEF VoiceNext

(* ... the transaction of the holder, ...                                 *)
LEMMA HolderStep == ASSUME VoiceInv, VoiceNext PROVE HolderFits'
<1> USE TypeParts, TokensAreFresh
<1> USE DEF VoiceInv, HolderFits, VoicePlaces, VoiceRecords, Steps, Repairs, Changes, pair, records
<1>1. ASSUME NEW j \in {"list", "write", "delete"}, Enter(j) PROVE HolderFits'
  BY <1>1 DEF Enter
<1>2. ASSUME NEW s \in Transactions, RecoverTransaction(s) PROVE HolderFits'
  BY <1>2 DEF RecoverTransaction
<1>3. CASE RestoreJson
  BY <1>3 DEF RestoreJson
<1>4. CASE RestoreNpz
  BY <1>4 DEF RestoreNpz
<1>5. ASSUME NEW f \in Backups \cup {"dir", "new.json", "new.npz"}, RemoveFile(f) PROVE HolderFits'
  BY <1>5 DEF RemoveFile
<1>6. CASE RemoveJournal
  BY <1>6 DEF RemoveJournal, CleanedUp, Leave
<1>7. CASE SweepOrphans
  BY <1>7 DEF SweepOrphans
<1>8. CASE LeaveToScan
  BY <1>8 DEF LeaveToScan, Leave
<1>9. CASE Refuse
  BY <1>9 DEF Refuse, Unavailable, Leave
<1>10. CASE NothingThere
  BY <1>10 DEF NothingThere, Leave
<1>11. ASSUME NEW s \in Transactions, Stage(s) PROVE HolderFits'
  BY <1>11 DEF Stage, Unavailable
<1>12. CASE WriteJournal
  BY <1>12 DEF WriteJournal
<1>13. CASE CommitFirst
  BY <1>13 DEF CommitFirst
<1>14. CASE CommitSecond
  BY <1>14 DEF CommitSecond
<1>15. CASE LoadJson
  BY <1>15 DEF LoadJson
<1>16. CASE ListPair
  BY <1>16 DEF ListPair, PairTokenMatches
<1>17. CASE EndListing
  BY <1>17 DEF EndListing
<1>18. CASE KillHolder
  BY <1>18 DEF KillHolder, Fault, Leave
<1>19. ASSUME NEW o \in {"error", "lost"}, TearJournal(o) PROVE HolderFits'
  BY <1>19 DEF TearJournal, Fault, Leave
<1>20. CASE StageFails
  BY <1>20 DEF StageFails, Fault, Leave
<1>21. CASE CommitFails
  BY <1>21, CommitRecovers DEF CommitFails, Fault
<1> QED  BY <1>1, <1>2, <1>3, <1>4, <1>5, <1>6, <1>7, <1>8, <1>9, <1>10, <1>11, <1>12, <1>13, <1>14, <1>15, <1>16, <1>17, <1>18, <1>19, <1>20, <1>21 DEF VoiceNext

(* No step but the writing of its own journal makes a journal able to     *)
(* act, and none changes what such a one says.                            *)
LEMMA PotentShrinks ==
  ASSUME VoiceInv, VoiceNext, NEW t \in Transactions, Potent(t)'
  PROVE  /\ tx'[t] = tx[t]
         /\ Potent(t) \/ (WriteJournal /\ t = token)
<1> USE TypeParts, TokensAreFresh
<1> USE DEF VoiceInv, VoiceRecords, VoicePlaces, RecordsFit, Potent, pair, records
<1> DEFINE Same == tx'[t] = tx[t] /\ Potent(t)
<1>1. CASE UNCHANGED records
  BY <1>1
<1>2. ASSUME NEW f \in Backups \cup {"dir", "new.json", "new.npz"}, RemoveFile(f) PROVE Same
  BY <1>2 DEF RemoveFile
<1>3. CASE RemoveJournal
  BY <1>3 DEF RemoveJournal
<1>4. CASE SweepOrphans
  BY <1>4 DEF SweepOrphans
<1>5. ASSUME NEW s \in Transactions, Stage(s) PROVE Same
  BY <1>5 DEF Stage
<1>6. CASE WriteJournal
  BY <1>6 DEF WriteJournal
<1>7. CASE CommitFirst
  BY <1>7 DEF CommitFirst
<1>8. CASE CommitSecond
  BY <1>8 DEF CommitSecond
<1>9. ASSUME NEW o \in {"error", "lost"}, TearJournal(o) PROVE Same
  BY <1>9 DEF TearJournal
<1>10. ASSUME NEW j \in {"list", "write", "delete"}, NEW s \in Transactions, Enter(j) \/ RecoverTransaction(s) PROVE UNCHANGED records
  BY <1>10 DEF Enter, RecoverTransaction
<1>11. CASE RestoreJson \/ RestoreNpz \/ LeaveToScan \/ Refuse \/ NothingThere \/ LoadJson \/ ListPair \/ EndListing \/ KillHolder \/ StageFails \/ CommitFails
  BY <1>11 DEF RestoreJson, RestoreNpz, LeaveToScan, Refuse, NothingThere, LoadJson, ListPair, EndListing, KillHolder, StageFails, CommitFails
<1> QED  BY <1>1, <1>2, <1>3, <1>4, <1>5, <1>6, <1>7, <1>8, <1>9, <1>10, <1>11 DEF VoiceNext

(* Every step keeps the order of a change, ...                            *)
LEMMA ChangesStep == ASSUME VoiceInv, VoiceNext PROVE ChangesFit'
<1> USE TypeParts, TokensAreFresh
<1> USE DEF VoiceInv, ChangesFit, VoicePlaces, VoiceRecords, RecordsFit, HolderFits, Steps, Changes, Potent, pair, records
<1>1. ASSUME NEW j \in {"list", "write", "delete"}, Enter(j) PROVE ChangesFit'
  BY <1>1 DEF Enter
<1>2. ASSUME NEW s \in Transactions, RecoverTransaction(s) PROVE ChangesFit'
  BY <1>2 DEF RecoverTransaction
<1>3. CASE RestoreJson
  BY <1>3 DEF RestoreJson
<1>4. CASE RestoreNpz
  BY <1>4 DEF RestoreNpz
<1>5. ASSUME NEW f \in Backups \cup {"dir", "new.json", "new.npz"}, RemoveFile(f) PROVE ChangesFit'
  BY <1>5 DEF RemoveFile
<1>6. CASE RemoveJournal
  BY <1>6 DEF RemoveJournal, CleanedUp, Leave
<1>7. CASE SweepOrphans
  BY <1>7 DEF SweepOrphans
<1>8. CASE LeaveToScan
  BY <1>8 DEF LeaveToScan, Leave
<1>9. CASE Refuse
  BY <1>9 DEF Refuse, Unavailable, Leave
<1>10. CASE NothingThere
  BY <1>10 DEF NothingThere, Leave
<1>11. ASSUME NEW s \in Transactions, Stage(s) PROVE ChangesFit'
  <2>1. step' = "staged" /\ token' = s /\ s \notin issued /\ UNCHANGED <<json, npz, journal>>
    BY <1>11 DEF Stage
  <2>2. journal[s] = "none"
    BY <2>1
  <2>3. tx'[s].json = json /\ (tx'[s].present <=> json # 0)
    <3>1. tx'[s].json = json
      BY <1>11 DEF Stage
    <3>2. QED
      BY <3>1, RecordsStep
  <2>4. area'[s] = {"dir"} \cup (IF json # 0 THEN Backups ELSE {}) \cup (IF job = "write" THEN {"new.json", "new.npz"} ELSE {})
    BY <1>11 DEF Stage
  <2>5. "dir" \in area'[s] /\ (json # 0 => Backups \subseteq area'[s])
    BY <2>4
  <2>6. QED
    BY <2>1, <2>2, <2>3, <2>5
<1>12. CASE WriteJournal
  <2>1. json = npz
    BY <1>12 DEF WriteJournal, OnePotent, PairFits
  <2>2. QED
    BY <1>12, <2>1 DEF WriteJournal
<1>13. CASE CommitFirst
  <2>1. token \in Transactions /\ step = "commit" /\ step' = "commitSecond" /\ UNCHANGED <<tx, journal, job, token>>
    BY <1>13 DEF CommitFirst
  <2>2. Potent(token)'
    <3>1. \A f \in Backups \cup {"dir"} : f \in area[token] => f \in area'[token]
      BY <1>13, <2>1 DEF CommitFirst, Backups
    <3>2. QED
      BY <2>1, <3>1
  <2>3. job = "write" => npz' = token /\ json' = tx[token].json
    BY <1>13, <2>1 DEF CommitFirst
  <2>4. job = "delete" => json' = 0 /\ npz' = tx[token].json
    BY <1>13, <2>1 DEF CommitFirst
  <2>5. QED
    BY <2>1, <2>2, <2>3, <2>4
<1>14. CASE CommitSecond
  BY <1>14 DEF CommitSecond
<1>15. CASE LoadJson
  BY <1>15 DEF LoadJson
<1>16. CASE ListPair
  BY <1>16 DEF ListPair, PairTokenMatches
<1>17. CASE EndListing
  BY <1>17 DEF EndListing
<1>18. CASE KillHolder
  BY <1>18 DEF KillHolder, Fault, Leave
<1>19. ASSUME NEW o \in {"error", "lost"}, TearJournal(o) PROVE ChangesFit'
  BY <1>19 DEF TearJournal, Fault, Leave
<1>20. CASE StageFails
  BY <1>20 DEF StageFails, Fault, Leave
<1>21. CASE CommitFails
  BY <1>21, CommitRecovers DEF CommitFails, Fault
<1> QED  BY <1>1, <1>2, <1>3, <1>4, <1>5, <1>6, <1>7, <1>8, <1>9, <1>10, <1>11, <1>12, <1>13, <1>14, <1>15, <1>16, <1>17, <1>18, <1>19, <1>20, <1>21 DEF VoiceNext

(* ... and of a repair, ...                                               *)
LEMMA RepairsStep == ASSUME VoiceInv, VoiceNext PROVE RepairsFit'
<1> USE TypeParts, TokensAreFresh
<1> USE DEF VoiceInv, RepairsFit, VoicePlaces, VoiceRecords, RecordsFit, HolderFits, Steps, Changes, Repairs, Potent, New, pair, records
<1>1. ASSUME NEW j \in {"list", "write", "delete"}, Enter(j) PROVE RepairsFit'
  BY <1>1 DEF Enter
<1>2. ASSUME NEW s \in Transactions, RecoverTransaction(s) PROVE RepairsFit'
  BY <1>2, VerdictIs DEF RecoverTransaction
<1>3. CASE RestoreJson
  BY <1>3, RepairsSomething DEF RestoreJson
<1>4. CASE RestoreNpz
  BY <1>4, RepairsSomething DEF RestoreNpz
<1>5. ASSUME NEW f \in Backups \cup {"dir", "new.json", "new.npz"}, RemoveFile(f) PROVE RepairsFit'
  BY <1>5 DEF RemoveFile
<1>6. CASE RemoveJournal
  BY <1>6 DEF RemoveJournal, CleanedUp, Leave
<1>7. CASE SweepOrphans
  BY <1>7 DEF SweepOrphans
<1>8. CASE LeaveToScan
  BY <1>8 DEF LeaveToScan, Leave
<1>9. CASE Refuse
  BY <1>9 DEF Refuse, Unavailable, Leave
<1>10. CASE NothingThere
  BY <1>10 DEF NothingThere, Leave
<1>11. ASSUME NEW s \in Transactions, Stage(s) PROVE RepairsFit'
  BY <1>11 DEF Stage, Unavailable
<1>12. CASE WriteJournal
  BY <1>12 DEF WriteJournal
<1>13. CASE CommitFirst
  BY <1>13 DEF CommitFirst
<1>14. CASE CommitSecond
  <2>1. step' = "cleanup" /\ current' = token /\ UNCHANGED <<tx, journal, job, token>> /\ token \in Transactions
    BY <1>14 DEF CommitSecond
  <2>2. journal[token] = "whole" /\ tx[token].op = job /\ job \in {"write", "delete"}
    BY <1>14 DEF CommitSecond, ChangesFit
  <2>3. json' = npz' /\ json' = (IF job = "write" THEN token ELSE 0)
    BY <1>14, <2>2 DEF CommitSecond, ChangesFit
  <2>4. QED
    BY <2>1, <2>2, <2>3
<1>15. CASE LoadJson
  BY <1>15 DEF LoadJson
<1>16. CASE ListPair
  BY <1>16 DEF ListPair, PairTokenMatches
<1>17. CASE EndListing
  BY <1>17 DEF EndListing
<1>18. CASE KillHolder
  BY <1>18 DEF KillHolder, Fault, Leave
<1>19. ASSUME NEW o \in {"error", "lost"}, TearJournal(o) PROVE RepairsFit'
  BY <1>19 DEF TearJournal, Fault, Leave
<1>20. CASE StageFails
  BY <1>20 DEF StageFails, Fault, Leave
<1>21. CASE CommitFails
  BY <1>21, CommitRecovers, VerdictIs DEF CommitFails, Fault
<1> QED  BY <1>1, <1>2, <1>3, <1>4, <1>5, <1>6, <1>7, <1>8, <1>9, <1>10, <1>11, <1>12, <1>13, <1>14, <1>15, <1>16, <1>17, <1>18, <1>19, <1>20, <1>21 DEF VoiceNext

(* The same of all journals at once.                                      *)
LEMMA PotentsStep ==
  ASSUME VoiceInv, VoiceNext
  PROVE  /\ Potents' \subseteq Potents \/ (step = "staged" /\ step' = "commit" /\ Potents' \subseteq {token})
         /\ \A t \in Potents' : tx'[t] = tx[t]
         /\ UNCHANGED records => Potents' = Potents
         /\ \A t \in Potents : t \in Transactions /\ journal[t] = "whole" /\ area[t] # {}
<1>1. \A t \in Potents' : t \in Transactions /\ tx'[t] = tx[t] /\ (t \in Potents \/ (WriteJournal /\ t = token))
  BY PotentShrinks DEF Potents, Transactions
<1>2. WriteJournal => step = "staged" /\ step' = "commit" /\ Potents = {}
  BY DEF VoiceInv, OnePotent, WriteJournal
<1>3. Potents' \subseteq Potents \/ (step = "staged" /\ step' = "commit" /\ Potents' \subseteq {token})
  BY <1>1, <1>2
<1>4. UNCHANGED records => Potents' = Potents
  BY DEF records, Potents, Potent, Transactions
<1>5. \A t \in Potents : t \in Transactions /\ journal[t] = "whole" /\ area[t] # {}
  BY DEF Potents, Potent
<1> QED  BY <1>1, <1>3, <1>4, <1>5

(* ... the one journal that could act, ...                                *)
LEMMA PotentStep == ASSUME VoiceInv, VoiceNext PROVE OnePotent'
<1> USE TypeParts, TokensAreFresh, PotentsStep
<1> USE DEF VoiceInv, OnePotent, VoicePlaces, Steps, Changes, Repairs, pair, records
<1>1. ASSUME NEW j \in {"list", "write", "delete"}, Enter(j) PROVE OnePotent'
  BY <1>1 DEF Enter
<1>2. ASSUME NEW s \in Transactions, RecoverTransaction(s) PROVE OnePotent'
  <2>1. s \in Potents => step' \in {"cleanup", "restore"} /\ current' = s
    BY <1>2, VerdictIs DEF RecoverTransaction, Potents
  <2>2. step = "scan" /\ todo' = todo \ {s} /\ (step' = "scan" \/ (step' \in Repairs /\ step' \notin {"op", "staged", "commit", "commitSecond", "scan"}))
    BY <1>2 DEF RecoverTransaction
  <2>3. Potents' = Potents /\ token' = token
    BY <1>2 DEF RecoverTransaction
  <2>4. QED
    BY <2>1, <2>2, <2>3
<1>3. CASE RestoreJson
  BY <1>3 DEF RestoreJson
<1>4. CASE RestoreNpz
  BY <1>4 DEF RestoreNpz
<1>5. ASSUME NEW f \in Backups \cup {"dir", "new.json", "new.npz"}, RemoveFile(f) PROVE OnePotent'
  BY <1>5 DEF RemoveFile
<1>6. CASE RemoveJournal
  BY <1>6 DEF RemoveJournal, CleanedUp, Leave
<1>7. CASE SweepOrphans
  BY <1>7 DEF SweepOrphans
<1>8. CASE LeaveToScan
  BY <1>8 DEF LeaveToScan, Leave
<1>9. CASE Refuse
  BY <1>9 DEF Refuse, Unavailable, Leave
<1>10. CASE NothingThere
  BY <1>10 DEF NothingThere, Leave
<1>11. ASSUME NEW s \in Transactions, Stage(s) PROVE OnePotent'
  BY <1>11 DEF Stage, Unavailable
<1>12. CASE WriteJournal
  BY <1>12 DEF WriteJournal
<1>13. CASE CommitFirst
  BY <1>13 DEF CommitFirst
<1>14. CASE CommitSecond
  BY <1>14 DEF CommitSecond
<1>15. CASE LoadJson
  BY <1>15 DEF LoadJson
<1>16. CASE ListPair
  BY <1>16 DEF ListPair, PairTokenMatches
<1>17. CASE EndListing
  BY <1>17 DEF EndListing
<1>18. CASE KillHolder
  BY <1>18 DEF KillHolder, Fault, Leave
<1>19. ASSUME NEW o \in {"error", "lost"}, TearJournal(o) PROVE OnePotent'
  BY <1>19 DEF TearJournal, Fault, Leave
<1>20. CASE StageFails
  BY <1>20 DEF StageFails, Fault, Leave
<1>21. CASE CommitFails
  BY <1>21, CommitRecovers DEF CommitFails, Fault
<1> QED  BY <1>1, <1>2, <1>3, <1>4, <1>5, <1>6, <1>7, <1>8, <1>9, <1>10, <1>11, <1>12, <1>13, <1>14, <1>15, <1>16, <1>17, <1>18, <1>19, <1>20, <1>21 DEF VoiceNext

(* ... what the pair may be, ...                                          *)
LEMMA PairStep == ASSUME VoiceInv, VoiceNext PROVE PairFits'
<1> USE TypeParts, TokensAreFresh, PotentsStep
<1> USE DEF VoiceInv, PairFits, OnePotent, VoicePlaces, VoiceRecords, Steps, Changes, Repairs, New, pair, records
<1>1. ASSUME NEW j \in {"list", "write", "delete"}, Enter(j) PROVE PairFits'
  BY <1>1 DEF Enter
<1>2. ASSUME NEW s \in Transactions, RecoverTransaction(s) PROVE PairFits'
  BY <1>2 DEF RecoverTransaction
<1>3. CASE RestoreJson
  <2>1. current \in Potents /\ current' = current /\ Potents' = Potents /\ UNCHANGED records
    BY <1>3, RepairsSomething DEF RestoreJson, RepairsFit, Potents
  <2>2. Potents' = {current}
    BY <2>1
  <2>3. json' = tx[current].json /\ npz' = npz
    BY <1>3, <2>1 DEF RestoreJson, RecordsFit, RepairsFit
  <2>4. QED
    BY <2>1, <2>2, <2>3
<1>4. CASE RestoreNpz
  <2>1. current \in Potents /\ current' = current /\ Potents' = Potents /\ UNCHANGED records
    BY <1>4, RepairsSomething DEF RestoreNpz, RepairsFit, Potents
  <2>2. Potents' = {current}
    BY <2>1
  <2>3. json' = tx[current].json /\ npz' = tx[current].json
    BY <1>4, <2>1 DEF RestoreNpz, RecordsFit, RepairsFit
  <2>4. QED
    BY <2>1, <2>2, <2>3
<1>5. ASSUME NEW f \in Backups \cup {"dir", "new.json", "new.npz"}, RemoveFile(f) PROVE PairFits'
  <2>1. json = npz /\ UNCHANGED <<json, npz, tx>> /\ Potents' \subseteq Potents
    BY <1>5 DEF RemoveFile, RepairsFit
  <2>2. QED
    BY <2>1
<1>6. CASE RemoveJournal
  <2>1. json = npz /\ UNCHANGED <<json, npz, tx>> /\ Potents' \subseteq Potents
    BY <1>6 DEF RemoveJournal, RepairsFit
  <2>2. QED
    BY <2>1
<1>7. CASE SweepOrphans
  BY <1>7 DEF SweepOrphans
<1>8. CASE LeaveToScan
  BY <1>8 DEF LeaveToScan, Leave
<1>9. CASE Refuse
  BY <1>9 DEF Refuse, Unavailable, Leave
<1>10. CASE NothingThere
  BY <1>10 DEF NothingThere, Leave
<1>11. ASSUME NEW s \in Transactions, Stage(s) PROVE PairFits'
  BY <1>11 DEF Stage, Unavailable
<1>12. CASE WriteJournal
  <2>1. json = npz /\ UNCHANGED <<json, npz, tx>> /\ json = tx[token].json /\ Potents' \subseteq {token}
    BY <1>12 DEF WriteJournal, ChangesFit
  <2>2. QED
    BY <2>1
<1>13. CASE CommitFirst
  <2>1. step = "commit" /\ step' = "commitSecond" /\ token \in Transactions /\ UNCHANGED <<tx, job, token>>
    BY <1>13 DEF CommitFirst, HolderFits
  <2>2. token \in Potents'
    BY <2>1, ChangesStep DEF Potents, ChangesFit
  <2>3. Potents' = {token}
    BY <2>1, <2>2
  <2>4. npz' \in {tx[token].json, New(token)} /\ json' \in {tx[token].json, New(token)}
    BY <1>13, <2>1 DEF CommitFirst, ChangesFit, HolderFits
  <2>5. QED
    BY <2>1, <2>3, <2>4
<1>14. CASE CommitSecond
  <2>1. step = "commitSecond" /\ token \in Transactions /\ UNCHANGED <<tx, job, token>>
    BY <1>14 DEF CommitSecond, HolderFits
  <2>2. Potents' \subseteq {token}
    BY <2>1
  <2>3. npz' = New(token) /\ json' = New(token)
    BY <1>14, <2>1 DEF CommitSecond, ChangesFit, HolderFits
  <2>4. QED
    BY <2>1, <2>2, <2>3
<1>15. CASE LoadJson
  BY <1>15 DEF LoadJson
<1>16. CASE ListPair
  BY <1>16 DEF ListPair, PairTokenMatches
<1>17. CASE EndListing
  BY <1>17 DEF EndListing
<1>18. CASE KillHolder
  BY <1>18 DEF KillHolder, Fault, Leave
<1>19. ASSUME NEW o \in {"error", "lost"}, TearJournal(o) PROVE PairFits'
  BY <1>19 DEF TearJournal, Fault, Leave
<1>20. CASE StageFails
  BY <1>20 DEF StageFails, Fault, Leave
<1>21. CASE CommitFails
  BY <1>21 DEF CommitFails, Fault
<1> QED  BY <1>1, <1>2, <1>3, <1>4, <1>5, <1>6, <1>7, <1>8, <1>9, <1>10, <1>11, <1>12, <1>13, <1>14, <1>15, <1>16, <1>17, <1>18, <1>19, <1>20, <1>21 DEF VoiceNext

(* ... and what a listing has read.                                       *)
LEMMA ListingStep == ASSUME VoiceInv, VoiceNext PROVE ListingFits'
<1> USE DEF VoiceInv, ListingFits, pair, records, reading
<1>1. ASSUME NEW j \in {"list", "write", "delete"}, Enter(j) PROVE ListingFits'
  BY <1>1 DEF Enter
<1>2. ASSUME NEW s \in Transactions, RecoverTransaction(s) PROVE ListingFits'
  BY <1>2 DEF RecoverTransaction
<1>3. CASE RestoreJson
  BY <1>3 DEF RestoreJson
<1>4. CASE RestoreNpz
  BY <1>4 DEF RestoreNpz
<1>5. ASSUME NEW f \in Backups \cup {"dir", "new.json", "new.npz"}, RemoveFile(f) PROVE ListingFits'
  BY <1>5 DEF RemoveFile
<1>6. CASE RemoveJournal
  BY <1>6 DEF RemoveJournal, CleanedUp, Leave
<1>7. CASE SweepOrphans
  BY <1>7 DEF SweepOrphans
<1>8. CASE LeaveToScan
  <2>1. json = npz
    BY <1>8 DEF LeaveToScan, OnePotent, PairFits
  <2>2. QED
    BY <1>8, <2>1 DEF LeaveToScan
<1>9. CASE Refuse
  BY <1>9 DEF Refuse, Unavailable, Leave
<1>10. CASE NothingThere
  BY <1>10 DEF NothingThere, Leave
<1>11. ASSUME NEW s \in Transactions, Stage(s) PROVE ListingFits'
  BY <1>11 DEF Stage, Unavailable
<1>12. CASE WriteJournal
  BY <1>12 DEF WriteJournal
<1>13. CASE CommitFirst
  BY <1>13 DEF CommitFirst
<1>14. CASE CommitSecond
  BY <1>14 DEF CommitSecond
<1>15. CASE LoadJson
  BY <1>15 DEF LoadJson
<1>16. CASE ListPair
  BY <1>16 DEF ListPair, PairTokenMatches
<1>17. CASE EndListing
  BY <1>17 DEF EndListing
<1>18. CASE KillHolder
  BY <1>18 DEF KillHolder, Fault, Leave
<1>19. ASSUME NEW o \in {"error", "lost"}, TearJournal(o) PROVE ListingFits'
  BY <1>19 DEF TearJournal, Fault, Leave
<1>20. CASE StageFails
  BY <1>20 DEF StageFails, Fault, Leave
<1>21. CASE CommitFails
  BY <1>21 DEF CommitFails, Fault
<1> QED  BY <1>1, <1>2, <1>3, <1>4, <1>5, <1>6, <1>7, <1>8, <1>9, <1>10, <1>11, <1>12, <1>13, <1>14, <1>15, <1>16, <1>17, <1>18, <1>19, <1>20, <1>21 DEF VoiceNext

(* The invariant holds at the start, after whatever earlier version wrote *)
(* the pair, ...                                                          *)
LEMMA VoiceInvInit == VoiceInit => VoiceInv
<1> SUFFICES ASSUME VoiceInit PROVE VoiceInv
  OBVIOUS
<1> USE VoiceAssumption, TokensAreFresh DEF VoiceInit, NoTx
<1>1. VoiceTypeOK
  <2>1. VoiceFlags /\ CurrentFits
    <3>1. failed = FALSE /\ disturbed = FALSE /\ current = 0 /\ step = "idle"
      OBVIOUS
    <3>2. VoiceFlags
      BY <3>1 DEF VoiceFlags
    <3>3. (current # 0) = FALSE /\ (step \in {"restore", "restoreNpz", "cleanup"}) = FALSE
      BY <3>1
    <3>4. QED
      BY <3>2, <3>3 DEF CurrentFits
  <2>2. VoiceRecords
    BY DEF VoiceRecords
  <2>3. VoicePlaces
    BY DEF VoicePlaces, Steps
  <2>4. QED
    BY <2>1, <2>2, <2>3, TypeParts
<1>2. RecordsFit /\ HolderFits
  BY DEF RecordsFit, HolderFits, Changes, Repairs
<1>3. ChangesFit /\ RepairsFit /\ ListingFits
  BY DEF ChangesFit, RepairsFit, ListingFits
<1>4. Potents = {}
  BY DEF Potents, Potent
<1>5. QED
  BY <1>1, <1>2, <1>3, <1>4 DEF VoiceInv, OnePotent, PairFits

(* ... and every step keeps it, kills and disk errors included.           *)
LEMMA VoiceInvStep == VoiceInv /\ [VoiceNext]_voiceVars => VoiceInv'
<1> SUFFICES ASSUME VoiceInv, [VoiceNext]_voiceVars PROVE VoiceInv'
  OBVIOUS
<1>1. CASE VoiceNext
  <2>1. VoiceTypeOK'
    BY <1>1, TypeParts, VoiceFlagsStep, VoiceRecordsStep, VoicePlacesStep, CurrentStep, PTL
  <2>2. QED
    BY <1>1, <2>1, RecordsStep, HolderStep, ChangesStep, RepairsStep, PotentStep, PairStep, ListingStep DEF VoiceInv
<1>2. CASE UNCHANGED voiceVars
  BY <1>2 DEF VoiceInv, VoiceTypeOK, RecordsFit, HolderFits, ChangesFit, RepairsFit, OnePotent, PairFits, ListingFits,
              Potents, Potent, New, Steps, Repairs, Changes, voiceVars, pair, records, reading
<1>3. QED
  BY <1>1, <1>2

(* What the two files stand for: themselves when they agree, else the     *)
(* pair before the transaction whose journal could act.                   *)
VoiceReads ==
  /\ json = npz => Voice = json
  /\ json # npz => \E t \in Potents : Voice = tx[t].json

(* The mapping of the refinement is that.                                 *)
LEMMA VoiceIs == VoiceInv => VoiceReads
<1> SUFFICES ASSUME VoiceInv PROVE VoiceReads
  OBVIOUS
<1> USE DEF VoiceReads
<1>1. ASSUME json # npz PROVE \E t \in Potents : Voice = tx[t].json
  <2>1. PICK t \in Potents : TRUE
    BY <1>1 DEF VoiceInv, PairFits
  <2>2. t \in Transactions /\ Potent(t)
    BY DEF Potents
  <2>3. Verdict(t) = "restore"
    BY <1>1, <2>2, VerdictIs
  <2>4. \A u \in Transactions : Verdict(u) = "restore" => u = t
    BY <2>2, VerdictIs DEF VoiceInv, OnePotent, Potents
  <2>5. (CHOOSE u \in Transactions : Verdict(u) = "restore") = t
    BY <2>2, <2>3, <2>4
  <2>6. QED
    BY <1>1, <2>2, <2>3, <2>5 DEF Voice
<1>2. QED
  BY <1>1 DEF Voice

(* The invariant implies what the run checks.                             *)
LEMMA VoiceFacts == VoiceInv => VoicesAreWhole
<1> SUFFICES ASSUME VoiceInv PROVE VoicesAreWhole
  OBVIOUS
<1>1. step \in {"op", "staged"} => Potents = {} /\ json = npz
  BY DEF VoiceInv, OnePotent, PairFits
<1>2. LeftoversAreInert
  <2> SUFFICES ASSUME step \in {"op", "staged"}, NEW t \in Transactions
               PROVE  journal[t] # "none" => Verdict(t) = "ignore" \/ (tx[t].present /\ ~(Backups \subseteq area[t]))
    BY DEF LeftoversAreInert
  <2>1. ~Potent(t)
    BY <1>1 DEF Potents
  <2>2. QED
    BY <2>1 DEF Potent, Verdict
<1>3. UndisturbedListingIsRight
  BY VoiceIs DEF VoiceReads, VoiceInv, ListingFits, UndisturbedListingIsRight
<1>4. QED
  BY <1>1, <1>2, <1>3 DEF VoicesAreWhole, VoiceInv, RecoveredPairIsWhole

(* The voice store (core/sparktts_voices.py): for any number of           *)
(* transactions, kills and disk errors, recovery ends with both files of  *)
(* one generation or with none, the journals it leaves never act again,   *)
(* and a listing during which nothing changes names the voice exactly     *)
(* when there is one.                                                     *)
THEOREM VoicesWhole == VoiceSpec => []VoicesAreWhole
<1>1. VoiceInv => VoicesAreWhole
  BY VoiceFacts
<1>2. QED
  BY <1>1, VoiceInvInit, VoiceInvStep, PTL DEF VoiceSpec

(* The four steps that write or unlink a file of the pair.                *)
LEMMA PairChanges == ASSUME VoiceNext PROVE UNCHANGED pair \/ RestoreJson \/ RestoreNpz \/ CommitFirst \/ CommitSecond
<1>1. ASSUME NEW j \in {"list", "write", "delete"}, Enter(j) PROVE UNCHANGED pair
  BY <1>1 DEF Enter
<1>2. ASSUME NEW s \in Transactions, RecoverTransaction(s) \/ Stage(s) PROVE UNCHANGED pair
  BY <1>2 DEF RecoverTransaction, Stage
<1>3. ASSUME NEW f \in Backups \cup {"dir", "new.json", "new.npz"}, RemoveFile(f) PROVE UNCHANGED pair
  BY <1>3 DEF RemoveFile
<1>4. ASSUME NEW o \in {"error", "lost"}, TearJournal(o) PROVE UNCHANGED pair
  BY <1>4 DEF TearJournal
<1>5. ASSUME \/ RemoveJournal \/ SweepOrphans \/ LeaveToScan \/ Refuse \/ NothingThere \/ WriteJournal
            \/ LoadJson \/ ListPair \/ EndListing \/ KillHolder \/ StageFails \/ CommitFails
       PROVE  UNCHANGED pair
  BY <1>5 DEF RemoveJournal, SweepOrphans, LeaveToScan, Refuse, NothingThere, WriteJournal, LoadJson, ListPair, EndListing,
               KillHolder, StageFails, CommitFails
<1>6. QED
  BY <1>1, <1>2, <1>3, <1>4, <1>5 DEF VoiceNext

(* Only the second change of a commit changes the voice: until then a     *)
(* mixed pair stands for the old one, and a repair puts that back.        *)
LEMMA VoiceSame ==
  ASSUME VoiceInv, VoiceInv', VoiceNext, ~CommitSecond
  PROVE  Voice' = Voice
<1>1. VoiceReads /\ VoiceReads'
  BY VoiceIs, PTL
<1>2. /\ Potents' \subseteq Potents \/ (step = "staged" /\ step' = "commit" /\ Potents' \subseteq {token})
      /\ \A t \in Potents' : tx'[t] = tx[t]
      /\ UNCHANGED records => Potents' = Potents
      /\ VoicePlaces
  BY PotentsStep, TypeParts DEF VoiceInv
<1>3. CASE UNCHANGED pair
  BY <1>1, <1>2, <1>3 DEF VoiceReads, pair, VoiceInv, OnePotent
<1>4. CASE RestoreJson
  <2>1. current \in Potents /\ json' = tx[current].json /\ npz' = npz /\ step' = "restoreNpz"
    BY <1>4, RepairsSomething DEF RestoreJson, VoiceInv, RepairsFit, Potents, Repairs
  <2>2. Potents' = {current} /\ Potents = {current} /\ tx' = tx
    BY <1>2, <1>4, <2>1 DEF RestoreJson, VoiceInv, OnePotent, records
  <2>3. ~(json = New(current) /\ npz = New(current)) /\ json \in {tx[current].json, New(current)} /\ npz \in {tx[current].json, New(current)}
    BY <1>2, <1>4, <2>1 DEF RestoreJson, VoiceInv, RepairsFit, PairFits
  <2>4. QED
    BY <1>1, <1>2, <2>1, <2>2, <2>3 DEF VoiceReads
<1>5. CASE RestoreNpz
  <2>1. current \in Potents /\ current \in Transactions /\ json = tx[current].json /\ json' = json /\ npz' = tx[current].npz
    BY <1>5, RepairsSomething DEF RestoreNpz, VoiceInv, RepairsFit, Potents, Repairs
  <2>2. Potents = {current} /\ npz' = json'
    BY <2>1 DEF VoiceInv, OnePotent, RecordsFit
  <2>3. QED
    BY <1>1, <1>2, <2>1, <2>2 DEF VoiceReads
<1>6. CASE CommitFirst
  <2>1. token \in Transactions /\ Potent(token) /\ json = tx[token].json /\ npz = json /\ tx' = tx /\ job \in {"write", "delete"}
    BY <1>2, <1>6, TokensAreFresh DEF CommitFirst, VoiceInv, ChangesFit, HolderFits, VoicePlaces, Changes
  <2>2. Potents' \subseteq {token}
    BY <1>2, <1>6, <2>1 DEF VoiceInv, OnePotent, Potents, CommitFirst
  <2>3. json' = npz' => json' = tx[token].json
    <3>1. job = "write" => npz' = token /\ json' = json
      BY <1>6 DEF CommitFirst
    <3>2. job = "delete" => npz' = npz
      BY <1>6 DEF CommitFirst
    <3>3. tx[token].json # token
      BY <2>1 DEF VoiceInv, RecordsFit
    <3>4. QED
      BY <2>1, <3>1, <3>2, <3>3
  <2>4. QED
    BY <1>1, <1>2, <2>1, <2>2, <2>3 DEF VoiceReads
<1>7. QED
  BY <1>3, <1>4, <1>5, <1>6, PairChanges

(* A call has been applied when both files are what its transaction is to *)
(* leave.                                                                 *)
PhaseFits ==
  /\ Phase = IF job \in {"none", "list"} THEN "idle" ELSE IF token # 0 /\ json = New(token) /\ npz = New(token) THEN "applied" ELSE "called"
  /\ Applied <=> token # 0 /\ json = New(token) /\ npz = New(token)

(* The phase of the refinement is that.                                   *)
LEMMA PhaseIs == VoiceInv => PhaseFits
<1> SUFFICES ASSUME VoiceInv PROVE PhaseFits
  OBVIOUS
<1> USE DEF PhaseFits
<1>1. Applied <=> token # 0 /\ json = New(token) /\ npz = New(token)
  BY DEF Applied, NewComplete, New, VoiceInv, HolderFits
<1>2. step = "idle" <=> job = "none"
  BY DEF VoiceInv, HolderFits
<1>3. QED
  BY <1>1, <1>2 DEF Phase

(* And only that step applies a call; no repair of a failed commit takes  *)
(* back one that was applied.                                             *)
LEMMA TokenKeepsPhase ==
  ASSUME VoiceInv, VoiceInv', VoiceNext, UNCHANGED <<job, token>>, ~CommitSecond
  PROVE  Phase' = Phase
<1> DEFINE Done == json = New(token) /\ npz = New(token)
<1>1. PhaseFits /\ PhaseFits'
  BY PhaseIs, PTL
<1>2. ASSUME token # 0 PROVE Done' <=> Done
  <2>1. token \in Transactions /\ tx[token].op = job /\ tx'[token].op = job /\ (step \in Repairs => current = token)
    BY <1>2, TypeParts DEF VoiceInv, HolderFits, VoicePlaces
  <2>2. New(token)' = New(token) /\ tx[token].json # New(token)
    BY <2>1 DEF New, VoiceInv, HolderFits, RecordsFit
  <2>3. CASE UNCHANGED pair
    BY <2>2, <2>3 DEF pair
  <2>4. CASE RestoreJson
    BY <2>1, <2>2, <2>4 DEF RestoreJson, VoiceInv, RepairsFit, Repairs
  <2>5. CASE RestoreNpz
    BY <2>1, <2>2, <2>5 DEF RestoreNpz, VoiceInv, RepairsFit, Repairs
  <2>6. CASE CommitFirst
    <3>1. ~Done /\ job \in {"write", "delete"}
      BY <1>2, <2>2, <2>6 DEF CommitFirst, VoiceInv, ChangesFit, HolderFits
    <3>2. json' = tx[token].json \/ npz' = tx[token].json
      BY <2>6, <3>1 DEF CommitFirst, VoiceInv, ChangesFit
    <3>3. QED
      BY <2>2, <3>1, <3>2
  <2>7. QED
    BY <2>3, <2>4, <2>5, <2>6, PairChanges
<1>3. QED
  BY <1>1, <1>2 DEF PhaseFits

(* Every step is one of the register, or none: entering is Call, the      *)
(* second change of a commit Apply, the end of the clean-up Succeed or,   *)
(* if the commit had raised, Fail.                                        *)
LEMMA VoiceStepRefines == ASSUME VoiceInv, VoiceInv', VoiceNext PROVE [Register!RegisterNext]_(Register!registerVars)
<1> DEFINE Goal == [Register!RegisterNext]_(Register!registerVars)
<1>1. PhaseFits /\ PhaseFits' /\ VoiceReads
  BY PhaseIs, VoiceIs, PTL
<1>2. ~CommitSecond => Voice' = Voice
  BY VoiceSame
<1>3. UNCHANGED <<job, token, answer>> /\ ~CommitSecond => Goal
  BY <1>2, TokenKeepsPhase DEF Register!registerVars
<1> HIDE DEF Goal
<1>4. /\ step = "idle" <=> job = "none"
      /\ step \in {"idle", "scan", "op"} => token = 0
      /\ job \in {"none", "list", "write", "delete"}
  BY TypeParts DEF VoiceInv, HolderFits, VoicePlaces
<1>5. ASSUME NEW j \in {"list", "write", "delete"}, Enter(j) PROVE Goal
  <2>1. step = "idle" /\ job = "none" /\ job' = j /\ token = 0 /\ token' = 0 /\ Voice' = Voice
    BY <1>2, <1>4, <1>5 DEF Enter, CommitSecond
  <2>2. CASE j = "list"
    <3>1. Phase = "idle" /\ Phase' = "idle" /\ answer' = answer
      BY <1>1, <1>5, <2>1, <2>2 DEF Enter, PhaseFits
    <3>2. QED
      BY <2>1, <2>2, <3>1 DEF Goal, Register!registerVars
  <2>3. CASE j # "list"
    <3>1. Phase = "idle" /\ Phase' = "called" /\ answer' = "none"
      BY <1>1, <1>5, <2>1, <2>3 DEF Enter, PhaseFits
    <3>2. Register!Call
      BY <2>1, <2>3, <3>1 DEF Register!Call
    <3>3. QED
      BY <3>2 DEF Goal, Register!RegisterNext
  <2>4. QED
    BY <2>2, <2>3
<1>6. ASSUME NEW s \in Transactions, RecoverTransaction(s) PROVE Goal
  BY <1>3, <1>6 DEF RecoverTransaction, CommitSecond
<1>7. ASSUME NEW f \in Backups \cup {"dir", "new.json", "new.npz"}, RemoveFile(f) PROVE Goal
  BY <1>3, <1>7 DEF RemoveFile, CommitSecond
<1>8. ASSUME RestoreJson \/ RestoreNpz \/ SweepOrphans \/ WriteJournal \/ CommitFirst PROVE Goal
  <2>1. UNCHANGED <<job, token, answer>> /\ step # "commitSecond"
    BY <1>8 DEF RestoreJson, RestoreNpz, SweepOrphans, WriteJournal, CommitFirst
  <2>2. QED
    BY <1>3, <2>1 DEF CommitSecond
<1>9. ASSUME CommitFails PROVE Goal
  <2>1. UNCHANGED <<json, npz, job, token, answer>>
    BY <1>9 DEF CommitFails, pair
  <2>2. token \in Transactions /\ token # 0 /\ tx[token].op = job
    BY <1>9, CommitRecovers, TokensAreFresh DEF CommitFails, VoiceInv, HolderFits, Changes
  <2>3. ~CommitSecond
    BY <2>1, <2>2 DEF CommitSecond, VoiceInv, ChangesFit, RecordsFit, HolderFits
  <2>4. QED
    BY <1>3, <2>1, <2>3
<1>10. ASSUME LoadJson \/ ListPair \/ EndListing PROVE Goal
  <2>1. UNCHANGED <<step, job, token, answer>>
    BY <1>10 DEF LoadJson, ListPair, EndListing
  <2>2. QED
    BY <1>3, <2>1 DEF CommitSecond
<1>11. ASSUME NEW s \in Transactions, Stage(s) PROVE Goal
  <2>1. job \in {"write", "delete"} /\ UNCHANGED <<json, npz, job, answer>> /\ token = 0 /\ token' = s /\ s \notin issued /\ Voice' = Voice
    BY <1>2, <1>4, <1>11 DEF Stage, CommitSecond, pair
  <2>2. job = "delete" => json # 0
    BY <1>11 DEF Stage
  <2>3. tx'[s].op = job
    BY <1>11, TypeParts DEF Stage, VoiceInv, VoiceRecords
  <2>4. json # New(s)'
    BY <2>1, <2>2, <2>3, TokensAreFresh DEF New, VoiceInv, RecordsFit
  <2>5. Phase = "called" /\ Phase' = "called"
    BY <1>1, <2>1, <2>4 DEF PhaseFits
  <2>6. QED
    BY <2>1, <2>5 DEF Goal, Register!registerVars
<1>12. ASSUME CommitSecond PROVE Goal
  <2>1. token \in Transactions /\ tx[token].op = job /\ job \in {"write", "delete"} /\ token # 0 /\ job' = job /\ token' = token /\ tx' = tx /\ answer' = answer
    BY <1>12, TypeParts, TokensAreFresh DEF CommitSecond, VoiceInv, HolderFits, VoicePlaces, Changes
  <2>2. json' = New(token) /\ npz' = New(token) /\ New(token)' = New(token)
    BY <1>12, <2>1 DEF CommitSecond, New, VoiceInv, ChangesFit
  <2>3. json # npz /\ token \in Potents /\ tx[token].json # New(token)
    BY <1>12, <2>1 DEF CommitSecond, VoiceInv, ChangesFit, RecordsFit, HolderFits, Potents, New
  <2>4. Voice = tx[token].json
    BY <1>1, <2>3 DEF VoiceReads, VoiceInv, OnePotent
  <2>5. Voice' = New(token)
    <3>1. VoiceReads'
      BY VoiceIs, PTL
    <3>2. QED
      BY <2>2, <3>1 DEF VoiceReads
  <2>6. Phase = "called" /\ Phase' = "applied"
    BY <1>1, <2>1, <2>2, <2>3 DEF PhaseFits
  <2>7. New(token) \in IF job = "write" THEN Generations \ {Voice} ELSE {0}
    BY <2>1, <2>3, <2>4, TokensAreFresh DEF New
  <2>8. Register!Apply
    BY <2>1, <2>5, <2>6, <2>7 DEF Register!Apply
  <2>9. QED
    BY <2>8 DEF Goal, Register!RegisterNext
<1>13. ASSUME RemoveJournal PROVE Goal
  <2>1. step = "cleanup" /\ Voice' = Voice /\ current \in Transactions
    BY <1>2, <1>13, RepairsSomething DEF RemoveJournal, CommitSecond, Repairs
  <2>2. CASE current # token
    BY <1>3, <1>13, <2>1, <2>2 DEF RemoveJournal, CleanedUp, CommitSecond
  <2>3. CASE current = token
    <3>1. token # 0 /\ job \in {"write", "delete"} /\ job' = "none"
      BY <1>13, <2>1, <2>3, TokensAreFresh DEF RemoveJournal, CleanedUp, Leave, VoiceInv, HolderFits
    <3>2. Phase # "idle" /\ Phase' = "idle"
      BY <1>1, <3>1 DEF PhaseFits
    <3>3. CASE failed
      <4>1. answer' = "error"
        BY <1>13, <2>3, <3>1, <3>3 DEF RemoveJournal, CleanedUp, Leave
      <4>2. Register!Fail
        BY <2>1, <3>1, <3>2, <4>1 DEF Register!Fail
      <4>3. QED
        BY <4>2 DEF Goal, Register!RegisterNext
    <3>4. CASE ~failed
      <4>1. answer' = "ok"
        BY <1>13, <2>3, <3>1, <3>4 DEF RemoveJournal, CleanedUp, Leave
      <4>2. Phase = "applied"
        BY <1>1, <2>1, <3>1, <3>4 DEF PhaseFits, VoiceInv, RepairsFit
      <4>3. Register!Succeed
        BY <2>1, <3>1, <3>2, <4>1, <4>2 DEF Register!Succeed
      <4>4. QED
        BY <4>3 DEF Goal, Register!RegisterNext
    <3>5. QED
      BY <3>3, <3>4
  <2>4. QED
    BY <2>2, <2>3
<1>14. ASSUME LeaveToScan PROVE Goal
  <2>1. job = "list" /\ job' = "none" /\ answer' = answer /\ Voice' = Voice
    BY <1>2, <1>14 DEF LeaveToScan, Leave, CommitSecond
  <2>2. Phase = "idle" /\ Phase' = "idle"
    BY <1>1, <2>1 DEF PhaseFits
  <2>3. QED
    BY <2>1, <2>2 DEF Goal, Register!registerVars
<1>15. ASSUME NEW o \in {"error", "lost"}, step # "idle", step' = "idle", Leave(o), Voice' = Voice PROVE Goal
  <2>1. job # "none" /\ job' = "none"
    BY <1>4, <1>15 DEF Leave
  <2>2. Phase' = "idle"
    BY <1>1, <2>1 DEF PhaseFits
  <2>3. CASE job = "list"
    <3>1. Phase = "idle" /\ answer' = answer
      BY <1>1, <1>15, <2>3 DEF PhaseFits, Leave
    <3>2. QED
      BY <1>15, <2>1, <2>2, <2>3, <3>1 DEF Goal, Register!registerVars
  <2>4. CASE job # "list"
    <3>1. Phase # "idle" /\ answer' = o
      BY <1>1, <1>4, <1>15, <2>1, <2>4 DEF PhaseFits, Leave
    <3>2. Register!Fail
      BY <1>15, <2>1, <2>2, <2>4, <3>1 DEF Register!Fail
    <3>3. QED
      BY <3>2 DEF Goal, Register!RegisterNext
  <2>5. QED
    BY <2>3, <2>4
<1>16. ASSUME Refuse \/ StageFails PROVE Goal
  BY <1>2, <1>15, <1>16 DEF Refuse, StageFails, Leave, CommitSecond
<1>17. ASSUME KillHolder PROVE Goal
  <2>1. Leave("lost") /\ step # "idle" /\ step' = "idle" /\ ~CommitSecond
    BY <1>17 DEF KillHolder, Leave, CommitSecond
  <2>2. QED
    BY <1>2, <1>15, <2>1
<1>18. ASSUME NEW o \in {"error", "lost"}, TearJournal(o) PROVE Goal
  BY <1>2, <1>15, <1>18 DEF TearJournal, Leave, CommitSecond
<1>19. ASSUME NothingThere PROVE Goal
  <2>1. job = "delete" /\ job' = "none" /\ answer' = "absent" /\ Voice' = Voice /\ json = 0 /\ npz = 0 /\ token = 0
    BY <1>2, <1>4, <1>19 DEF NothingThere, Leave, CommitSecond
  <2>2. Voice = 0
    BY <1>1, <2>1 DEF VoiceReads
  <2>3. Phase = "called" /\ Phase' = "idle"
    BY <1>1, <2>1 DEF PhaseFits
  <2>4. Register!NothingToDelete
    BY <2>1, <2>2, <2>3 DEF Register!NothingToDelete
  <2>5. QED
    BY <2>4 DEF Goal, Register!RegisterNext
<1>20. QED
  BY <1>5, <1>6, <1>7, <1>8, <1>9, <1>10, <1>11, <1>12, <1>13, <1>14, <1>16, <1>17, <1>18, <1>19 DEF VoiceNext, Goal

(* The store implements VoiceRegister: replacing and deleting a voice are *)
(* atomic for any number of transactions and faults, and a reported       *)
(* success is neither undone nor outlived by the old pair.                *)
THEOREM VoiceChangesAtomic == VoiceSpec => VoiceChangesAtomically
<1>1. VoiceInit => Register!RegisterInit
  <2> SUFFICES ASSUME VoiceInit PROVE Register!RegisterInit
    OBVIOUS
  <2>1. VoiceReads /\ PhaseFits
    BY VoiceInvInit, VoiceIs, PhaseIs
  <2>2. Voice = json /\ Phase = "idle"
    BY <2>1 DEF VoiceReads, PhaseFits, VoiceInit
  <2>3. QED
    BY <2>2 DEF Register!RegisterInit, VoiceInit, Generations
<1>2. VoiceInv /\ VoiceInv' /\ [VoiceNext]_voiceVars => [Register!RegisterNext]_(Register!registerVars)
  <2>1. CASE UNCHANGED voiceVars
    <3>1. UNCHANGED <<Voice, Phase, job, answer>>
      BY <2>1 DEF voiceVars, pair, records, reading, Voice, Phase, Applied, NewComplete, Verdict, Settled, OldComplete
    <3>2. QED
      BY <3>1 DEF Register!registerVars
  <2>2. QED
    BY <2>1, VoiceStepRefines
<1>3. QED
  BY <1>1, <1>2, VoiceInvInit, VoiceInvStep, PTL DEF VoiceSpec, VoiceChangesAtomically, Register!RegisterSpec

-----------------------------------------------------------------------------
(* The engine resolver.                                                     *)

(* An engine a backend may be given.                                      *)
Served(e) ==
  /\ Fits(content[e]) \/ (meta[e].source = "migration" /\ sidecars[e] # "kept")
  /\ locked => content[e] = Published(host)

(* Types of what is on the disk and around the process, ...               *)
DiskTypes ==
  /\ host \in Hosts /\ locked \in BOOLEAN /\ force \in BOOLEAN
  /\ content \in [Files -> Contents] /\ meta \in [EngineFiles -> Metas]
  /\ registry \in {"up", "down"} /\ owned \subseteq Files
  /\ sidecars \in [EngineFiles -> {"bare", "kept", "stripped"}]

(* ... and of the start under way; a file that is between unlink and      *)
(* rename is missing.                                                     *)
StartTypes ==
  /\ resolver \in {"off", "down", "check", "fetch", "move", "record", "serving"}
  /\ engine \in EngineFiles /\ payload \subseteq Files /\ moving \in {0} \cup payload
  /\ (moving # 0 => resolver = "move" /\ content[moving] = Missing)
  /\ report \subseteq EngineFiles /\ mishaps \in 0..MaxMishaps

(* A sidecar of today was written by an adoption or names the bytes       *)
(* published for its host: it never tells of a file that was not in       *)
(* place.                                                                 *)
SidecarsAreTrue ==
  \A e \in EngineFiles :
    meta[e].kind = "current" =>
      meta[e].source = "migration" \/ (meta[e].source = "hf_bundle" /\ meta[e].hash = Published(meta[e].host))

(* A sidecar that was not removed since the engine came, or since a       *)
(* bundle was recorded, holds a hash of bytes built for the host it       *)
(* names.                                                                 *)
KeptAreTrue ==
  \A e \in EngineFiles :
    sidecars[e] = "kept" =>
      /\ meta[e].kind # "none"
      /\ meta[e].kind # "malformed" =>
           meta[e].hash.origin \in {"published", "staged"} /\ meta[e].hash.host = meta[e].host

(* What resolve_all has checked so far, if nothing failed: the engines    *)
(* before the current one, all of them once the bundle is in place, all   *)
(* of them when the backends are imported.                                *)
Verified ==
  /\ resolver \in {"check", "fetch"} /\ report = {} => \A e \in 1..(engine - 1) : Served(e)
  /\ resolver = "move" => \A e \in EngineFiles : e \in payload \/ content[e] = Published(host)
  /\ resolver = "record" => \A e \in EngineFiles : content[e] = Published(host)
  /\ resolver = "serving" => \A e \in EngineFiles : Served(e)

(* Files that have been there and are not.                                *)
Lost == {f \in owned : content[f] = Missing}

(* Each of them cost a mishap, except the one in the hands of the         *)
(* resolver.                                                              *)
LossFits == Cardinality(Lost) <= mishaps + (IF moving \in owned THEN 1 ELSE 0)

(* The inductive invariant.                                               *)
EngineInv == DiskTypes /\ StartTypes /\ SidecarsAreTrue /\ KeptAreTrue /\ Verified /\ LossFits

(* The contents of a file, told apart.                                    *)
LEMMA ContentsDiffer ==
  ASSUME NEW h \in Hosts, NEW g \in Hosts
  PROVE  /\ Published(h) # Missing /\ Damaged # Missing /\ Staged(h) # Missing
         /\ Published(h) \in Contents /\ Damaged \in Contents /\ Staged(h) \in Contents /\ Missing \in Contents
         /\ Published(h).origin = "published" /\ Published(h).host = h
         /\ Staged(h).origin = "staged" /\ Staged(h).host = h
BY DEF Published, Damaged, Staged, Missing, Contents

(* The files of a profile.                                                *)
LEMMA FilesAre ==
  /\ EngineFiles \subseteq Files /\ Extra \in Files /\ Extra \notin EngineFiles
  /\ 0 \notin Files /\ IsFiniteSet(Files) /\ 1 \in EngineFiles
BY ResolverAssumption, FS_Interval DEF EngineFiles, Files, Extra

(* The invariant holds of every installation the resolver may find.       *)
LEMMA EngineInvInit == EngineInit => EngineInv
<1> SUFFICES ASSUME EngineInit PROVE EngineInv
  OBVIOUS
<1> USE ResolverAssumption, FilesAre
<1>1. PICK c \in Contents, x \in {Missing, Published(host)}, h \in Hosts :
        /\ content = [f \in Files |-> IF f = Extra THEN x ELSE c]
        /\ meta \in {[e \in EngineFiles |-> m] : m \in
             {NoMeta, Malformed, LegacyMeta(h, Staged(h)), LegacyMeta(h, Missing),
              Meta(h, Published(h), "hf_bundle"), Meta(h, Staged(h), "migration")}}
  BY DEF EngineInit
<1>2. PICK m \in {NoMeta, Malformed, LegacyMeta(h, Staged(h)), LegacyMeta(h, Missing),
                  Meta(h, Published(h), "hf_bundle"), Meta(h, Staged(h), "migration")} :
        meta = [e \in EngineFiles |-> m]
  BY <1>1
<1>3. host \in Hosts /\ locked \in BOOLEAN /\ force \in BOOLEAN
  BY DEF EngineInit
<1>4. m \in Metas
  BY <1>2, ContentsDiffer DEF Metas
<1>5. content \in [Files -> Contents]
  BY <1>1, <1>3, ContentsDiffer
<1>6. DiskTypes
  BY <1>2, <1>3, <1>4, <1>5 DEF DiskTypes, EngineInit
<1>7. StartTypes
  BY DEF StartTypes, EngineInit
<1>8. SidecarsAreTrue
  <2>1. m.kind = "current" => m.source = "migration" \/ (m.source = "hf_bundle" /\ m.hash = Published(m.host))
    BY <1>2 DEF NoMeta, Malformed, LegacyMeta, Meta
  <2>2. QED
    BY <1>2, <2>1 DEF SidecarsAreTrue
<1>12. KeptAreTrue
  <2> SUFFICES ASSUME NEW e \in EngineFiles, sidecars[e] = "kept"
               PROVE  /\ m.kind # "none"
                      /\ m.kind # "malformed" =>
                           m.hash.origin \in {"published", "staged"} /\ m.hash.host = m.host
    BY <1>2 DEF KeptAreTrue
  <2>1. m.kind # "none" /\ m \notin {LegacyMeta(g, Missing) : g \in Hosts}
    BY <1>2 DEF EngineInit
  <2>2. m \in {Malformed, LegacyMeta(h, Staged(h)), Meta(h, Published(h), "hf_bundle"),
               Meta(h, Staged(h), "migration")}
    BY <1>2, <2>1 DEF NoMeta
  <2> QED
    BY <1>1, <2>1, <2>2, ContentsDiffer DEF Malformed, LegacyMeta, Meta
<1>9. Verified
  BY DEF Verified, EngineInit
<1>10. LossFits
  <2>1. Lost = {} /\ mishaps = 0 /\ moving = 0 /\ 0 \notin owned
    BY DEF Lost, EngineInit
  <2>2. QED
    BY <2>1, FS_EmptySet DEF LossFits
<1>11. QED
  BY <1>6, <1>7, <1>8, <1>12, <1>9, <1>10 DEF EngineInv

(* Every step keeps the types of the disk, ...                            *)
LEMMA DiskStep == ASSUME EngineInv, EngineNext PROVE DiskTypes'
<1> USE FilesAre, ContentsDiffer
<1> USE DEF EngineInv, DiskTypes, StartTypes, settled, disk, resolving
<1>1. CASE ResolveAll
  BY <1>1 DEF ResolveAll
<1>2. CASE CacheHit
  BY <1>2 DEF CacheHit, NextEngine
<1>3. CASE MigrateExistingEngine
  <2>1. Meta(host, content[engine], "migration") \in Metas
    BY DEF Metas
  <2>2. QED
    BY <1>3, <2>1 DEF MigrateExistingEngine
<1>4. CASE ClearSidecar
  <2>1. NoMeta \in Metas
    BY DEF Metas
  <2>2. QED
    BY <1>4, <2>1 DEF ClearSidecar
<1>5. CASE HfResolveFails
  BY <1>5 DEF HfResolveFails, NextEngine
<1>6. CASE BundleExtracted
  BY <1>6 DEF BundleExtracted
<1>7. ASSUME NEW f \in Files, UnlinkTarget(f) PROVE DiskTypes'
  BY <1>7 DEF UnlinkTarget
<1>8. ASSUME NEW f \in Files, MoveIntoPlace(f) PROVE DiskTypes'
  BY <1>8 DEF MoveIntoPlace
<1>9. CASE BundleInstalled
  BY <1>9 DEF BundleInstalled, NextEngine
<1>10. ASSUME NEW e \in EngineFiles, RecordMeta(e) PROVE DiskTypes'
  <2>1. Meta(host, content[e], "hf_bundle") \in Metas
    BY DEF Metas
  <2>2. QED
    BY <1>10, <2>1 DEF RecordMeta
<1>11. CASE BundleRecorded
  BY <1>11 DEF BundleRecorded, NextEngine
<1>12. CASE MoveFails
  BY <1>12 DEF MoveFails, NextEngine
<1>13. CASE PowerOn
  BY <1>13 DEF PowerOn
<1>14. CASE Stop
  BY <1>14 DEF Stop
<1>15. CASE Crash
  BY <1>15 DEF Crash, Mishap
<1>16. CASE Flash
  BY <1>16 DEF Flash, Mishap
<1>17. CASE RegistryTurns
  BY <1>17 DEF RegistryTurns
<1>18. ASSUME NEW e \in EngineFiles, NEW c \in {Damaged, Staged(host)}, ReplaceEngine(e, c) PROVE DiskTypes'
  BY <1>18 DEF ReplaceEngine, Mishap
<1>19. QED
  BY <1>1, <1>2, <1>3, <1>4, <1>5, <1>6, <1>7, <1>8, <1>9, <1>10, <1>11, <1>12, <1>13, <1>14, <1>15, <1>16, <1>17, <1>18 DEF EngineNext, ResolverSteps

(* ... and those of the start.                                            *)
LEMMA StartStep == ASSUME EngineInv, EngineNext PROVE StartTypes'
<1> USE FilesAre, ContentsDiffer
<1> USE ResolverAssumption DEF EngineFiles
<1> USE DEF EngineInv, DiskTypes, StartTypes, settled, disk, resolving
<1>1. CASE ResolveAll
  BY <1>1 DEF ResolveAll
<1>2. CASE CacheHit
  BY <1>2 DEF CacheHit, NextEngine
<1>3. CASE MigrateExistingEngine
  BY <1>3 DEF MigrateExistingEngine, NextEngine
<1>4. CASE ClearSidecar
  BY <1>4 DEF ClearSidecar
<1>5. CASE HfResolveFails
  BY <1>5 DEF HfResolveFails, NextEngine
<1>6. CASE BundleExtracted
  BY <1>6 DEF BundleExtracted
<1>7. ASSUME NEW f \in Files, UnlinkTarget(f) PROVE StartTypes'
  BY <1>7 DEF UnlinkTarget
<1>8. ASSUME NEW f \in Files, MoveIntoPlace(f) PROVE StartTypes'
  BY <1>8 DEF MoveIntoPlace
<1>9. CASE BundleInstalled
  <2>1. moving = 0 /\ payload = {}
    BY <1>9 DEF BundleInstalled
  <2>2. CASE resolver' = "record" /\ payload' = {e \in EngineFiles : content[e] # Missing}
             /\ UNCHANGED <<engine, report, moving, resolving>>
    BY <2>1, <2>2
  <2>3. CASE NextEngine(TRUE) /\ UNCHANGED resolving
    BY <2>1, <2>3 DEF NextEngine
  <2>4. QED
    BY <1>9, <2>2, <2>3 DEF BundleInstalled
<1>10. ASSUME NEW e \in EngineFiles, RecordMeta(e) PROVE StartTypes'
  BY <1>10 DEF RecordMeta
<1>11. CASE BundleRecorded
  BY <1>11 DEF BundleRecorded, NextEngine
<1>12. CASE MoveFails
  BY <1>12 DEF MoveFails, NextEngine
<1>13. CASE PowerOn
  BY <1>13 DEF PowerOn
<1>14. CASE Stop
  BY <1>14 DEF Stop
<1>15. CASE Crash
  BY <1>15 DEF Crash, Mishap
<1>16. CASE Flash
  BY <1>16 DEF Flash, Mishap
<1>17. CASE RegistryTurns
  BY <1>17 DEF RegistryTurns
<1>18. ASSUME NEW e \in EngineFiles, NEW c \in {Damaged, Staged(host)}, ReplaceEngine(e, c) PROVE StartTypes'
  BY <1>18 DEF ReplaceEngine, Mishap
<1>19. QED
  BY <1>1, <1>2, <1>3, <1>4, <1>5, <1>6, <1>7, <1>8, <1>9, <1>10, <1>11, <1>12, <1>13, <1>14, <1>15, <1>16, <1>17, <1>18 DEF EngineNext, ResolverSteps

(* Who writes sidecars: an adoption, the clearing of a stale one, the     *)
(* record after an installation.                                          *)
LEMMA MetaMoves ==
  ASSUME EngineNext
  PROVE  \/ meta' = meta /\ sidecars' = sidecars
         \/ MigrateExistingEngine \/ ClearSidecar \/ \E e \in EngineFiles : RecordMeta(e)
BY DEF EngineNext, ResolverSteps, ResolveAll, CacheHit, HfResolveFails, BundleExtracted, UnlinkTarget,
       MoveIntoPlace, BundleInstalled, BundleRecorded, MoveFails, PowerOn, Stop, Crash, Flash, RegistryTurns,
       ReplaceEngine, disk

(* A sidecar is written only when it is true.                             *)
LEMMA SidecarsStep == ASSUME EngineInv, EngineNext PROVE SidecarsAreTrue'
<1> USE DEF EngineInv, DiskTypes, SidecarsAreTrue
<1>1. CASE meta' = meta /\ sidecars' = sidecars
  BY <1>1
<1>2. CASE MigrateExistingEngine
  BY <1>2 DEF MigrateExistingEngine, Meta, StartTypes
<1>3. CASE ClearSidecar
  BY <1>3 DEF ClearSidecar, NoMeta, StartTypes
<1>4. ASSUME NEW e \in EngineFiles, RecordMeta(e) PROVE SidecarsAreTrue'
  <2>1. content[e] = Published(host)
    BY <1>4 DEF RecordMeta, Verified
  <2>2. QED
    BY <1>4, <2>1 DEF RecordMeta, Meta
<1>5. QED
  BY <1>1, <1>2, <1>3, <1>4, MetaMoves

(* An engine that is adopted with its sidecar in place is the engine the  *)
(* sidecar describes.                                                     *)
LEMMA AdoptedIsServed ==
  ASSUME EngineInv, Migratable(engine), sidecars[engine] = "kept" PROVE Fits(content[engine])
<1>1. engine \in EngineFiles /\ content[engine] # Missing /\ Missing.origin = "missing"
  BY DEF EngineInv, StartTypes, Migratable, Missing
<1>2. meta[engine].kind = "legacy" /\ meta[engine].host = host /\ meta[engine].hash \in {Missing, content[engine]}
  BY <1>1 DEF EngineInv, KeptAreTrue, Migratable
<1>3. meta[engine].hash.origin \in {"published", "staged"} /\ meta[engine].hash.host = host
  BY <1>1, <1>2 DEF EngineInv, KeptAreTrue
<1>4. meta[engine].hash = content[engine]
  BY <1>1, <1>2, <1>3
<1>5. QED
  BY <1>3, <1>4 DEF Fits

(* Every step keeps that: whoever removes a sidecar is noted, whoever     *)
(* writes one knows the bytes.                                            *)
LEMMA KeptStep == ASSUME EngineInv, EngineNext PROVE KeptAreTrue'
<1> USE DEF DiskTypes
<1>0. KeptAreTrue /\ DiskTypes /\ engine \in EngineFiles
  BY DEF EngineInv, StartTypes
<1>1. CASE meta' = meta /\ sidecars' = sidecars
  BY <1>0, <1>1 DEF KeptAreTrue
<1>2. CASE MigrateExistingEngine
  <2>1. /\ meta' = [meta EXCEPT ![engine] = Meta(host, content[engine], "migration")] /\ sidecars' = sidecars
        /\ Migratable(engine)
    BY <1>2 DEF MigrateExistingEngine
  <2>2. sidecars[engine] = "kept" => content[engine].origin \in {"published", "staged"} /\ content[engine].host = host
    BY <2>1, AdoptedIsServed DEF Fits
  <2>3. QED
    BY <1>0, <2>1, <2>2 DEF KeptAreTrue, Meta
<1>3. CASE ClearSidecar
  <2>1. /\ meta' = [meta EXCEPT ![engine] = NoMeta]
        /\ sidecars' = IF meta[engine].kind = "none" THEN sidecars ELSE [sidecars EXCEPT ![engine] = "stripped"]
    BY <1>3 DEF ClearSidecar
  <2>2. sidecars'[engine] # "kept"
    BY <1>0, <2>1 DEF KeptAreTrue
  <2>3. QED
    BY <1>0, <2>1, <2>2 DEF KeptAreTrue
<1>4. ASSUME NEW e \in EngineFiles, RecordMeta(e) PROVE KeptAreTrue'
  <2>1. CASE UNCHANGED <<meta, sidecars>>
    BY <1>0, <2>1 DEF KeptAreTrue
  <2>2. CASE meta' = [meta EXCEPT ![e] = Meta(host, content[e], "hf_bundle")]
             /\ sidecars' = [sidecars EXCEPT ![e] = "kept"]
    <3>1. content[e] = Published(host)
      BY <1>4 DEF EngineInv, RecordMeta, Verified
    <3>2. QED
      BY <1>0, <2>2, <3>1, ContentsDiffer DEF KeptAreTrue, Meta
  <2>3. QED
    BY <1>4, <2>1, <2>2 DEF RecordMeta
<1>5. QED
  BY <1>1, <1>2, <1>3, <1>4, MetaMoves

(* A cache hit is an engine that may be served: the hash vouches for the  *)
(* bytes.                                                                 *)
LEMMA MatchingIsServed == ASSUME EngineInv, CacheHolds(engine) PROVE Served(engine)
<1>1. /\ engine \in EngineFiles /\ host \in Hosts /\ meta[engine].kind = "current"
      /\ meta[engine].host = host /\ meta[engine].hash = content[engine]
      /\ locked => meta[engine].source = "hf_bundle"
  BY DEF EngineInv, DiskTypes, StartTypes, CacheHolds, MetaMatches, ReleaseLockHonoured
<1>2. meta[engine].source = "migration" \/ (meta[engine].source = "hf_bundle" /\ content[engine] = Published(host))
  BY <1>1 DEF EngineInv, SidecarsAreTrue
<1>3. sidecars[engine] = "kept" => Fits(content[engine])
  BY <1>1 DEF EngineInv, KeptAreTrue, Fits
<1>4. QED
  BY <1>1, <1>2, <1>3 DEF Served, Fits, Published

(* Going on to the next engine, after one that failed or that may be      *)
(* served.                                                                *)
LEMMA ServedNext ==
  ASSUME EngineInv, NEW bad \in BOOLEAN, NextEngine(bad), UNCHANGED <<host, locked>>, resolver # "move" \/ bad,
         ~bad /\ report = {} => \A e \in 1..engine : Served(e)'
  PROVE  Verified'
<1> USE ResolverAssumption DEF EngineFiles
<1>1. engine \in EngineFiles /\ report \subseteq EngineFiles
  BY DEF EngineInv, StartTypes
<1>2. report' = {} => ~bad /\ report = {}
  BY <1>1 DEF NextEngine
<1>3. CASE engine < EngineCount
  <2>1. engine' = engine + 1 /\ resolver' = "check"
    BY <1>3 DEF NextEngine
  <2>2. 1..(engine' - 1) = 1..engine
    BY <1>1, <2>1
  <2>3. QED
    BY <1>2, <2>1, <2>2 DEF Verified, Served, Fits
<1>4. CASE ~(engine < EngineCount)
  <2>1. engine = EngineCount /\ engine' = 1 /\ resolver' = IF report' = {} THEN "serving" ELSE "down"
    BY <1>1, <1>4 DEF NextEngine
  <2>2. QED
    BY <1>2, <2>1 DEF Verified
<1>5. QED
  BY <1>3, <1>4

(* Every step keeps what has been checked; a crash or a mishap ends the   *)
(* start it belongs to.                                                   *)
LEMMA VerifiedStep == ASSUME EngineInv, EngineNext PROVE Verified'
<1> USE FilesAre, ContentsDiffer DEF settled, disk, resolving
<1>a. engine \in EngineFiles /\ EngineFiles = 1..EngineCount /\ EngineCount \in Nat
  BY ResolverAssumption DEF EngineInv, StartTypes, EngineFiles
<1>b. Verified /\ DiskTypes
  BY DEF EngineInv
<1>1. CASE ResolveAll
  <2>1. engine' = 1 /\ resolver' = "check"
    BY <1>1 DEF ResolveAll
  <2>2. 1..(engine' - 1) = {}
    BY <2>1
  <2>3. QED
    BY <2>1, <2>2 DEF Verified
<1>2. CASE CacheHit
  <2>1. resolver = "check" /\ NextEngine(FALSE) /\ UNCHANGED <<host, locked, content, meta, sidecars>>
        /\ CacheHolds(engine)
    BY <1>2 DEF CacheHit
  <2>2. Served(engine)
    BY <2>1, MatchingIsServed
  <2>3. report = {} => \A e \in 1..engine : Served(e)
    <3>1. 1..engine = 1..(engine - 1) \cup {engine}
      BY <1>a
    <3>2. QED
      BY <1>b, <2>1, <2>2, <3>1 DEF Verified
  <2>4. report = {} => \A e \in 1..engine : Served(e)'
    BY <2>1, <2>3 DEF Served, Fits
  <2>5. QED
    BY <2>1, <2>4, ServedNext
<1>3. CASE MigrateExistingEngine
  <2>1. /\ resolver = "check" /\ NextEngine(FALSE) /\ UNCHANGED <<host, locked, content, sidecars>> /\ ~locked
        /\ Migratable(engine)
        /\ meta' = [meta EXCEPT ![engine] = Meta(host, content[engine], "migration")]
    BY <1>3 DEF MigrateExistingEngine, Migratable
  <2>2. \A e \in {engine} : Served(e)'
    BY <1>a, <1>b, <2>1, AdoptedIsServed DEF DiskTypes, Served, Fits, Meta
  <2>3. report = {} => \A e \in 1..(engine - 1) : Served(e)'
    <3>1. \A e \in 1..(engine - 1) : e # engine /\ e \in EngineFiles
      BY <1>a
    <3>2. QED
      BY <1>b, <2>1, <3>1 DEF Verified, DiskTypes, Served, Fits
  <2>4. report = {} => \A e \in 1..engine : Served(e)'
    <3>1. 1..engine = 1..(engine - 1) \cup {engine}
      BY <1>a
    <3>2. QED
      BY <2>2, <2>3, <3>1
  <2>5. QED
    BY <2>1, <2>4, ServedNext
<1>4. CASE ClearSidecar
  <2>1. /\ resolver = "check" /\ resolver' = "fetch" /\ UNCHANGED <<host, locked, content, engine, report>>
        /\ meta' = [meta EXCEPT ![engine] = NoMeta]
        /\ sidecars' \in {sidecars, [sidecars EXCEPT ![engine] = "stripped"]}
    BY <1>4 DEF ClearSidecar
  <2>2. \A e \in 1..(engine - 1) : e # engine /\ e \in EngineFiles
    BY <1>a
  <2>3. QED
    BY <1>b, <2>1, <2>2 DEF Verified, DiskTypes, Served, Fits
<1>5. CASE HfResolveFails
  <2>1. NextEngine(TRUE) /\ UNCHANGED <<host, locked>>
    BY <1>5 DEF HfResolveFails
  <2>2. QED
    BY <2>1, ServedNext
<1>6. CASE BundleExtracted
  <2>1. resolver' = "move" /\ EngineFiles \subseteq payload' /\ host \in Hosts
    BY <1>6, <1>b, ResolverAssumption DEF BundleExtracted, DiskTypes
  <2>2. QED
    BY <2>1 DEF Verified
<1>7. ASSUME NEW f \in Files, UnlinkTarget(f) PROVE Verified'
  BY <1>7, <1>b DEF UnlinkTarget, Verified, DiskTypes
<1>8. ASSUME NEW f \in Files, MoveIntoPlace(f) PROVE Verified'
  BY <1>8, <1>b DEF MoveIntoPlace, Verified, DiskTypes
<1>9. CASE BundleInstalled
  <2>1. /\ resolver = "move" /\ payload = {} /\ UNCHANGED <<host, locked, content, meta>>
        /\ (resolver' = "record" /\ engine' = engine /\ report' = report) \/ NextEngine(TRUE)
    BY <1>9 DEF BundleInstalled
  <2>2. CASE resolver' = "record"
    BY <1>b, <2>1, <2>2 DEF Verified
  <2>3. CASE NextEngine(TRUE)
    BY <2>1, <2>3, ServedNext
  <2>4. QED
    BY <2>1, <2>2, <2>3
<1>10. ASSUME NEW e \in EngineFiles, RecordMeta(e) PROVE Verified'
  BY <1>10, <1>b DEF RecordMeta, Verified
<1>11. CASE BundleRecorded
  <2>1. resolver = "record" /\ NextEngine(FALSE) /\ UNCHANGED <<host, locked, content, meta>>
    BY <1>11 DEF BundleRecorded
  <2>2. \A e \in 1..engine : e \in EngineFiles
    BY <1>a
  <2>3. host \in Hosts /\ \A e \in 1..engine : content[e] = Published(host)
    BY <1>b, <2>1, <2>2 DEF Verified, DiskTypes
  <2>4. \A e \in 1..engine : Served(e)'
    BY <2>1, <2>3 DEF Served, Fits, Published
  <2>5. QED
    BY <2>1, <2>4, ServedNext
<1>12. CASE MoveFails
  <2>1. NextEngine(TRUE) /\ UNCHANGED <<host, locked>>
    BY <1>12 DEF MoveFails
  <2>2. QED
    BY <2>1, ServedNext
<1>13. CASE PowerOn
  BY <1>13 DEF PowerOn, Verified
<1>14. CASE Stop
  BY <1>14 DEF Stop, Verified
<1>15. CASE Crash
  BY <1>15 DEF Crash, Verified
<1>16. CASE Flash
  BY <1>16 DEF Flash, Verified
<1>17. CASE RegistryTurns
  BY <1>17, <1>b DEF RegistryTurns, Verified, Served, Fits
<1>18. ASSUME NEW e \in EngineFiles, NEW c \in {Damaged, Staged(host)}, ReplaceEngine(e, c) PROVE Verified'
  BY <1>18 DEF ReplaceEngine, Verified
<1>19. QED
  BY <1>1, <1>2, <1>3, <1>4, <1>5, <1>6, <1>7, <1>8, <1>9, <1>10, <1>11, <1>12, <1>13, <1>14, <1>15, <1>16, <1>17, <1>18 DEF EngineNext, ResolverSteps

(* The loss in numbers.                                                   *)
LEMMA LostIsCounted ==
  ASSUME EngineInv
  PROVE  /\ IsFiniteSet(Lost) /\ Cardinality(Lost) \in Nat /\ mishaps \in Nat /\ owned \subseteq Files
         /\ resolver # "move" => moving = 0
         /\ Cardinality(Lost) <= mishaps + 1
         /\ moving \notin owned => Cardinality(Lost) <= mishaps
<1>1. owned \subseteq Files /\ mishaps \in Nat
  BY ResolverAssumption DEF EngineInv, DiskTypes, StartTypes
<1>2. IsFiniteSet(Lost)
  BY <1>1, FilesAre, FS_Subset DEF Lost
<1>3. Cardinality(Lost) \in Nat
  BY <1>2, FS_CardinalityType
<1>4. QED
  BY <1>1, <1>2, <1>3 DEF EngineInv, StartTypes, LossFits

(* A step that loses nothing keeps the count.                             *)
LEMMA NothingLost ==
  ASSUME EngineInv, Lost' \subseteq Lost, mishaps' \in Nat, mishaps' >= mishaps,
         moving \notin owned \/ mishaps' > mishaps \/ moving' \in owned'
  PROVE  LossFits'
<1>1. Cardinality(Lost') <= Cardinality(Lost) /\ Cardinality(Lost') \in Nat
  BY LostIsCounted, FS_Subset, FS_CardinalityType
<1>2. QED
  BY <1>1, LostIsCounted DEF LossFits

(* Only an unlink loses a file, and only until its successor is in place  *)
(* or a mishap is counted.                                                *)
LEMMA LossStep == ASSUME EngineInv, EngineNext PROVE LossFits'
<1> USE FilesAre, ContentsDiffer DEF settled, disk, resolving
<1>a. /\ IsFiniteSet(Lost) /\ Cardinality(Lost) \in Nat /\ mishaps \in Nat /\ owned \subseteq Files
      /\ resolver # "move" => moving = 0
      /\ Cardinality(Lost) <= mishaps + 1 /\ (moving \notin owned => Cardinality(Lost) <= mishaps)
      /\ content \in [Files -> Contents] /\ host \in Hosts /\ moving \in {0} \cup payload
      /\ moving # 0 => content[moving] = Missing
  BY LostIsCounted DEF EngineInv, DiskTypes, StartTypes
<1>1. ASSUME NEW f \in Files, UnlinkTarget(f) PROVE LossFits'
  <2>1. /\ moving = 0 /\ moving' = f /\ owned' = owned /\ mishaps' = mishaps /\ content[f] # Missing
        /\ content' = [content EXCEPT ![f] = Missing]
    BY <1>1 DEF UnlinkTarget
  <2>2. CASE f \in owned
    <3>1. Lost' = Lost \cup {f} /\ f \notin Lost
      BY <1>a, <2>1, <2>2 DEF Lost
    <3>2. Cardinality(Lost') = Cardinality(Lost) + 1
      BY <1>a, <3>1, FS_AddElement
    <3>3. moving \notin owned
      BY <1>a, <2>1
    <3>4. QED
      BY <1>a, <2>1, <2>2, <3>2, <3>3 DEF LossFits
  <2>3. CASE f \notin owned
    <3>1. Lost' = Lost /\ moving \notin owned
      BY <1>a, <2>1, <2>3 DEF Lost
    <3>2. QED
      BY <1>a, <2>1, <3>1, NothingLost
  <2>4. QED
    BY <2>2, <2>3
<1>2. ASSUME NEW f \in Files, MoveIntoPlace(f) PROVE LossFits'
  <2>1. /\ moving \in {0, f} /\ moving' = 0 /\ owned' = owned \cup {f} /\ mishaps' = mishaps
        /\ content[f] = Missing /\ content' = [content EXCEPT ![f] = Published(host)]
    BY <1>2 DEF MoveIntoPlace
  <2>2. Lost' = Lost \ {f}
    BY <1>a, <2>1 DEF Lost
  <2>3. CASE moving \in owned
    <3>1. f \in Lost
      BY <1>a, <2>1, <2>3 DEF Lost
    <3>2. Cardinality(Lost') = Cardinality(Lost) - 1
      BY <1>a, <2>2, <3>1, FS_RemoveElement
    <3>3. 0 \notin owned'
      BY <1>a, <2>1
    <3>4. QED
      BY <1>a, <2>1, <3>2, <3>3 DEF LossFits
  <2>4. CASE moving \notin owned
    BY <1>a, <2>1, <2>2, <2>4, NothingLost
  <2>5. QED
    BY <2>3, <2>4
<1>3. CASE UNCHANGED <<content, owned, mishaps>> /\ (moving = 0 \/ moving' = moving)
  <2>1. Lost' = Lost /\ (moving \notin owned \/ moving' \in owned')
    BY <1>a, <1>3 DEF Lost
  <2>2. QED
    BY <1>a, <1>3, <2>1, NothingLost
<1>4. CASE UNCHANGED <<content, owned>> /\ mishaps' = mishaps + 1
  <2>1. Lost' = Lost
    BY <1>4 DEF Lost
  <2>2. QED
    BY <1>a, <1>4, <2>1, NothingLost
<1>5. ASSUME NEW e \in EngineFiles, NEW c \in {Damaged, Staged(host)}, ReplaceEngine(e, c) PROVE LossFits'
  <2>1. content' = [content EXCEPT ![e] = c] /\ c # Missing /\ owned' = owned /\ mishaps' = mishaps + 1
    BY <1>5, <1>a DEF ReplaceEngine, Mishap
  <2>2. Lost' \subseteq Lost
    BY <1>a, <2>1 DEF Lost
  <2>3. QED
    BY <1>a, <2>1, <2>2, NothingLost
<1>6. CASE CacheHit \/ MigrateExistingEngine \/ HfResolveFails \/ BundleRecorded \/ BundleInstalled
  <2>1. UNCHANGED <<content, owned, mishaps>>
    BY <1>6 DEF CacheHit, MigrateExistingEngine, HfResolveFails, BundleRecorded, BundleInstalled
  <2>2. resolver # "move" \/ payload = {}
    BY <1>6 DEF CacheHit, MigrateExistingEngine, HfResolveFails, BundleRecorded, BundleInstalled
  <2>3. moving = 0
    BY <1>a, <2>2
  <2>4. QED
    BY <1>3, <2>1, <2>3
<1>7. CASE ResolveAll \/ ClearSidecar \/ BundleExtracted \/ PowerOn \/ Stop \/ RegistryTurns
           \/ \E e \in EngineFiles : RecordMeta(e)
  BY <1>3, <1>7 DEF ResolveAll, ClearSidecar, BundleExtracted, PowerOn, Stop, RegistryTurns, RecordMeta
<1>8. CASE MoveFails \/ Crash \/ Flash
  BY <1>4, <1>8 DEF MoveFails, Crash, Flash, Mishap
<1>9. QED
  BY <1>1, <1>2, <1>5, <1>6, <1>7, <1>8 DEF EngineNext, ResolverSteps

(* Every step keeps the invariant.                                        *)
LEMMA EngineInvNext == EngineInv /\ [EngineNext]_engineVars => EngineInv'
<1> SUFFICES ASSUME EngineInv, [EngineNext]_engineVars PROVE EngineInv'
  OBVIOUS
<1>1. CASE EngineNext
  BY <1>1, DiskStep, StartStep, SidecarsStep, KeptStep, VerifiedStep, LossStep DEF EngineInv
<1>2. CASE UNCHANGED engineVars
  BY <1>2 DEF engineVars, settled, disk, EngineInv, DiskTypes, StartTypes, SidecarsAreTrue, KeptAreTrue, Verified, Served,
              Fits, LossFits, Lost
<1>3. QED
  BY <1>1, <1>2

(* It implies what the run checks.                                        *)
LEMMA EngineFacts == EngineInv => EnginesAreCertified
<1> SUFFICES ASSUME EngineInv PROVE EnginesAreCertified
  OBVIOUS
<1>1. EngineTypeOK
  BY DEF EngineInv, DiskTypes, StartTypes, EngineTypeOK
<1>2. OnlyAdoptionMisjudges /\ LockedEnginesArePublished
  BY DEF EngineInv, DiskTypes, Verified, Served, OnlyAdoptionMisjudges, LockedEnginesArePublished
<1>3. LossIsBounded
  <2>1. moving = 0 => moving \notin owned
    BY FilesAre DEF EngineInv, DiskTypes
  <2>2. QED
    BY <2>1, LostIsCounted DEF Lost, LossIsBounded
<1>4. QED
  BY <1>1, <1>2, <1>3 DEF EnginesAreCertified

(* The engine resolver (core/engine_resolver.py): for any number of       *)
(* engines, hosts, crashes, flashes and files changed by hand, what is    *)
(* served was built for this host, unless it was adopted: it came without *)
(* a hash, or an earlier start had removed its sidecar and then fetched   *)
(* nothing; under a release lock it has the published bytes; and a mishap *)
(* costs at most the file that was being replaced.                        *)
THEOREM EnginesCertified == EngineSpec => []EnginesAreCertified
<1>1. EngineInit => EngineInv
  BY EngineInvInit
<1>2. EngineInv /\ [EngineNext]_engineVars => EngineInv'
  BY EngineInvNext
<1>3. EngineInv => EnginesAreCertified
  BY EngineFacts
<1>4. QED
  BY <1>1, <1>2, <1>3, PTL DEF EngineSpec

-----------------------------------------------------------------------------
(* Replies and responses.                                                   *)

(* What makes tts_out_task flush its queue: response.flush and direct     *)
(* speech.                                                                *)
Kinds == {"flush", "speak"}
(* The places of a queue of messages that hold one.                       *)
Flushes(s) == {i \in 1..Len(s) : s[i].do \in Kinds}
(* A flag counted.                                                        *)
One(b) == IF b THEN 1 ELSE 0

(* A response is created for text that somebody flushes: the responses so *)
(* far, and the flushes asked for, on their way or still to come from the *)
(* turn that runs, are no more than the turns and the announcement, and   *)
(* the active response, which the next flush ends.                        *)
FlushesAreRationed ==
  /\ replying => reply > 0
  /\ responses + One(flushAsked) + Cardinality(Flushes(uplink)) + One(replying)
       <= reply + One(announced) + One(activeResponse # 0)

(* RealtimeV2EventAdapter hands out ids in order: the active response is  *)
(* the latest, an ended one is not active, and a response cut short ends  *)
(* cancelled.                                                             *)
ResponsesAreNumbered ==
  /\ activeResponse # 0 => activeResponse = responses
  /\ ended \subseteq 1..responses
  /\ activeResponse \notin ended
  /\ cutShort => activeResponse # 0 /\ activeStatus = "cancelled"

(* Frames that wait for the send lock belong to one response, the active  *)
(* one while it speaks. While finish_response sends, the adapter has let  *)
(* go of it already: it is the latest, not ended yet, and response.done   *)
(* stands last.                                                           *)
FramesAreOfOneResponse ==
  /\ sayer \in {"starting", "speaking", "finishing"} => activeResponse # 0 /\ itemAnnounced
  /\ sayer \in {"starting", "finishing"} =>
       \A i \in 1..Len(outbox) : outbox[i].resp = activeResponse /\ outbox[i].frame # "done"
  /\ sayer = "flushing" =>
       /\ activeResponse = 0 /\ responses # 0 /\ responses \notin ended
       /\ \A i \in 1..Len(outbox) :
            outbox[i].resp = responses /\ (outbox[i].frame = "done" => i = Len(outbox))

(* The inductive invariant.                                               *)
ReplyInv ==
  /\ ReplyTypeOK
  /\ FlushesAreRationed
  /\ ResponsesAreNumbered
  /\ FramesAreOfOneResponse

(* The flushes of a queue can be counted.                                 *)
LEMMA FlushesFinite ==
  ASSUME NEW s \in Seq(Messages)
  PROVE  IsFiniteSet(Flushes(s)) /\ Cardinality(Flushes(s)) \in Nat
<1>1. IsFiniteSet(1..Len(s))
  BY FS_Interval, LenProperties
<1>2. Flushes(s) \in SUBSET (1..Len(s))
  BY DEF Flushes
<1> QED
  BY <1>1, <1>2, FS_Subset, FS_CardinalityType

(* Sending a message adds one if it is a flush ...                        *)
LEMMA FlushSent ==
  ASSUME NEW s \in Seq(Messages), NEW m \in Messages
  PROVE  Cardinality(Flushes(Append(s, m))) = Cardinality(Flushes(s)) + One(m.do \in Kinds)
<1> DEFINE t == Append(s, m)
<1>1. /\ t \in Seq(Messages) /\ Len(t) = Len(s) + 1 /\ t[Len(t)] = m
      /\ \A i \in 1..Len(s) : t[i] = s[i]
  BY AppendProperties
<1>2. Len(s) \in Nat
  BY LenProperties
<1>3. CASE m.do \in Kinds
  <2>1. Flushes(t) = Flushes(s) \cup {Len(s) + 1}
    BY <1>1, <1>2, <1>3 DEF Flushes
  <2>2. Len(s) + 1 \notin Flushes(s)
    BY <1>2 DEF Flushes
  <2> QED
    BY <1>3, <2>1, <2>2, FS_AddElement, FlushesFinite DEF One
<1>4. CASE m.do \notin Kinds
  <2>1. Flushes(t) = Flushes(s)
    BY <1>1, <1>2, <1>4 DEF Flushes
  <2> QED
    BY <1>4, <2>1, FlushesFinite DEF One
<1> QED
  BY <1>3, <1>4

(* ... and reading one takes it away.                                     *)
LEMMA FlushRead ==
  ASSUME NEW s \in Seq(Messages), s # <<>>
  PROVE  Cardinality(Flushes(s)) = Cardinality(Flushes(Tail(s))) + One(Head(s).do \in Kinds)
<1> DEFINE t == Tail(s)
           rest == Flushes(s) \ {1}
           back == [i \in rest |-> i - 1]
<1>1. /\ t \in Seq(Messages) /\ Len(t) = Len(s) - 1 /\ Head(s) = s[1]
      /\ \A i \in 1..Len(t) : t[i] = s[i + 1]
  BY HeadTailProperties
<1>2. Len(s) \in Nat /\ Len(s) # 0
  BY LenProperties, EmptySeq
<1>3. back \in Bijection(rest, Flushes(t))
  <2>1. rest \subseteq 2..Len(s)
    BY <1>2 DEF Flushes
  <2>2. \A i \in rest : i - 1 \in Flushes(t)
    BY <1>1, <1>2, <2>1 DEF Flushes
  <2>3. \A j \in Flushes(t) : j + 1 \in rest /\ back[j + 1] = j
    BY <1>1, <1>2 DEF Flushes
  <2>4. \A i, j \in rest : back[i] = back[j] => i = j
    BY <2>1
  <2> QED
    BY <2>2, <2>3, <2>4 DEF Bijection, Injection, Surjection, IsInjective
<1>4. /\ IsFiniteSet(rest)
      /\ Cardinality(rest) = Cardinality(Flushes(s)) - One(1 \in Flushes(s))
  BY FlushesFinite, FS_RemoveElement DEF One
<1>5. Cardinality(Flushes(t)) = Cardinality(rest)
  BY <1>3, <1>4, FS_Bijection DEF ExistsBijection
<1>6. 1 \in Flushes(s) <=> Head(s).do \in Kinds
  BY <1>1, <1>2 DEF Flushes
<1> QED
  BY <1>1, <1>4, <1>5, <1>6, FlushesFinite DEF One

(* What the agent sends (slv_client.send) goes to the end of the          *)
(* connection, within its bound.                                          *)
LEMMA SentIsTyped ==
  ASSUME ReplyTypeOK, NEW kind, NEW of, [do |-> kind, of |-> of] \in Messages, Send(kind, of)
  PROVE  /\ uplink' \in Seq(Messages) /\ Len(uplink)' <= MaxUplink
         /\ Cardinality(Flushes(uplink))' = Cardinality(Flushes(uplink)) + One(kind \in Kinds)
<1>1. uplink' = Append(uplink, [do |-> kind, of |-> of])
  BY DEF Send
<1>2. Len(uplink) \in Nat /\ Len(uplink) < MaxUplink /\ MaxUplink \in Nat
  BY LenProperties, ReplyAssumption DEF Send, ReplyTypeOK
<1>3. Cardinality(Flushes(uplink'))
        = Cardinality(Flushes(uplink)) + One([do |-> kind, of |-> of].do \in Kinds)
  BY <1>1, FlushSent DEF ReplyTypeOK
<1> QED
  BY <1>1, <1>2, <1>3, AppendProperties DEF ReplyTypeOK

(* What the dispatcher reads comes from its head.                         *)
LEMMA ReceivedIsTyped ==
  ASSUME ReplyTypeOK, NEW kind, Received(kind)
  PROVE  /\ uplink' \in Seq(Messages) /\ Len(uplink)' <= MaxUplink
         /\ Head(uplink) \in Messages
         /\ Cardinality(Flushes(uplink)) = Cardinality(Flushes(uplink))' + One(kind \in Kinds)
<1>1. uplink \in Seq(Messages) /\ uplink # <<>> /\ uplink' = Tail(uplink) /\ Head(uplink).do = kind
  BY DEF Received, ReplyTypeOK
<1>2. Len(uplink) \in Nat /\ Len(uplink) <= MaxUplink /\ MaxUplink \in Nat
  BY <1>1, LenProperties, ReplyAssumption DEF ReplyTypeOK
<1>3. Cardinality(Flushes(uplink)) = Cardinality(Flushes(uplink')) + One(Head(uplink).do \in Kinds)
  BY <1>1, FlushRead
<1> QED
  BY <1>1, <1>2, <1>3, HeadTailProperties

(* SentenceBuffer: however the chunks are cut into sentences, sentences   *)
(* and rest are made of the text of replies.                              *)
LEMMA CutsAreTyped ==
  ASSUME ReplyTypeOK
  PROVE  /\ \A of \in Voices : \A cut \in Cuts(of) : cut[1] \in Seq(SUBSET Voices) /\ cut[2] \subseteq Voices
         /\ \A cut \in Rests : cut[1] \in Seq(SUBSET Voices) /\ cut[2] \subseteq Voices
<1>1. sentenceBuf \in SUBSET Voices
  BY DEF ReplyTypeOK
<1>2. \A x \in SUBSET Voices : <<x>> \in Seq(SUBSET Voices)
  OBVIOUS
<1>3. <<>> \in Seq(SUBSET Voices)
  OBVIOUS
<1>4. ASSUME NEW of \in Voices, NEW cut \in Cuts(of)
      PROVE  cut[1] \in Seq(SUBSET Voices) /\ cut[2] \subseteq Voices
  <2> DEFINE all == sentenceBuf \cup {of}
  <2>1. all \in SUBSET Voices /\ {of} \in SUBSET Voices /\ {} \in SUBSET Voices
    BY <1>1
  <2>2. \/ cut = << <<>>, all >> \/ cut = << <<all>>, {} >> \/ cut = << <<all>>, {of} >>
        \/ cut = << <<sentenceBuf>>, {of} >>
    BY <1>4, Zenon DEF Cuts
  <2>3. CASE cut = << <<>>, all >>
    BY <1>3, <2>1, <2>3
  <2>4. CASE cut = << <<all>>, {} >>
    BY <1>2, <2>1, <2>4
  <2>5. CASE cut = << <<all>>, {of} >>
    BY <1>2, <2>1, <2>5
  <2>6. CASE cut = << <<sentenceBuf>>, {of} >>
    BY <1>1, <1>2, <2>1, <2>6
  <2> QED
    BY <2>2, <2>3, <2>4, <2>5, <2>6
<1>5. ASSUME NEW cut \in Rests
      PROVE  cut[1] \in Seq(SUBSET Voices) /\ cut[2] \subseteq Voices
  <2>1. cut = << <<>>, {} >> \/ cut = << <<sentenceBuf>>, {} >>
    BY <1>5, Zenon DEF Rests
  <2>2. CASE cut = << <<>>, {} >>
    BY <1>3, <2>2
  <2>3. CASE cut = << <<sentenceBuf>>, {} >>
    BY <1>1, <1>2, <2>3
  <2> QED
    BY <2>1, <2>2, <2>3
<1> QED
  BY <1>4, <1>5

(* Sentences go to the end of tts_q and the rest back into tts_buffer.    *)
LEMMA BufferedIsTyped ==
  ASSUME ReplyTypeOK, NEW cut, cut[1] \in Seq(SUBSET Voices), cut[2] \subseteq Voices, Buffered(cut)
  PROVE  ttsQ' \in Seq(SUBSET Voices) /\ sentenceBuf' \subseteq Voices
BY ConcatProperties DEF Buffered, ReplyTypeOK

(* A sentence that is interrupted leaves frames behind exactly when       *)
(* tts_out_task still has to send.                                        *)
LEMMA CutIsTyped ==
  ASSUME ReplyTypeOK, NEW marked \in BOOLEAN, CutSentence(marked)
  PROVE  /\ sayer' \in Drain \cup {"loop", "taken", "flushing"}
         /\ outbox' \in Seq(Frames) /\ cutShort' \in BOOLEAN
         /\ outbox' # <<>> <=> sayer' \in {"starting", "finishing", "flushing"}
<1>1. CASE UNCHANGED <<sayer, outbox, cutShort>>
  BY <1>1 DEF ReplyTypeOK
<1>2. CASE /\ sayer' = "loop" /\ outbox' = <<>>
           /\ cutShort' = (cutShort \/ (marked /\ activeResponse # 0))
  BY <1>2
<1> QED
  BY <1>1, <1>2 DEF CutSentence

(* The frames of a response, all but its response.done.                   *)
OpenFrames(id) == {f \in Frames : f.resp = id /\ f.frame # "done"}

(* What they are ...                                                      *)
LEMMA FrameIsOpen ==
  ASSUME NEW id \in 0..MaxResponses, NEW kind \in {"created", "item", "sentence", "delta", "audio done"}
  PROVE  [frame |-> kind, resp |-> id] \in OpenFrames(id)
BY DEF OpenFrames, Frames

(* ... and that a sequence of them holds nothing else.                    *)
LEMMA OpenFramesOnly ==
  ASSUME NEW id, NEW s \in Seq(OpenFrames(id))
  PROVE  /\ s \in Seq(Frames)
         /\ \A i \in 1..Len(s) : s[i].resp = id /\ s[i].frame # "done"
<1>1. OpenFrames(id) \subseteq Frames
  BY DEF OpenFrames
<1>2. \A i \in 1..Len(s) : s[i] \in OpenFrames(id)
  BY LenProperties
<1> QED
  BY <1>1, <1>2 DEF OpenFrames

(* translate("tts_started") sends frames of the response it has ensured,  *)
(* and does not end it.                                                   *)
LEMMA StartedFrames ==
  ASSUME EnsuredId \in 0..MaxResponses, TranslateStarted
  PROVE  /\ outbox' \in Seq(Frames) /\ outbox' # <<>>
         /\ \A i \in 1..Len(outbox') : outbox'[i].resp = EnsuredId /\ outbox'[i].frame # "done"
<1> DEFINE id == EnsuredId
           O == OpenFrames(id)
           item == IF itemAnnounced THEN <<>> ELSE <<[frame |-> "item", resp |-> id]>>
           last == <<[frame |-> "sentence", resp |-> id]>>
<1>1. CreatedFrames \in Seq(O)
  <2>1. [frame |-> "created", resp |-> id] \in O
    BY FrameIsOpen
  <2> QED
    BY <2>1 DEF CreatedFrames
<1>2. item \in Seq(O)
  <2>1. [frame |-> "item", resp |-> id] \in O
    BY FrameIsOpen
  <2> QED
    BY <2>1
<1>3. last \in Seq(O) /\ Len(last) = 1
  <2>1. [frame |-> "sentence", resp |-> id] \in O
    BY FrameIsOpen
  <2> HIDE DEF O
  <2> QED
    BY <2>1
<1>4. outbox' = (CreatedFrames \o item) \o last
  BY DEF TranslateStarted
<1> HIDE DEF O, item, last
<1>5. CreatedFrames \o item \in Seq(O)
  BY <1>1, <1>2, ConcatProperties
<1>6. outbox' \in Seq(O) /\ Len(outbox') = Len(CreatedFrames \o item) + Len(last)
  BY <1>3, <1>4, <1>5, ConcatProperties
<1>7. outbox' # <<>>
  BY <1>3, <1>5, <1>6, LenProperties, EmptySeq
<1> QED
  BY <1>6, <1>7, OpenFramesOnly DEF O

(* finish_response sends frames of one response, response.done behind the *)
(* others.                                                                *)
LEMMA FinishedFrames ==
  ASSUME EnsuredId \in 0..MaxResponses, activeStatus \in {"completed", "cancelled"}, FinishResponse
  PROVE  /\ outbox' \in Seq(Frames) /\ outbox' # <<>>
         /\ \A i \in 1..Len(outbox') :
              /\ outbox'[i].resp = EnsuredId
              /\ outbox'[i].frame = "done" => i = Len(outbox')
<1> DEFINE id == EnsuredId
           O == OpenFrames(id)
           audio == IF itemAnnounced THEN <<[frame |-> "delta", resp |-> id],
                                            [frame |-> "audio done", resp |-> id]>> ELSE <<>>
           done == [frame |-> "done", resp |-> id,
                    status |-> IF activeResponse # 0 THEN activeStatus ELSE "completed"]
           body == CreatedFrames \o audio
<1>1. CreatedFrames \in Seq(O)
  <2>1. [frame |-> "created", resp |-> id] \in O
    BY FrameIsOpen
  <2> QED
    BY <2>1 DEF CreatedFrames
<1>2. audio \in Seq(O)
  <2>1. [frame |-> "delta", resp |-> id] \in O /\ [frame |-> "audio done", resp |-> id] \in O
    BY FrameIsOpen
  <2> DEFINE a == [frame |-> "delta", resp |-> id]
             b == [frame |-> "audio done", resp |-> id]
  <2>2. <<>> \in Seq(O)
    OBVIOUS
  <2>3. <<a, b>> \in Seq(O)
    <3>1. a \in O /\ b \in O
      BY <2>1
    <3> HIDE DEF O, a, b
    <3> QED
      BY <3>1
  <2> QED
    BY <2>2, <2>3
<1>3. done \in Frames /\ done.resp = id
  BY DEF Frames
<1>4. outbox' = body \o <<done>>
  BY DEF FinishResponse
<1> HIDE DEF O, audio, done
<1>5. body \in Seq(O)
  BY <1>1, <1>2, ConcatProperties
<1>6. /\ body \in Seq(Frames) /\ Len(body) \in Nat
      /\ \A i \in 1..Len(body) : body[i].resp = id /\ body[i].frame # "done"
  BY <1>5, OpenFramesOnly, LenProperties DEF O
<1> HIDE DEF body
<1>7. /\ <<done>> \in Seq(Frames) /\ Len(<<done>>) = 1 /\ <<done>>[1] = done
  BY <1>3
<1>8. /\ outbox' \in Seq(Frames) /\ Len(outbox') = Len(body) + 1
      /\ \A i \in 1..Len(outbox') : outbox'[i] = IF i <= Len(body) THEN body[i] ELSE <<done>>[i - Len(body)]
  BY <1>4, <1>6, <1>7, ConcatProperties
<1>9. outbox' # <<>>
  BY <1>6, <1>8, LenProperties, EmptySeq
<1>10. ASSUME NEW i \in 1..Len(outbox')
       PROVE  outbox'[i].resp = id /\ (outbox'[i].frame = "done" => i = Len(outbox'))
  <2>1. CASE i <= Len(body)
    <3>1. outbox'[i] = body[i] /\ i \in 1..Len(body)
      BY <1>6, <1>8, <2>1
    <3> QED
      BY <1>6, <3>1
  <2>2. CASE i > Len(body)
    <3>1. i = Len(body) + 1
      BY <1>6, <1>8, <2>2
    <3>2. outbox'[i] = done
      BY <1>6, <1>7, <1>8, <3>1
    <3> QED
      BY <1>3, <1>8, <3>1, <3>2
  <2> QED
    BY <1>6, <1>8, <2>1, <2>2
<1> QED
  BY <1>8, <1>9, <1>10

(* ensure_response: a sentence always finds an id that was not handed out *)
(* before or is active: the bound on ids, one for each turn and two more, *)
(* is never met. The ration of flushes is what shows it.                  *)
LEMMA RoomForAResponse ==
  ASSUME ReplyInv
  PROVE  EnsuredId \in 1..MaxResponses /\ EnsuredId \notin ended
<1>1. /\ responses \in 0..MaxResponses /\ activeResponse \in 0..MaxResponses /\ reply \in 0..MaxReplies
      /\ One(flushAsked) \in {0, 1} /\ One(replying) \in {0, 1} /\ One(announced) \in {0, 1}
      /\ Cardinality(Flushes(uplink)) \in Nat /\ MaxReplies \in Nat
  BY ReplyAssumption, FlushesFinite DEF ReplyInv, ReplyTypeOK, Voices, One
<1>2. CASE activeResponse # 0
  BY <1>1, <1>2 DEF ReplyInv, ResponsesAreNumbered, EnsuredId, MaxResponses
<1>3. CASE activeResponse = 0
  <2>1. responses <= reply + One(announced)
    BY <1>1, <1>3 DEF ReplyInv, FlushesAreRationed, One
  <2> QED
    BY <1>1, <1>3, <2>1 DEF ReplyInv, ResponsesAreNumbered, EnsuredId, MaxResponses
<1> QED
  BY <1>1, <1>2, <1>3

(* translate("tts_sentence_done") sends frames of the active response.    *)
LEMMA EndedFrames ==
  ASSUME activeResponse \in 0..MaxResponses, TranslateSentenceDone
  PROVE  /\ outbox' \in Seq(Frames) /\ outbox' # <<>>
         /\ \A i \in 1..Len(outbox') : outbox'[i].resp = activeResponse /\ outbox'[i].frame # "done"
<1> DEFINE id == activeResponse
           O == OpenFrames(id)
           a == [frame |-> "delta", resp |-> id]
           b == [frame |-> "sentence", resp |-> id]
<1>1. a \in O /\ b \in O
  BY FrameIsOpen
<1>2. outbox' = <<a, b>>
  BY DEF TranslateSentenceDone
<1> HIDE DEF O, a, b
<1>3. outbox' \in Seq(O) /\ outbox' # <<>>
  BY <1>1, <1>2
<1> QED
  BY <1>3, OpenFramesOnly DEF O

(* Every step keeps the types, ...                                        *)
LEMMA TypesStep ==
  ASSUME ReplyInv, [ReplyNext]_replyVars
  PROVE  ReplyTypeOK'
<1> USE DEF ReplyInv
<1>0. MaxReplies \in Nat \ {0} /\ MaxChunks \in Nat \ {0} /\ MaxUplink \in Nat \ {0} /\ MaxResponses \in Nat
  BY ReplyAssumption DEF MaxResponses
<1>1. CASE TurnBegins
  BY <1>0, <1>1 DEF TurnBegins, agentVars, agentOnly, dispatchOnly, sayerOnly, inputQueue, adapterVars, ReplyTypeOK, Voices
<1>2. CASE SendText
  <2>1. [do |-> "text", of |-> reply] \in Messages /\ Send("text", reply)
    BY <1>0, <1>2 DEF SendText, ReplyTypeOK, Messages, Voices, FlushesAreRationed
  <2>2. uplink' \in Seq(Messages) /\ Len(uplink)' <= MaxUplink
    BY <2>1, SentIsTyped
  <2> QED
    BY <1>0, <1>2, <2>2 DEF SendText, agentVars, agentOnly, inputQueue, adapterVars, ReplyTypeOK, Voices
<1>3. CASE TurnCompletes
  <2>1. [do |-> "flush", of |-> Announcement] \in Messages /\ Send("flush", Announcement)
    BY <1>0, <1>3 DEF TurnCompletes, ReplyTypeOK, Messages, Voices, Announcement
  <2>2. uplink' \in Seq(Messages) /\ Len(uplink)' <= MaxUplink
    BY <2>1, SentIsTyped
  <2> QED
    BY <1>0, <1>3, <2>2 DEF TurnCompletes, agentVars, agentOnly, inputQueue, adapterVars, ReplyTypeOK, Voices
<1>4. CASE TurnCut
  <2>1. uplink' \in Seq(Messages) /\ Len(uplink)' <= MaxUplink
    <3>1. CASE chunks > 0
      <4>1. [do |-> "cancel", of |-> Announcement] \in Messages /\ Send("cancel", Announcement)
        BY <1>4, <3>1 DEF TurnCut, Messages
      <4> QED
        BY <4>1, SentIsTyped
    <3>2. CASE ~(chunks > 0)
      BY <1>4, <3>2 DEF TurnCut, ReplyTypeOK
    <3> QED
      BY <3>1, <3>2
  <2> QED
    BY <1>0, <1>4, <2>1 DEF TurnCut, agentVars, agentOnly, inputQueue, adapterVars, ReplyTypeOK, Voices
<1>5. CASE StopIntent
  <2>1. [do |-> "cancel", of |-> Announcement] \in Messages /\ Send("cancel", Announcement)
    BY <1>0, <1>5 DEF StopIntent, ReplyTypeOK, Messages, Voices, Announcement
  <2>2. uplink' \in Seq(Messages) /\ Len(uplink)' <= MaxUplink
    BY <2>1, SentIsTyped
  <2> QED
    BY <1>0, <1>5, <2>2 DEF StopIntent, agentVars, agentOnly, inputQueue, adapterVars, ReplyTypeOK, Voices
<1>6. CASE Speak
  <2>1. [do |-> "speak", of |-> Announcement] \in Messages /\ Send("speak", Announcement)
    BY <1>0, <1>6 DEF Speak, ReplyTypeOK, Messages, Voices, Announcement
  <2>2. uplink' \in Seq(Messages) /\ Len(uplink)' <= MaxUplink
    BY <2>1, SentIsTyped
  <2> QED
    BY <1>0, <1>6, <2>2 DEF Speak, agentVars, agentOnly, inputQueue, adapterVars, ReplyTypeOK, Voices
<1>7. CASE ResetConversation
  <2>1. [do |-> "reset", of |-> Announcement] \in Messages /\ Send("reset", Announcement)
    BY <1>0, <1>7 DEF ResetConversation, ReplyTypeOK, Messages, Voices, Announcement
  <2>2. uplink' \in Seq(Messages) /\ Len(uplink)' <= MaxUplink
    BY <2>1, SentIsTyped
  <2> QED
    BY <1>0, <1>7, <2>2 DEF ResetConversation, agentVars, agentOnly, inputQueue, adapterVars, ReplyTypeOK, Voices
<1>8. CASE ReadText
  <2>1. uplink' \in Seq(Messages) /\ Len(uplink)' <= MaxUplink /\ Head(uplink) \in Messages
    BY <1>8, ReceivedIsTyped DEF ReadText
  <2>2. ttsQ' \in Seq(SUBSET Voices) /\ sentenceBuf' \subseteq Voices
    <3>1. Head(uplink).of \in Voices
      BY <1>0, <2>1 DEF Messages, Voices, Announcement
    <3> QED
      BY <1>8, <3>1, CutsAreTyped, BufferedIsTyped DEF ReadText
  <2> QED
    BY <1>8, <2>1, <2>2 DEF ReadText, agentVars, dispatchOnly, adapterVars, ReplyTypeOK
<1>9. CASE ReadFlush
  <2>1. uplink' \in Seq(Messages) /\ Len(uplink)' <= MaxUplink /\ Head(uplink) \in Messages
    BY <1>9, ReceivedIsTyped DEF ReadFlush
  <2>2. ttsQ' \in Seq(SUBSET Voices) /\ sentenceBuf' \subseteq Voices
    BY <1>9, CutsAreTyped, BufferedIsTyped DEF ReadFlush
  <2> QED
    BY <1>9, <2>1, <2>2 DEF ReadFlush, agentVars, dispatchOnly, adapterVars, ReplyTypeOK
<1>10. CASE ReadSpeak
  <2>1. uplink' \in Seq(Messages) /\ Len(uplink)' <= MaxUplink /\ Head(uplink) \in Messages
    BY <1>10, ReceivedIsTyped DEF ReadSpeak
  <2>2. ttsQ' \in Seq(SUBSET Voices) /\ sentenceBuf' \subseteq Voices
    <3> DEFINE whole == << <<sentenceBuf \cup {Announcement}>>, {} >>
               split == << <<sentenceBuf, {Announcement}>>, {} >>
    <3>1. Buffered(whole) \/ Buffered(split)
      BY <1>10, Zenon DEF ReadSpeak
    <3>2. sentenceBuf \in SUBSET Voices /\ {Announcement} \in SUBSET Voices /\ sentenceBuf \cup {Announcement} \in SUBSET Voices
      BY <1>0 DEF ReplyTypeOK, Voices, Announcement
    <3>3. \A x, y \in SUBSET Voices : <<x>> \in Seq(SUBSET Voices) /\ <<x, y>> \in Seq(SUBSET Voices)
      OBVIOUS
    <3>4. /\ whole[1] \in Seq(SUBSET Voices) /\ whole[2] \subseteq Voices
          /\ split[1] \in Seq(SUBSET Voices) /\ split[2] \subseteq Voices
      BY <3>2, <3>3
    <3> HIDE DEF whole, split
    <3> QED
      BY <3>1, <3>4, BufferedIsTyped
  <2> QED
    BY <1>10, <2>1, <2>2 DEF ReadSpeak, agentVars, dispatchOnly, adapterVars, ReplyTypeOK
<1>11. CASE ReadCancel
  <2>1. uplink' \in Seq(Messages) /\ Len(uplink)' <= MaxUplink
    BY <1>11, ReceivedIsTyped DEF ReadCancel
  <2>2. /\ sayer' \in Drain \cup {"loop", "taken", "flushing"} /\ outbox' \in Seq(Frames) /\ cutShort' \in BOOLEAN
        /\ outbox' # <<>> <=> sayer' \in {"starting", "finishing", "flushing"}
    BY <1>11, CutIsTyped DEF ReadCancel
  <2>3. ttsQ' \in Seq(SUBSET Voices)
    BY <1>11 DEF ReadCancel
  <2> QED
    BY <1>11, <2>1, <2>2, <2>3 DEF ReadCancel, MarkCancelled, agentVars, ReplyTypeOK
<1>12. CASE ReadReset
  <2>1. uplink' \in Seq(Messages) /\ Len(uplink)' <= MaxUplink
    BY <1>12, ReceivedIsTyped DEF ReadReset
  <2> QED
    BY <1>12, <2>1 DEF ReadReset, MarkCancelled, agentVars, inputQueue, ReplyTypeOK
<1>13. CASE ResetAborts
  <2>1. /\ sayer' \in Drain \cup {"loop", "taken", "flushing"} /\ outbox' \in Seq(Frames) /\ cutShort' \in BOOLEAN
        /\ outbox' # <<>> <=> sayer' \in {"starting", "finishing", "flushing"}
    BY <1>13, CutIsTyped DEF ResetAborts
  <2>2. ttsQ' \in Seq(SUBSET Voices)
    BY <1>13 DEF ResetAborts, inputQueue, ReplyTypeOK
  <2> QED
    BY <1>13, <2>1, <2>2 DEF ResetAborts, agentVars, adapterVars, ReplyTypeOK
<1>14. CASE SpeechStarts
  BY <1>0, <1>14 DEF SpeechStarts, agentVars, agentOnly, dispatchOnly, sayerOnly, inputQueue, adapterVars, ReplyTypeOK, Voices
<1>15. CASE SpeechBargesIn
  <2>1. /\ sayer' \in Drain \cup {"loop", "taken", "flushing"} /\ outbox' \in Seq(Frames) /\ cutShort' \in BOOLEAN
        /\ outbox' # <<>> <=> sayer' \in {"starting", "finishing", "flushing"}
    BY <1>15, CutIsTyped DEF SpeechBargesIn
  <2>2. ttsQ' \in Seq(SUBSET Voices)
    BY <1>15 DEF SpeechBargesIn, inputQueue, ReplyTypeOK
  <2> QED
    BY <1>15, <2>1, <2>2 DEF SpeechBargesIn, MarkCancelled, agentVars, inputQueue, ReplyTypeOK
<1>16. CASE TurnIsSpoken
  <2>1. EnsuredId \in 1..MaxResponses
    BY RoomForAResponse
  <2>2. outbox' \in Seq(Frames) /\ outbox' # <<>>
    BY <1>0, <1>16, <2>1, FinishedFrames DEF TurnIsSpoken, ReplyTypeOK
  <2>3. /\ activeResponse' \in 0..MaxResponses /\ responses' \in 0..MaxResponses
        /\ activeStatus' \in {"completed", "cancelled"} /\ itemAnnounced' \in BOOLEAN
    <3>1. /\ activeResponse' = 0 /\ activeStatus' = "completed" /\ itemAnnounced' = FALSE
      BY <1>16, Zenon DEF TurnIsSpoken, FinishResponse
    <3>2. responses' = EnsuredId \/ responses' = responses
      BY <1>16, Zenon DEF TurnIsSpoken, FinishResponse, EnsuredId
    <3>3. responses' \in 0..MaxResponses
      BY <1>0, <2>1, <3>2 DEF ReplyTypeOK
    <3>4. 0 \in 0..MaxResponses
      BY <1>0
    <3> QED
      BY <3>1, <3>3, <3>4
  <2>4. UNCHANGED <<reply, chunks, replying, announced, uplink, dispatch, sentenceBuf, ttsQ, sentence, ended>>
    BY <1>16, Zenon DEF TurnIsSpoken, sayerOnly, agentVars, inputQueue
  <2>5. sayer' = "flushing" /\ flushAsked' \in BOOLEAN /\ cutShort' \in BOOLEAN
    BY <1>16 DEF TurnIsSpoken, inputQueue, ReplyTypeOK
  <2> QED
    BY <2>2, <2>3, <2>4, <2>5 DEF ReplyTypeOK, Drain
<1>17. CASE DequeueSentence
  <2>1. sentence' \in SUBSET Voices /\ ttsQ' \in Seq(SUBSET Voices)
    BY <1>17, HeadTailProperties DEF DequeueSentence, ReplyTypeOK
  <2> QED
    BY <1>17, <2>1 DEF DequeueSentence, sayerOnly, agentVars, inputQueue, adapterVars, ReplyTypeOK, Drain
<1>18. CASE StartDrain
  BY <1>0, <1>18 DEF StartDrain, agentVars, agentOnly, dispatchOnly, sayerOnly, inputQueue, adapterVars, ReplyTypeOK, Voices, Drain
<1>19. CASE DrainStarts
  <2>1. EnsuredId \in 1..MaxResponses
    BY RoomForAResponse
  <2>2. outbox' \in Seq(Frames) /\ outbox' # <<>>
    BY <1>0, <1>19, <2>1, StartedFrames DEF DrainStarts
  <2>3. /\ activeResponse' \in 0..MaxResponses /\ responses' \in 0..MaxResponses
        /\ activeStatus' \in {"completed", "cancelled"} /\ itemAnnounced' = TRUE
    <3>1. EnsureResponseCreated /\ itemAnnounced' = TRUE
      BY <1>19, Zenon DEF DrainStarts, TranslateStarted
    <3> QED
      BY <1>0, <2>1, <3>1 DEF EnsureResponseCreated, EnsuredId, ReplyTypeOK
  <2>4. UNCHANGED <<reply, chunks, replying, announced, uplink, dispatch, sentenceBuf, ttsQ, sentence, ended>>
    BY <1>19, Zenon DEF DrainStarts, sayerOnly, agentVars, inputQueue
  <2>5. sayer' = "starting" /\ flushAsked' \in BOOLEAN /\ cutShort' \in BOOLEAN
    BY <1>19 DEF DrainStarts, inputQueue, ReplyTypeOK
  <2> QED
    BY <2>2, <2>3, <2>4, <2>5 DEF ReplyTypeOK, Drain
<1>20. CASE DrainEnds
  <2>1. outbox' \in Seq(Frames) /\ outbox' # <<>>
    BY <1>20, EndedFrames DEF DrainEnds, ReplyTypeOK
  <2>2. UNCHANGED <<activeResponse, activeStatus, itemAnnounced, responses>>
    BY <1>20, Zenon DEF DrainEnds, TranslateSentenceDone, adapterVars
  <2>4. UNCHANGED <<reply, chunks, replying, announced, uplink, dispatch, sentenceBuf, ttsQ, sentence, ended>>
    BY <1>20, Zenon DEF DrainEnds, sayerOnly, agentVars, inputQueue
  <2>5. sayer' = "finishing" /\ flushAsked' \in BOOLEAN /\ cutShort' \in BOOLEAN
    BY <1>20 DEF DrainEnds, inputQueue, ReplyTypeOK
  <2> QED
    BY <2>1, <2>2, <2>4, <2>5 DEF ReplyTypeOK, Drain
<1>21. CASE SendFrame
  <2>1. /\ outbox \in Seq(Frames) /\ outbox # <<>> /\ Head(outbox) = outbox[1] /\ Head(outbox) \in Frames
        /\ outbox' \in Seq(Frames) /\ Len(outbox') = Len(outbox) - 1 /\ Len(outbox) \in Nat \ {0}
    BY <1>21, HeadTailProperties, EmptySeq DEF SendFrame, ReplyTypeOK
  <2>2. outbox' = <<>> <=> Len(outbox) = 1
    BY <2>1, EmptySeq
  <2>3. ended' \subseteq 1..MaxResponses
    <3>1. sayer \in {"starting", "finishing", "flushing"} /\ 1 \in 1..Len(outbox)
      BY <2>1 DEF ReplyTypeOK
    <3>2. CASE Head(outbox).frame = "done"
      <4>1. Head(outbox).resp = responses /\ responses \in 1..MaxResponses
        BY <1>0, <2>1, <3>1, <3>2 DEF ReplyTypeOK, FramesAreOfOneResponse
      <4> QED
        BY <1>21, <3>2, <4>1 DEF SendFrame, ReplyTypeOK
    <3>3. CASE Head(outbox).frame # "done"
      BY <1>21, <3>3 DEF SendFrame, ReplyTypeOK
    <3> QED
      BY <3>2, <3>3
  <2>4. sayer' \in Drain \cup {"loop", "taken", "flushing"}
    BY <1>21 DEF SendFrame, ReplyTypeOK, Drain
  <2>5. outbox' # <<>> <=> sayer' \in {"starting", "finishing", "flushing"}
    BY <1>21, <2>1, <2>2 DEF SendFrame, ReplyTypeOK
  <2> QED
    BY <1>21, <2>1, <2>3, <2>4, <2>5 DEF SendFrame, sayerOnly, agentVars, inputQueue, adapterVars, ReplyTypeOK
<1>22. CASE DrainExpires
  <2>1. outbox' \in Seq(Frames) /\ outbox' = <<>> /\ sayer' = "loop"
    BY <1>22 DEF DrainExpires
  <2> QED
    BY <1>22, <2>1 DEF DrainExpires, sayerOnly, agentVars, inputQueue, adapterVars, ReplyTypeOK, Drain
<1>23. CASE UNCHANGED replyVars
  BY <1>23 DEF replyVars, agentVars, inputQueue, adapterVars, ReplyTypeOK
<1> QED
  BY <1>1, <1>2, <1>3, <1>4, <1>5, <1>6, <1>7, <1>8, <1>9, <1>10, <1>11, <1>12, <1>13, <1>14, <1>15, <1>16, <1>17, <1>18, <1>19, <1>20, <1>21, <1>22, <1>23 DEF ReplyNext, Sayer

(* ... the ration, step by step: a flush is sent by a turn that ends or   *)
(* by the announcement, read once, and ends the response it finds, ...    *)
LEMMA RationStep ==
  ASSUME ReplyInv, [ReplyNext]_replyVars
  PROVE  FlushesAreRationed'
<1> USE DEF ReplyInv
<1>0. /\ responses \in Nat /\ activeResponse \in Nat /\ reply \in Nat /\ Cardinality(Flushes(uplink)) \in Nat
      /\ Cardinality(Flushes(uplink))' \in Nat
      /\ flushAsked \in BOOLEAN /\ replying \in BOOLEAN /\ announced \in BOOLEAN
  <2>1. uplink' \in Seq(Messages)
    BY TypesStep DEF ReplyTypeOK
  <2> QED
    BY <2>1, FlushesFinite DEF ReplyTypeOK, Voices
<1>1. CASE TurnBegins
  BY <1>0, <1>1 DEF TurnBegins, agentOnly, inputQueue, adapterVars, FlushesAreRationed, One
<1>2. CASE SendText
  <2>1. [do |-> "text", of |-> reply] \in Messages /\ Send("text", reply)
    BY <1>2 DEF SendText, ReplyTypeOK, Messages, Voices, Announcement, FlushesAreRationed
  <2>2. Cardinality(Flushes(uplink))' = Cardinality(Flushes(uplink)) + One("text" \in Kinds)
    BY <2>1, SentIsTyped
  <2> QED
    BY <1>0, <1>2, <2>2 DEF SendText, agentVars, agentOnly, inputQueue, adapterVars, FlushesAreRationed, One, Kinds
<1>3. CASE TurnCompletes
  <2>1. [do |-> "flush", of |-> Announcement] \in Messages /\ Send("flush", Announcement)
    BY <1>3 DEF TurnCompletes, ReplyTypeOK, Messages, Voices, Announcement, FlushesAreRationed
  <2>2. Cardinality(Flushes(uplink))' = Cardinality(Flushes(uplink)) + One("flush" \in Kinds)
    BY <2>1, SentIsTyped
  <2> QED
    BY <1>0, <1>3, <2>2 DEF TurnCompletes, agentVars, agentOnly, inputQueue, adapterVars, FlushesAreRationed, One, Kinds
<1>4. CASE TurnCut
  <2>1. Cardinality(Flushes(uplink))' = Cardinality(Flushes(uplink))
    <3>1. CASE chunks > 0
      <4>1. [do |-> "cancel", of |-> Announcement] \in Messages /\ Send("cancel", Announcement)
        BY <1>4, <3>1 DEF TurnCut, Messages
      <4> QED
        BY <1>0, <4>1, SentIsTyped DEF One, Kinds
    <3>2. CASE ~(chunks > 0)
      BY <1>4, <3>2 DEF TurnCut
    <3> QED
      BY <3>1, <3>2
  <2> QED
    BY <1>0, <1>4, <2>1 DEF TurnCut, agentOnly, inputQueue, adapterVars, FlushesAreRationed, One
<1>5. CASE StopIntent
  <2>1. [do |-> "cancel", of |-> Announcement] \in Messages /\ Send("cancel", Announcement)
    BY <1>5 DEF StopIntent, ReplyTypeOK, Messages, Voices, Announcement, FlushesAreRationed
  <2>2. Cardinality(Flushes(uplink))' = Cardinality(Flushes(uplink)) + One("cancel" \in Kinds)
    BY <2>1, SentIsTyped
  <2> QED
    BY <1>0, <1>5, <2>2 DEF StopIntent, agentVars, agentOnly, inputQueue, adapterVars, FlushesAreRationed, One, Kinds
<1>6. CASE Speak
  <2>1. [do |-> "speak", of |-> Announcement] \in Messages /\ Send("speak", Announcement)
    BY <1>6 DEF Speak, ReplyTypeOK, Messages, Voices, Announcement, FlushesAreRationed
  <2>2. Cardinality(Flushes(uplink))' = Cardinality(Flushes(uplink)) + One("speak" \in Kinds)
    BY <2>1, SentIsTyped
  <2> QED
    BY <1>0, <1>6, <2>2 DEF Speak, agentVars, agentOnly, inputQueue, adapterVars, FlushesAreRationed, One, Kinds
<1>7. CASE ResetConversation
  <2>1. [do |-> "reset", of |-> Announcement] \in Messages /\ Send("reset", Announcement)
    BY <1>7 DEF ResetConversation, ReplyTypeOK, Messages, Voices, Announcement, FlushesAreRationed
  <2>2. Cardinality(Flushes(uplink))' = Cardinality(Flushes(uplink)) + One("reset" \in Kinds)
    BY <2>1, SentIsTyped
  <2> QED
    BY <1>0, <1>7, <2>2 DEF ResetConversation, agentVars, agentOnly, inputQueue, adapterVars, FlushesAreRationed, One, Kinds
<1>8. CASE ReadText
  <2>1. Cardinality(Flushes(uplink)) = Cardinality(Flushes(uplink))' + One("text" \in Kinds)
    BY <1>8, ReceivedIsTyped DEF ReadText
  <2>2. UNCHANGED <<reply, replying, announced, responses, activeResponse, flushAsked>>
    BY <1>8, Zenon DEF ReadText, agentVars, dispatchOnly, adapterVars
  <2> QED
    BY <1>0, <2>1, <2>2 DEF FlushesAreRationed, One, Kinds
<1>9. CASE ReadFlush
  <2>1. Cardinality(Flushes(uplink)) = Cardinality(Flushes(uplink))' + One("flush" \in Kinds)
    BY <1>9, ReceivedIsTyped DEF ReadFlush
  <2>2. UNCHANGED <<reply, replying, announced, responses, activeResponse>> /\ flushAsked' = TRUE
    BY <1>9, Zenon DEF ReadFlush, agentVars, dispatchOnly, adapterVars
  <2> QED
    BY <1>0, <2>1, <2>2 DEF FlushesAreRationed, One, Kinds
<1>10. CASE ReadSpeak
  <2>1. Cardinality(Flushes(uplink)) = Cardinality(Flushes(uplink))' + One("speak" \in Kinds)
    BY <1>10, ReceivedIsTyped DEF ReadSpeak
  <2>2. UNCHANGED <<reply, replying, announced, responses, activeResponse>> /\ flushAsked' = TRUE
    BY <1>10, Zenon DEF ReadSpeak, agentVars, dispatchOnly, adapterVars
  <2> QED
    BY <1>0, <2>1, <2>2 DEF FlushesAreRationed, One, Kinds
<1>11. CASE ReadCancel
  <2>1. Cardinality(Flushes(uplink)) = Cardinality(Flushes(uplink))' + One("cancel" \in Kinds)
    BY <1>11, ReceivedIsTyped DEF ReadCancel
  <2>2. UNCHANGED <<reply, replying, announced, responses, activeResponse, flushAsked>>
    BY <1>11, Zenon DEF ReadCancel, agentVars
  <2> QED
    BY <1>0, <2>1, <2>2 DEF FlushesAreRationed, One, Kinds
<1>12. CASE ReadReset
  <2>1. Cardinality(Flushes(uplink)) = Cardinality(Flushes(uplink))' + One("reset" \in Kinds)
    BY <1>12, ReceivedIsTyped DEF ReadReset
  <2>2. UNCHANGED <<reply, replying, announced, responses, activeResponse, flushAsked>>
    BY <1>12, Zenon DEF ReadReset, agentVars, inputQueue
  <2> QED
    BY <1>0, <2>1, <2>2 DEF FlushesAreRationed, One, Kinds
<1>13. CASE ResetAborts
  <2>1. UNCHANGED <<reply, replying, announced, responses, activeResponse, flushAsked, uplink>>
    BY <1>13, Zenon DEF ResetAborts, agentVars, adapterVars
  <2> QED
    BY <2>1 DEF FlushesAreRationed
<1>14. CASE SpeechStarts
  <2>1. UNCHANGED <<reply, replying, announced, responses, activeResponse, flushAsked, uplink>>
    BY <1>14, Zenon DEF SpeechStarts, agentVars, adapterVars, inputQueue
  <2> QED
    BY <2>1 DEF FlushesAreRationed
<1>15. CASE SpeechBargesIn
  <2>1. UNCHANGED <<reply, replying, announced, responses, activeResponse, flushAsked, uplink>>
    BY <1>15, Zenon DEF SpeechBargesIn, agentVars, inputQueue
  <2> QED
    BY <2>1 DEF FlushesAreRationed
<1>16. CASE TurnIsSpoken
  <2>1. /\ activeResponse' = 0 /\ flushAsked /\ flushAsked' = FALSE
        /\ responses' = IF activeResponse # 0 THEN responses ELSE responses + 1
        /\ UNCHANGED <<reply, replying, announced, uplink>>
    BY <1>16, Zenon DEF TurnIsSpoken, FinishResponse, sayerOnly, agentVars
  <2> QED
    BY <1>0, <2>1 DEF FlushesAreRationed, One
<1>17. CASE DequeueSentence
  <2>1. UNCHANGED <<reply, replying, announced, responses, activeResponse, flushAsked, uplink>>
    BY <1>17, Zenon DEF DequeueSentence, sayerOnly, agentVars, adapterVars
  <2> QED
    BY <2>1 DEF FlushesAreRationed
<1>18. CASE StartDrain
  <2>1. UNCHANGED <<reply, replying, announced, responses, activeResponse, flushAsked, uplink>>
    BY <1>18, Zenon DEF StartDrain, sayerOnly, agentVars, adapterVars, inputQueue
  <2> QED
    BY <2>1 DEF FlushesAreRationed
<1>19. CASE DrainStarts
  <2>1. /\ activeResponse' = EnsuredId
        /\ responses' = IF activeResponse # 0 THEN responses ELSE responses + 1
        /\ UNCHANGED <<reply, replying, announced, uplink, flushAsked>>
    BY <1>19, Zenon DEF DrainStarts, TranslateStarted, EnsureResponseCreated, sayerOnly, agentVars, inputQueue
  <2> QED
    BY <1>0, <2>1 DEF FlushesAreRationed, One, EnsuredId
<1>20. CASE DrainEnds
  <2>1. UNCHANGED <<reply, replying, announced, responses, activeResponse, flushAsked, uplink>>
    BY <1>20, Zenon DEF DrainEnds, TranslateSentenceDone, sayerOnly, agentVars, adapterVars, inputQueue
  <2> QED
    BY <2>1 DEF FlushesAreRationed
<1>21. CASE SendFrame
  <2>1. UNCHANGED <<reply, replying, announced, responses, activeResponse, flushAsked, uplink>>
    BY <1>21, Zenon DEF SendFrame, sayerOnly, agentVars, adapterVars, inputQueue
  <2> QED
    BY <2>1 DEF FlushesAreRationed
<1>22. CASE DrainExpires
  <2>1. UNCHANGED <<reply, replying, announced, responses, activeResponse, flushAsked, uplink>>
    BY <1>22, Zenon DEF DrainExpires, sayerOnly, agentVars, adapterVars, inputQueue
  <2> QED
    BY <2>1 DEF FlushesAreRationed
<1>23. CASE UNCHANGED replyVars
  <2>1. UNCHANGED <<reply, replying, announced, responses, activeResponse, flushAsked, uplink>>
    BY <1>23, Zenon DEF replyVars, agentVars, adapterVars, inputQueue
  <2> QED
    BY <2>1 DEF FlushesAreRationed
<1> QED
  BY <1>1, <1>2, <1>3, <1>4, <1>5, <1>6, <1>7, <1>8, <1>9, <1>10, <1>11, <1>12, <1>13, <1>14, <1>15, <1>16, <1>17, <1>18, <1>19, <1>20, <1>21, <1>22, <1>23 DEF ReplyNext, Sayer

(* ... the numbering, ...                                                 *)
LEMMA NumberedStep ==
  ASSUME ReplyInv, [ReplyNext]_replyVars
  PROVE  ResponsesAreNumbered'
<1> USE DEF ReplyInv
<1>0. /\ responses \in Nat /\ activeResponse \in Nat /\ cutShort \in BOOLEAN
      /\ EnsuredId \in 1..MaxResponses /\ EnsuredId \notin ended
  BY RoomForAResponse DEF ReplyTypeOK
<1>1. CASE TurnBegins
  <2>1. UNCHANGED <<responses, activeResponse, activeStatus, ended, cutShort>>
    BY <1>1, Zenon DEF TurnBegins, agentOnly, inputQueue, adapterVars
  <2> QED
    BY <2>1 DEF ResponsesAreNumbered
<1>2. CASE SendText
  <2>1. UNCHANGED <<responses, activeResponse, activeStatus, ended, cutShort>>
    BY <1>2, Zenon DEF SendText, agentOnly, inputQueue, adapterVars
  <2> QED
    BY <2>1 DEF ResponsesAreNumbered
<1>3. CASE TurnCompletes
  <2>1. UNCHANGED <<responses, activeResponse, activeStatus, ended, cutShort>>
    BY <1>3, Zenon DEF TurnCompletes, agentOnly, inputQueue, adapterVars
  <2> QED
    BY <2>1 DEF ResponsesAreNumbered
<1>4. CASE TurnCut
  <2>1. UNCHANGED <<responses, activeResponse, activeStatus, ended, cutShort>>
    BY <1>4, Zenon DEF TurnCut, agentOnly, inputQueue, adapterVars
  <2> QED
    BY <2>1 DEF ResponsesAreNumbered
<1>5. CASE StopIntent
  <2>1. UNCHANGED <<responses, activeResponse, activeStatus, ended, cutShort>>
    BY <1>5, Zenon DEF StopIntent, agentOnly, inputQueue, adapterVars
  <2> QED
    BY <2>1 DEF ResponsesAreNumbered
<1>6. CASE Speak
  <2>1. UNCHANGED <<responses, activeResponse, activeStatus, ended, cutShort>>
    BY <1>6, Zenon DEF Speak, agentOnly, inputQueue, adapterVars
  <2> QED
    BY <2>1 DEF ResponsesAreNumbered
<1>7. CASE ResetConversation
  <2>1. UNCHANGED <<responses, activeResponse, activeStatus, ended, cutShort>>
    BY <1>7, Zenon DEF ResetConversation, agentOnly, inputQueue, adapterVars
  <2> QED
    BY <2>1 DEF ResponsesAreNumbered
<1>8. CASE ReadText
  <2>1. UNCHANGED <<responses, activeResponse, activeStatus, ended, cutShort>>
    BY <1>8, Zenon DEF ReadText, dispatchOnly, adapterVars
  <2> QED
    BY <2>1 DEF ResponsesAreNumbered
<1>9. CASE ReadFlush
  <2>1. UNCHANGED <<responses, activeResponse, activeStatus, ended, cutShort>>
    BY <1>9, Zenon DEF ReadFlush, dispatchOnly, adapterVars
  <2> QED
    BY <2>1 DEF ResponsesAreNumbered
<1>10. CASE ReadSpeak
  <2>1. UNCHANGED <<responses, activeResponse, activeStatus, ended, cutShort>>
    BY <1>10, Zenon DEF ReadSpeak, dispatchOnly, adapterVars
  <2> QED
    BY <2>1 DEF ResponsesAreNumbered
<1>11. CASE ReadCancel
  <2>1. UNCHANGED <<responses, activeResponse, ended>> /\ MarkCancelled /\ CutSentence(TRUE)
    BY <1>11, Zenon DEF ReadCancel
  <2>2. cutShort' => cutShort \/ activeResponse # 0
    BY <2>1 DEF CutSentence
  <2> QED
    BY <2>1, <2>2 DEF MarkCancelled, ResponsesAreNumbered
<1>12. CASE ReadReset
  <2>1. UNCHANGED <<responses, activeResponse, ended, cutShort>> /\ MarkCancelled
    BY <1>12, Zenon DEF ReadReset
  <2> QED
    BY <2>1 DEF MarkCancelled, ResponsesAreNumbered
<1>13. CASE ResetAborts
  <2>1. UNCHANGED <<responses, activeResponse, activeStatus, ended>> /\ CutSentence(FALSE)
    BY <1>13, Zenon DEF ResetAborts, adapterVars
  <2>2. cutShort' => cutShort
    BY <2>1 DEF CutSentence
  <2> QED
    BY <2>1, <2>2 DEF ResponsesAreNumbered
<1>14. CASE SpeechStarts
  <2>1. UNCHANGED <<responses, activeResponse, activeStatus, ended, cutShort>>
    BY <1>14, Zenon DEF SpeechStarts, adapterVars
  <2> QED
    BY <2>1 DEF ResponsesAreNumbered
<1>15. CASE SpeechBargesIn
  <2>1. UNCHANGED <<responses, activeResponse, ended>> /\ MarkCancelled /\ CutSentence(TRUE)
    BY <1>15, Zenon DEF SpeechBargesIn
  <2>2. cutShort' => cutShort \/ activeResponse # 0
    BY <2>1 DEF CutSentence
  <2> QED
    BY <2>1, <2>2 DEF MarkCancelled, ResponsesAreNumbered
<1>16. CASE TurnIsSpoken
  <2>1. /\ activeResponse' = 0 /\ cutShort' = FALSE /\ ended' = ended
        /\ responses' = IF activeResponse # 0 THEN responses ELSE responses + 1
    BY <1>16, Zenon DEF TurnIsSpoken, FinishResponse
  <2> QED
    BY <1>0, <2>1 DEF ResponsesAreNumbered
<1>17. CASE DequeueSentence
  <2>1. UNCHANGED <<responses, activeResponse, activeStatus, ended, cutShort>>
    BY <1>17, Zenon DEF DequeueSentence, adapterVars
  <2> QED
    BY <2>1 DEF ResponsesAreNumbered
<1>18. CASE StartDrain
  <2>1. UNCHANGED <<responses, activeResponse, activeStatus, ended, cutShort>>
    BY <1>18, Zenon DEF StartDrain, adapterVars
  <2> QED
    BY <2>1 DEF ResponsesAreNumbered
<1>19. CASE DrainStarts
  <2>1. EnsureResponseCreated /\ UNCHANGED <<ended, cutShort>>
    BY <1>19, Zenon DEF DrainStarts, TranslateStarted
  <2> QED
    BY <1>0, <2>1 DEF EnsureResponseCreated, EnsuredId, ResponsesAreNumbered
<1>20. CASE DrainEnds
  <2>1. UNCHANGED <<responses, activeResponse, activeStatus, ended, cutShort>>
    BY <1>20, Zenon DEF DrainEnds, TranslateSentenceDone, adapterVars
  <2> QED
    BY <2>1 DEF ResponsesAreNumbered
<1>21. CASE SendFrame
  <2>1. /\ UNCHANGED <<responses, activeResponse, activeStatus, cutShort>>
        /\ ended' = IF Head(outbox).frame = "done" THEN ended \cup {Head(outbox).resp} ELSE ended
    BY <1>21, Zenon DEF SendFrame, adapterVars
  <2>2. sayer \in {"starting", "finishing", "flushing"} /\ 1 \in 1..Len(outbox) /\ Head(outbox) = outbox[1]
    <3>1. outbox \in Seq(Frames) /\ outbox # <<>>
      BY <1>21 DEF SendFrame, ReplyTypeOK
    <3>2. Len(outbox) \in Nat \ {0}
      BY <3>1, EmptySeq
    <3> QED
      BY <3>1, <3>2, HeadTailProperties DEF ReplyTypeOK
  <2>3. CASE Head(outbox).frame = "done"
    <3>1. Head(outbox).resp = responses /\ responses # 0 /\ activeResponse = 0
      BY <2>2, <2>3 DEF FramesAreOfOneResponse
    <3>2. ended' = ended \cup {responses} /\ responses \in 1..responses
      BY <1>0, <2>1, <2>3, <3>1
    <3>3. ended' \subseteq 1..responses /\ 0 \notin ended'
      BY <1>0, <3>2 DEF ResponsesAreNumbered
    <3> QED
      BY <2>1, <3>1, <3>3 DEF ResponsesAreNumbered
  <2>4. CASE Head(outbox).frame # "done"
    BY <2>1, <2>4 DEF ResponsesAreNumbered
  <2> QED
    BY <2>3, <2>4
<1>22. CASE DrainExpires
  <2>1. UNCHANGED <<responses, activeResponse, activeStatus, ended, cutShort>>
    BY <1>22, Zenon DEF DrainExpires, adapterVars
  <2> QED
    BY <2>1 DEF ResponsesAreNumbered
<1>23. CASE UNCHANGED replyVars
  <2>1. UNCHANGED <<responses, activeResponse, activeStatus, ended, cutShort>>
    BY <1>23, Zenon DEF replyVars, adapterVars
  <2> QED
    BY <2>1 DEF ResponsesAreNumbered
<1> QED
  BY <1>1, <1>2, <1>3, <1>4, <1>5, <1>6, <1>7, <1>8, <1>9, <1>10, <1>11, <1>12, <1>13, <1>14, <1>15, <1>16, <1>17, <1>18, <1>19, <1>20, <1>21, <1>22, <1>23 DEF ReplyNext, Sayer

(* ... (a sentence that is cut leaves no frame of it behind, but the end  *)
(* of the response it is in) ...                                          *)
LEMMA CutLeavesNoFrames ==
  ASSUME ReplyInv, NEW marked \in BOOLEAN, CutSentence(marked),
         UNCHANGED <<activeResponse, itemAnnounced, responses, ended>>
  PROVE  FramesAreOfOneResponse'
<1>1. CASE UNCHANGED <<sayer, outbox>>
  BY <1>1 DEF ReplyInv, FramesAreOfOneResponse
<1>2. CASE sayer' = "loop"
  BY <1>2 DEF FramesAreOfOneResponse
<1> QED
  BY <1>1, <1>2 DEF CutSentence

(* ... and the frames that wait: none is of an ended response.            *)
LEMMA FramesStep ==
  ASSUME ReplyInv, [ReplyNext]_replyVars
  PROVE  FramesAreOfOneResponse'
<1> USE DEF ReplyInv
<1>0. /\ responses \in Nat /\ activeResponse \in 0..MaxResponses
      /\ activeStatus \in {"completed", "cancelled"}
      /\ EnsuredId \in 1..MaxResponses /\ EnsuredId \notin ended /\ EnsuredId \in 0..MaxResponses
  BY RoomForAResponse DEF ReplyTypeOK
<1>1. CASE TurnBegins
  <2>1. UNCHANGED <<responses, activeResponse, itemAnnounced, ended, sayer, outbox>>
    BY <1>1, Zenon DEF TurnBegins, agentOnly, inputQueue, adapterVars
  <2> QED
    BY <2>1 DEF FramesAreOfOneResponse
<1>2. CASE SendText
  <2>1. UNCHANGED <<responses, activeResponse, itemAnnounced, ended, sayer, outbox>>
    BY <1>2, Zenon DEF SendText, agentOnly, inputQueue, adapterVars
  <2> QED
    BY <2>1 DEF FramesAreOfOneResponse
<1>3. CASE TurnCompletes
  <2>1. UNCHANGED <<responses, activeResponse, itemAnnounced, ended, sayer, outbox>>
    BY <1>3, Zenon DEF TurnCompletes, agentOnly, inputQueue, adapterVars
  <2> QED
    BY <2>1 DEF FramesAreOfOneResponse
<1>4. CASE TurnCut
  <2>1. UNCHANGED <<responses, activeResponse, itemAnnounced, ended, sayer, outbox>>
    BY <1>4, Zenon DEF TurnCut, agentOnly, inputQueue, adapterVars
  <2> QED
    BY <2>1 DEF FramesAreOfOneResponse
<1>5. CASE StopIntent
  <2>1. UNCHANGED <<responses, activeResponse, itemAnnounced, ended, sayer, outbox>>
    BY <1>5, Zenon DEF StopIntent, agentOnly, inputQueue, adapterVars
  <2> QED
    BY <2>1 DEF FramesAreOfOneResponse
<1>6. CASE Speak
  <2>1. UNCHANGED <<responses, activeResponse, itemAnnounced, ended, sayer, outbox>>
    BY <1>6, Zenon DEF Speak, agentOnly, inputQueue, adapterVars
  <2> QED
    BY <2>1 DEF FramesAreOfOneResponse
<1>7. CASE ResetConversation
  <2>1. UNCHANGED <<responses, activeResponse, itemAnnounced, ended, sayer, outbox>>
    BY <1>7, Zenon DEF ResetConversation, agentOnly, inputQueue, adapterVars
  <2> QED
    BY <2>1 DEF FramesAreOfOneResponse
<1>8. CASE ReadText
  <2>1. UNCHANGED <<responses, activeResponse, itemAnnounced, ended, sayer, outbox>>
    BY <1>8, Zenon DEF ReadText, dispatchOnly, adapterVars
  <2> QED
    BY <2>1 DEF FramesAreOfOneResponse
<1>9. CASE ReadFlush
  <2>1. UNCHANGED <<responses, activeResponse, itemAnnounced, ended, sayer, outbox>>
    BY <1>9, Zenon DEF ReadFlush, dispatchOnly, adapterVars
  <2> QED
    BY <2>1 DEF FramesAreOfOneResponse
<1>10. CASE ReadSpeak
  <2>1. UNCHANGED <<responses, activeResponse, itemAnnounced, ended, sayer, outbox>>
    BY <1>10, Zenon DEF ReadSpeak, dispatchOnly, adapterVars
  <2> QED
    BY <2>1 DEF FramesAreOfOneResponse
<1>11. CASE ReadCancel
  <2>1. UNCHANGED <<activeResponse, itemAnnounced, responses, ended>> /\ CutSentence(TRUE)
    BY <1>11, Zenon DEF ReadCancel
  <2> QED
    BY <2>1, CutLeavesNoFrames
<1>12. CASE ReadReset
  <2>1. UNCHANGED <<responses, activeResponse, itemAnnounced, ended, sayer, outbox>>
    BY <1>12, Zenon DEF ReadReset, MarkCancelled
  <2> QED
    BY <2>1 DEF FramesAreOfOneResponse
<1>13. CASE ResetAborts
  <2>1. UNCHANGED <<activeResponse, itemAnnounced, responses, ended>> /\ CutSentence(FALSE)
    BY <1>13, Zenon DEF ResetAborts, adapterVars
  <2> QED
    BY <2>1, CutLeavesNoFrames
<1>14. CASE SpeechStarts
  <2>1. UNCHANGED <<responses, activeResponse, itemAnnounced, ended, sayer, outbox>>
    BY <1>14, Zenon DEF SpeechStarts, adapterVars
  <2> QED
    BY <2>1 DEF FramesAreOfOneResponse
<1>15. CASE SpeechBargesIn
  <2>1. UNCHANGED <<activeResponse, itemAnnounced, responses, ended>> /\ CutSentence(TRUE)
    BY <1>15, Zenon DEF SpeechBargesIn
  <2> QED
    BY <2>1, CutLeavesNoFrames
<1>16. CASE TurnIsSpoken
  <2>1. /\ activeResponse' = 0 /\ sayer' = "flushing" /\ ended' = ended /\ FinishResponse
        /\ responses' = IF activeResponse # 0 THEN responses ELSE responses + 1
    BY <1>16, Zenon DEF TurnIsSpoken, FinishResponse
  <2>2. responses' = EnsuredId
    BY <1>0, <2>1 DEF ResponsesAreNumbered, EnsuredId
  <2>3. \A i \in 1..Len(outbox') : outbox'[i].resp = EnsuredId /\ (outbox'[i].frame = "done" => i = Len(outbox'))
    BY <1>0, <2>1, FinishedFrames
  <2>4. responses' # 0 /\ responses' \notin ended'
    BY <1>0, <2>1, <2>2
  <2> QED
    BY <2>1, <2>2, <2>3, <2>4 DEF FramesAreOfOneResponse
<1>17. CASE DequeueSentence
  <2>1. sayer' = "taken"
    BY <1>17, Zenon DEF DequeueSentence
  <2> QED
    BY <2>1 DEF FramesAreOfOneResponse
<1>18. CASE StartDrain
  <2>1. sayer' = "acquiring"
    BY <1>18, Zenon DEF StartDrain
  <2> QED
    BY <2>1 DEF FramesAreOfOneResponse
<1>19. CASE DrainStarts
  <2>1. sayer' = "starting" /\ TranslateStarted /\ EnsureResponseCreated /\ itemAnnounced' = TRUE
    BY <1>19, Zenon DEF DrainStarts, TranslateStarted
  <2>2. activeResponse' = EnsuredId /\ EnsuredId # 0
    BY <1>0, <2>1 DEF EnsureResponseCreated
  <2>3. \A i \in 1..Len(outbox') : outbox'[i].resp = EnsuredId /\ outbox'[i].frame # "done"
    BY <1>0, <2>1, StartedFrames
  <2> QED
    BY <2>1, <2>2, <2>3 DEF FramesAreOfOneResponse
<1>20. CASE DrainEnds
  <2>1. /\ sayer = "speaking" /\ sayer' = "finishing" /\ TranslateSentenceDone
        /\ UNCHANGED <<activeResponse, itemAnnounced>>
    BY <1>20, Zenon DEF DrainEnds, TranslateSentenceDone, adapterVars
  <2>2. \A i \in 1..Len(outbox') : outbox'[i].resp = activeResponse /\ outbox'[i].frame # "done"
    BY <1>0, <2>1, EndedFrames
  <2>3. activeResponse # 0 /\ itemAnnounced
    BY <2>1 DEF FramesAreOfOneResponse
  <2> QED
    BY <2>1, <2>2, <2>3 DEF FramesAreOfOneResponse
<1>21. CASE SendFrame
  <2>1. /\ UNCHANGED <<responses, activeResponse, itemAnnounced>>
        /\ outbox' = Tail(outbox) /\ outbox # <<>>
        /\ ended' = IF Head(outbox).frame = "done" THEN ended \cup {Head(outbox).resp} ELSE ended
        /\ sayer' = IF Len(outbox) > 1 THEN sayer ELSE IF sayer = "starting" THEN "speaking" ELSE "loop"
    BY <1>21, Zenon DEF SendFrame, adapterVars
  <2>2. /\ sayer \in {"starting", "finishing", "flushing"} /\ Len(outbox) \in Nat \ {0} /\ Head(outbox) = outbox[1]
        /\ Len(outbox') = Len(outbox) - 1 /\ \A i \in 1..Len(outbox') : outbox'[i] = outbox[i + 1]
    BY <2>1, HeadTailProperties, EmptySeq DEF ReplyTypeOK
  <2>3. CASE Len(outbox) = 1
    BY <2>1, <2>2, <2>3 DEF FramesAreOfOneResponse
  <2>4. CASE Len(outbox) # 1
    <3>1. sayer' = sayer
      BY <2>1, <2>2, <2>4
    <3>2. \A i \in 1..Len(outbox') : i + 1 \in 1..Len(outbox) /\ (i + 1 = Len(outbox) => i = Len(outbox'))
      BY <2>2
    <3>3. ended' = ended
      <4>1. 1 \in 1..Len(outbox) /\ 1 # Len(outbox)
        BY <2>2, <2>4
      <4>2. outbox[1].frame # "done"
        BY <2>2, <4>1 DEF FramesAreOfOneResponse
      <4> QED
        BY <2>1, <2>2, <4>2
    <3>4. CASE sayer \in {"starting", "finishing"}
      BY <2>1, <2>2, <3>1, <3>2, <3>4 DEF FramesAreOfOneResponse
    <3>5. CASE sayer = "flushing"
      BY <2>1, <2>2, <3>1, <3>2, <3>3, <3>5 DEF FramesAreOfOneResponse
    <3> QED
      BY <2>2, <3>4, <3>5
  <2> QED
    BY <2>3, <2>4
<1>22. CASE DrainExpires
  <2>1. sayer' = "loop"
    BY <1>22, Zenon DEF DrainExpires
  <2> QED
    BY <2>1 DEF FramesAreOfOneResponse
<1>23. CASE UNCHANGED replyVars
  <2>1. UNCHANGED <<responses, activeResponse, itemAnnounced, ended, sayer, outbox>>
    BY <1>23, Zenon DEF replyVars, adapterVars
  <2> QED
    BY <2>1 DEF FramesAreOfOneResponse
<1> QED
  BY <1>1, <1>2, <1>3, <1>4, <1>5, <1>6, <1>7, <1>8, <1>9, <1>10, <1>11, <1>12, <1>13, <1>14, <1>15, <1>16, <1>17, <1>18, <1>19, <1>20, <1>21, <1>22, <1>23 DEF ReplyNext, Sayer

(* The adapter and what feeds it (realtime/v2_adapter.py; main.py, the    *)
(* dispatcher and tts_out_task; slv_client.py): for any number of turns,  *)
(* chunks and messages on the way, flushes are rationed, ids are handed   *)
(* out in order and the frames that wait are of one response.             *)
THEOREM ReplyInvInvariant == ReplySpec => []ReplyInv
<1>1. ReplyInit => ReplyInv
  <2> SUFFICES ASSUME ReplyInit PROVE ReplyInv
    OBVIOUS
  <2>1. ReplyTypeOK
    <3>1. 0 \in Voices /\ 0 \in 0..MaxChunks /\ 0 \in 0..MaxResponses /\ 0 <= MaxUplink
      BY ReplyAssumption DEF Voices, MaxResponses
    <3>2. /\ <<>> \in Seq(Messages) /\ Len(<<>>) = 0 /\ <<>> \in Seq(SUBSET Voices)
          /\ <<>> \in Seq(Frames)
      BY EmptySeq
    <3> QED
      BY <3>1, <3>2 DEF ReplyInit, ReplyTypeOK, Drain
  <2>2. Cardinality(Flushes(uplink)) = 0
    <3>1. Flushes(uplink) = {}
      BY DEF ReplyInit, Flushes
    <3> QED
      BY <3>1, FS_EmptySet
  <2> QED
    BY <2>1, <2>2 DEF ReplyInit, ReplyInv, FlushesAreRationed, One, ResponsesAreNumbered, FramesAreOfOneResponse
<1>2. ReplyInv /\ [ReplyNext]_replyVars => ReplyInv'
  BY TypesStep, RationStep, NumberedStep, FramesStep DEF ReplyInv
<1> QED
  BY <1>1, <1>2, PTL DEF ReplySpec

(* It implies what the run checks.                                        *)
LEMMA ReplyInvIsWellFormed ==
  ASSUME ReplyInv
  PROVE  ResponsesAreWellFormed
<1> USE DEF ReplyInv
<1>1. ResponsesEndOnce
  <2> SUFFICES ASSUME NEW i \in 1..Len(outbox)
               PROVE  outbox[i].resp \notin ended \cup {0}
    BY DEF ResponsesEndOnce
  <2>1. sayer \in {"starting", "finishing", "flushing"}
    <3>1. outbox # <<>>
      BY DEF ReplyTypeOK
    <3> QED
      BY <3>1 DEF ReplyTypeOK
  <2>2. outbox[i].resp \in {activeResponse, responses}
    BY <2>1 DEF FramesAreOfOneResponse
  <2> QED
    BY <2>1, <2>2 DEF FramesAreOfOneResponse, ResponsesAreNumbered
<1>2. AudioIsInsideAResponse
  BY DEF AudioIsInsideAResponse, FramesAreOfOneResponse, ResponsesAreNumbered
<1>3. InterruptionIsReported
  BY DEF InterruptionIsReported, ResponsesAreNumbered
<1> QED
  BY <1>1, <1>2, <1>3 DEF ResponsesAreWellFormed

(* For any number of turns, chunks and messages on the way, and wherever  *)
(* a cancel, a reset or speech cuts in: a response ends once and nothing  *)
(* of it is sent behind its end, and one that was cut short ends          *)
(* cancelled.                                                             *)
THEOREM ResponsesWellFormed == ReplySpec => []ResponsesAreWellFormed
BY ReplyInvInvariant, ReplyInvIsWellFormed, PTL

-----------------------------------------------------------------------------
(* The history of a conversation.                                           *)

(* The messages a conversation can hold (WellTyped below: everything it   *)
(* is made of).                                                           *)
Said == {User(t) : t \in 1..MaxDialogue} \cup {Text(r) : r \in Replies} \cup {Calls(1), Calls(2), Tool}

(* The last message is a round of calls or a result of one.               *)
AwaitsResults(h) == h # <<>> /\ h[Len(h)].role \in {"calls", "tool"}

(* A set of naturals that is not empty has a least element, from the      *)
(* order of the naturals being well-founded.                              *)
LEMMA LeastOfNaturals ==
  ASSUME NEW T \in SUBSET Nat, T # {}
  PROVE  \E m \in T : \A k \in T : m <= k
<1> DEFINE R == OpToRel(<, Nat)
<1>1. IsWellFoundedOn(R, Nat)
  BY NatLessThanWellFounded
<1>2. \E x \in T : \A y \in T : ~(<<y, x>> \in R)
  <2> HIDE DEF R
  <2> QED
    BY <1>1, WFMin
<1>3. \A x, y \in Nat : <<y, x>> \in R <=> y < x
  BY DEF OpToRel
<1> HIDE DEF R
<1>4. PICK x \in T : \A y \in T : ~(<<y, x>> \in R)
  BY <1>2
<1>5. ASSUME NEW k \in T
      PROVE  x <= k
  <2>1. ~(k < x)
    BY <1>3, <1>4
  <2> QED
    BY <2>1
<1> QED
  BY <1>5

(* What the roles of the messages tell: results are all alike, a round    *)
(* has one or two calls.                                                  *)
LEMMA SaidIsTyped ==
  /\ \A m \in Said : m.of \in Nat /\ (m.role = "tool" <=> m = Tool) /\ (m.role = "calls" => m.of \in 1..2)
  /\ \A t \in 1..MaxDialogue : User(t) \in Said /\ User(t).role = "user"
  /\ \A r \in Replies : Text(r) \in Said /\ Text(r).role = "assistant"
  /\ \A n \in 1..2 : Calls(n) \in Said /\ Calls(n).role = "calls" /\ Calls(n).of = n
  /\ Tool \in Said /\ Tool.role = "tool"
<1>1. /\ \A t \in 1..MaxDialogue : User(t) \in Said /\ User(t).role = "user"
      /\ \A r \in Replies : Text(r) \in Said /\ Text(r).role = "assistant"
      /\ Calls(1) \in Said /\ Calls(2) \in Said
      /\ Tool \in Said /\ Tool.role = "tool"
  BY DEF Said, User, Text, Tool
<1>2. \A n \in 1..2 : (n = 1 \/ n = 2) /\ Calls(n).role = "calls" /\ Calls(n).of = n
  BY DEF Calls
<1>3. ASSUME NEW m \in Said
      PROVE  m.of \in Nat /\ (m.role = "tool" <=> m = Tool) /\ (m.role = "calls" => m.of \in 1..2)
  BY HistoryAssumption DEF Said, User, Text, Calls, Tool, Replies
<1> QED
  BY <1>1, <1>2, <1>3

(* Exactly k results follow message i.                                    *)
Run(h, i, k) ==
  /\ i + k <= Len(h)
  /\ \A j \in (i + 1)..(i + k) : h[j] = Tool
  /\ i + k < Len(h) => h[i + k + 1] # Tool

(* ResultsAfter counts such a run, ...                                    *)
LEMMA RunIsResults ==
  ASSUME NEW h \in Seq(Said), NEW i \in Nat, NEW k \in Nat, Run(h, i, k)
  PROVE  ResultsAfter(h, i) = k
<1> DEFINE S == {j \in (i + 1)..Len(h) : \A l \in (i + 1)..j : h[l] = Tool}
<1>0. Len(h) \in Nat
  BY LenProperties
<1>1. S = (i + 1)..(i + k)
  <2>1. ASSUME NEW j \in S
        PROVE  j \in (i + 1)..(i + k)
    <3>1. CASE j > i + k
      <4>1. i + k + 1 \in (i + 1)..j /\ i + k < Len(h)
        BY <1>0, <3>1
      <4>2. h[i + k + 1] = Tool
        BY <4>1
      <4> QED
        BY <4>1, <4>2 DEF Run
    <3> QED
      BY <1>0, <3>1
  <2>2. ASSUME NEW j \in (i + 1)..(i + k)
        PROVE  j \in S
    BY <1>0 DEF Run
  <2> QED
    BY <2>1, <2>2
<1>2. Cardinality((i + 1)..(i + k)) = k
  <2>1. Cardinality((i + 1)..(i + k)) = IF i + 1 > i + k THEN 0 ELSE (i + k) - (i + 1) + 1
    BY FS_Interval
  <2> QED
    BY <2>1
<1> QED
  BY <1>1, <1>2 DEF ResultsAfter

(* ... and there always is one: the first message behind i that is no     *)
(* result, or the end, bounds it.                                         *)
LEMMA ResultsAreARun ==
  ASSUME NEW h \in Seq(Said), NEW i \in 1..Len(h)
  PROVE  ResultsAfter(h, i) \in Nat /\ Run(h, i, ResultsAfter(h, i))
<1> DEFINE T == {j \in (i + 1)..(Len(h) + 1) : j = Len(h) + 1 \/ h[j] # Tool}
<1>0. Len(h) \in Nat
  BY LenProperties
<1>1. T \in SUBSET Nat /\ Len(h) + 1 \in T
  BY <1>0
<1>2. PICK m \in T : \A k \in T : m <= k
  BY <1>1, LeastOfNaturals
<1>3. m \in (i + 1)..(Len(h) + 1) /\ (m = Len(h) + 1 \/ h[m] # Tool)
  OBVIOUS
<1>4. \A j \in (i + 1)..(m - 1) : h[j] = Tool
  <2> SUFFICES ASSUME NEW j \in (i + 1)..(m - 1), h[j] # Tool
               PROVE  FALSE
    OBVIOUS
  <2>1. j \in T
    BY <1>0, <1>3
  <2> QED
    BY <1>0, <1>2, <1>3, <2>1
<1>5. m - i - 1 \in Nat /\ Run(h, i, m - i - 1)
  <2>1. /\ m - i - 1 \in Nat /\ i + (m - i - 1) = m - 1 /\ i + (m - i - 1) + 1 = m
        /\ i + (m - i - 1) <= Len(h) /\ (m - 1 < Len(h) => m # Len(h) + 1)
    BY <1>0, <1>3
  <2> QED
    BY <1>3, <1>4, <2>1 DEF Run
<1>6. ResultsAfter(h, i) = m - i - 1
  BY <1>5, RunIsResults
<1> QED
  BY <1>5, <1>6

(* A message at the end makes the run longer only when it is a result and *)
(* the run reaches the end.                                               *)
LEMMA ResultsAppend ==
  ASSUME NEW h \in Seq(Said), NEW m \in Said
  PROVE  /\ \A i \in 1..Len(h) : ResultsAfter(Append(h, m), i) =
              IF m = Tool /\ i + ResultsAfter(h, i) = Len(h) THEN ResultsAfter(h, i) + 1 ELSE ResultsAfter(h, i)
         /\ ResultsAfter(Append(h, m), Len(h) + 1) = 0
<1> DEFINE t == Append(h, m)
<1>0. /\ t \in Seq(Said) /\ Len(t) = Len(h) + 1 /\ Len(h) \in Nat
      /\ t[Len(h) + 1] = m /\ \A i \in 1..Len(h) : t[i] = h[i]
  BY AppendProperties, LenProperties
<1> HIDE DEF t
<1>1. ASSUME NEW i \in 1..Len(h)
      PROVE  ResultsAfter(t, i) =
               IF m = Tool /\ i + ResultsAfter(h, i) = Len(h) THEN ResultsAfter(h, i) + 1 ELSE ResultsAfter(h, i)
  <2> DEFINE k == ResultsAfter(h, i)
  <2>1. k \in Nat /\ Run(h, i, k)
    BY ResultsAreARun
  <2> HIDE DEF k
  <2>2. i \in Nat /\ i + k <= Len(h)
    BY <1>0, <2>1 DEF Run
  <2>3. \A j \in (i + 1)..(i + k) : t[j] = Tool
    BY <1>0, <2>1, <2>2 DEF Run
  <2>4. CASE m = Tool /\ i + k = Len(h)
    <3>1. \A j \in (i + 1)..(i + (k + 1)) : t[j] = Tool
      BY <1>0, <2>1, <2>2, <2>3, <2>4
    <3>2. Run(t, i, k + 1)
      BY <1>0, <2>1, <2>2, <2>4, <3>1 DEF Run
    <3>3. ResultsAfter(t, i) = k + 1
      BY <1>0, <2>1, <2>2, <3>2, RunIsResults
    <3> QED
      BY <2>4, <3>3 DEF k
  <2>5. CASE ~(m = Tool /\ i + k = Len(h))
    <3>1. i + k < Len(t) => t[i + k + 1] # Tool
      BY <1>0, <2>1, <2>2, <2>5 DEF Run
    <3>2. Run(t, i, k)
      BY <1>0, <2>1, <2>2, <2>3, <3>1 DEF Run
    <3>3. ResultsAfter(t, i) = k
      BY <1>0, <2>1, <2>2, <3>2, RunIsResults
    <3> QED
      BY <2>5, <3>3 DEF k
  <2> QED
    BY <2>4, <2>5
<1>2. ResultsAfter(t, Len(h) + 1) = 0
  <2>1. Run(t, Len(h) + 1, 0)
    BY <1>0 DEF Run
  <2> QED
    BY <1>0, <2>1, RunIsResults
<1> QED
  BY <1>1, <1>2 DEF t

(* A history that a strict server accepts stays one when a question or an *)
(* answer is added (Session.add_user, add_assistant), ...                 *)
LEMMA StrictWithText ==
  ASSUME NEW h \in Seq(Said), Strict(h, 0), NEW m \in Said, m.role \notin {"calls", "tool"}
  PROVE  Strict(Append(h, m), 0)
<1> DEFINE t == Append(h, m)
<1>0. /\ t \in Seq(Said) /\ Len(t) = Len(h) + 1 /\ Len(h) \in Nat
      /\ t[Len(h) + 1] = m /\ \A i \in 1..Len(h) : t[i] = h[i] /\ h[i] \in Said
  BY AppendProperties, LenProperties
<1>1. m # Tool
  BY SaidIsTyped
<1>2. \A i \in 1..Len(h) : ResultsAfter(t, i) = ResultsAfter(h, i) /\ ResultsAfter(h, i) \in Nat /\ i + ResultsAfter(h, i) <= Len(h)
  BY <1>1, ResultsAppend, ResultsAreARun DEF Run
<1> HIDE DEF t
<1>3. ASSUME NEW i \in 1..Len(t), t[i].role = "calls"
      PROVE  ResultsAfter(t, i) = IF i + ResultsAfter(t, i) = Len(t) THEN t[i].of - 0 ELSE t[i].of
  <2>1. i \in 1..Len(h) /\ h[i].role = "calls" /\ t[i] = h[i] /\ h[i].of \in Nat
    BY <1>0, <1>3, SaidIsTyped
  <2> QED
    BY <1>0, <1>2, <2>1 DEF Strict
<1>4. ASSUME NEW i \in 1..Len(t), t[i] = Tool
      PROVE  i > 1 /\ t[i - 1].role \in {"calls", "tool"}
  <2>1. i \in 1..Len(h) /\ h[i] = Tool
    BY <1>0, <1>1, <1>4
  <2>2. i > 1 /\ h[i - 1].role \in {"calls", "tool"}
    BY <2>1 DEF Strict
  <2> QED
    BY <1>0, <2>1, <2>2
<1> QED
  BY <1>3, <1>4 DEF Strict, t

(* ... when a round of calls is added, whose results are then owed        *)
(* (add_assistant_tool_calls), ...                                        *)
LEMMA StrictWithCalls ==
  ASSUME NEW h \in Seq(Said), Strict(h, 0), NEW n \in 1..2
  PROVE  Strict(Append(h, Calls(n)), n)
<1> DEFINE m == Calls(n)
           t == Append(h, m)
<1>0. /\ m \in Said /\ m.role = "calls" /\ m.of = n
  BY SaidIsTyped
<1> HIDE DEF m
<1>1. /\ t \in Seq(Said) /\ Len(t) = Len(h) + 1 /\ Len(h) \in Nat
      /\ t[Len(h) + 1] = m /\ \A i \in 1..Len(h) : t[i] = h[i] /\ h[i] \in Said
  BY <1>0, AppendProperties, LenProperties
<1>2. m # Tool
  BY <1>0, SaidIsTyped
<1>3. /\ \A i \in 1..Len(h) : ResultsAfter(t, i) = ResultsAfter(h, i) /\ ResultsAfter(h, i) \in Nat /\ i + ResultsAfter(h, i) <= Len(h)
      /\ ResultsAfter(t, Len(h) + 1) = 0
  BY <1>0, <1>2, ResultsAppend, ResultsAreARun DEF Run
<1> HIDE DEF t
<1>4. ASSUME NEW i \in 1..Len(t), t[i].role = "calls"
      PROVE  ResultsAfter(t, i) = IF i + ResultsAfter(t, i) = Len(t) THEN t[i].of - n ELSE t[i].of
  <2>1. CASE i \in 1..Len(h)
    <3>1. h[i].role = "calls" /\ t[i] = h[i] /\ h[i].of \in Nat
      BY <1>1, <1>4, <2>1, SaidIsTyped
    <3>2. ResultsAfter(h, i) = h[i].of
      BY <2>1, <3>1 DEF Strict
    <3> QED
      BY <1>1, <1>3, <2>1, <3>1, <3>2
  <2>2. CASE i = Len(h) + 1
    BY <1>0, <1>1, <1>3, <2>2
  <2> QED
    BY <1>1, <2>1, <2>2
<1>5. ASSUME NEW i \in 1..Len(t), t[i] = Tool
      PROVE  i > 1 /\ t[i - 1].role \in {"calls", "tool"}
  <2>1. i \in 1..Len(h) /\ h[i] = Tool
    BY <1>1, <1>2, <1>5
  <2>2. i > 1 /\ h[i - 1].role \in {"calls", "tool"}
    BY <2>1 DEF Strict
  <2> QED
    BY <1>1, <2>1, <2>2
<1> QED
  BY <1>4, <1>5 DEF Strict, t, m

(* ... and when one of the owed results is (add_tool_result).             *)
LEMMA StrictWithTool ==
  ASSUME NEW h \in Seq(Said), NEW owed \in 1..2, Strict(h, owed), AwaitsResults(h)
  PROVE  Strict(Append(h, Tool), owed - 1)
<1> DEFINE t == Append(h, Tool)
<1>1. /\ t \in Seq(Said) /\ Len(t) = Len(h) + 1 /\ Len(h) \in Nat \ {0}
      /\ t[Len(h) + 1] = Tool /\ \A i \in 1..Len(h) : t[i] = h[i] /\ h[i] \in Said
  BY SaidIsTyped, AppendProperties, LenProperties, EmptySeq DEF AwaitsResults
<1>2. \A i \in 1..Len(h) :
        /\ ResultsAfter(h, i) \in Nat /\ i + ResultsAfter(h, i) <= Len(h)
        /\ ResultsAfter(t, i) = IF i + ResultsAfter(h, i) = Len(h) THEN ResultsAfter(h, i) + 1 ELSE ResultsAfter(h, i)
  BY SaidIsTyped, ResultsAppend, ResultsAreARun DEF Run
<1> HIDE DEF t
<1>3. ASSUME NEW i \in 1..Len(t), t[i].role = "calls"
      PROVE  ResultsAfter(t, i) = IF i + ResultsAfter(t, i) = Len(t) THEN t[i].of - (owed - 1) ELSE t[i].of
  <2>1. i \in 1..Len(h) /\ h[i].role = "calls" /\ t[i] = h[i] /\ h[i].of \in Nat
    <3>1. t[i] # Tool
      BY <1>3, SaidIsTyped
    <3> QED
      BY <1>1, <1>3, <3>1, SaidIsTyped
  <2>2. ResultsAfter(h, i) = IF i + ResultsAfter(h, i) = Len(h) THEN h[i].of - owed ELSE h[i].of
    BY <2>1 DEF Strict
  <2>3. CASE i + ResultsAfter(h, i) = Len(h)
    <3>1. ResultsAfter(h, i) = h[i].of - owed /\ ResultsAfter(t, i) = ResultsAfter(h, i) + 1
      BY <1>2, <2>1, <2>2, <2>3
    <3>2. i + ResultsAfter(t, i) = Len(t)
      <4>1. ResultsAfter(h, i) \in Nat /\ i \in Nat /\ Len(h) \in Nat /\ Len(t) = Len(h) + 1
        BY <1>1, <1>2, <2>1
      <4>2. ResultsAfter(t, i) = ResultsAfter(h, i) + 1
        BY <3>1
      <4> QED
        BY <2>3, <4>1, <4>2
    <3>3. (h[i].of - owed) + 1 = h[i].of - (owed - 1)
      BY <2>1
    <3> QED
      BY <2>1, <3>1, <3>2, <3>3
  <2>4. CASE i + ResultsAfter(h, i) # Len(h)
    BY <1>1, <1>2, <2>1, <2>2, <2>4
  <2> QED
    BY <2>3, <2>4
<1>4. ASSUME NEW i \in 1..Len(t), t[i] = Tool
      PROVE  i > 1 /\ t[i - 1].role \in {"calls", "tool"}
  <2>1. CASE i \in 1..Len(h)
    <3>1. h[i] = Tool
      BY <1>1, <1>4, <2>1
    <3>2. i > 1 /\ h[i - 1].role \in {"calls", "tool"}
      BY <2>1, <3>1 DEF Strict
    <3> QED
      BY <1>1, <2>1, <3>2
  <2>2. CASE i = Len(h) + 1
    BY <1>1, <2>2 DEF AwaitsResults
  <2> QED
    BY <1>1, <2>1, <2>2
<1> QED
  BY <1>3, <1>4 DEF Strict, t

(* So does what is left of it from any message on that is no result: no   *)
(* call loses its results, no result its call.                            *)
LEMMA StrictSuffix ==
  ASSUME NEW h \in Seq(Said), Strict(h, 0), NEW a \in 1..Len(h), h[a] # Tool
  PROVE  Strict(SubSeq(h, a, Len(h)), 0)
<1> DEFINE t == SubSeq(h, a, Len(h))
           d == a - 1
<1>1. /\ Len(h) \in Nat /\ d \in Nat /\ \A i \in 1..Len(h) : h[i] \in Said
  BY LenProperties
<1>2. /\ t \in Seq(Said) /\ Len(t) = Len(h) - d /\ \A i \in 1..Len(t) : t[i] = h[i + d] /\ i + d \in 1..Len(h)
  BY <1>1, SubSeqProperties
<1> HIDE DEF t, d
<1>3. ASSUME NEW i \in 1..Len(t)
      PROVE  ResultsAfter(t, i) = ResultsAfter(h, i + d) /\ ResultsAfter(t, i) \in Nat
  <2> DEFINE k == ResultsAfter(h, i + d)
  <2>1. k \in Nat /\ Run(h, i + d, k)
    BY <1>2, ResultsAreARun
  <2> HIDE DEF k
  <2>2. i + d + k <= Len(h) /\ i \in Nat
    BY <1>1, <1>2, <2>1 DEF Run
  <2>3. \A j \in (i + 1)..(i + k) : t[j] = Tool
    <3> SUFFICES ASSUME NEW j \in (i + 1)..(i + k)
                 PROVE  t[j] = Tool
      OBVIOUS
    <3>1. j \in 1..Len(t) /\ j + d \in ((i + d) + 1)..((i + d) + k)
      BY <1>1, <1>2, <2>1, <2>2
    <3> QED
      BY <1>2, <2>1, <3>1 DEF Run
  <2>4. i + k < Len(t) => t[i + k + 1] # Tool
    <3> SUFFICES ASSUME i + k < Len(t)
                 PROVE  t[i + k + 1] # Tool
      OBVIOUS
    <3>1. i + k + 1 \in 1..Len(t) /\ (i + k + 1) + d = (i + d) + k + 1 /\ (i + d) + k < Len(h)
      BY <1>1, <1>2, <2>1, <2>2
    <3> QED
      BY <1>2, <2>1, <3>1 DEF Run
  <2>5. Run(t, i, k)
    BY <1>1, <1>2, <2>1, <2>2, <2>3, <2>4 DEF Run
  <2> QED
    BY <1>2, <2>1, <2>2, <2>5, RunIsResults DEF k
<1>4. ASSUME NEW i \in 1..Len(t), t[i].role = "calls"
      PROVE  ResultsAfter(t, i) = IF i + ResultsAfter(t, i) = Len(t) THEN t[i].of - 0 ELSE t[i].of
  <2>1. t[i] = h[i + d] /\ i + d \in 1..Len(h) /\ h[i + d].of \in Nat
    BY <1>1, <1>2, SaidIsTyped
  <2>2. ResultsAfter(h, i + d) = h[i + d].of
    BY <1>4, <2>1 DEF Strict
  <2> QED
    BY <1>3, <2>1, <2>2
<1>5. ASSUME NEW i \in 1..Len(t), t[i] = Tool
      PROVE  i > 1 /\ t[i - 1].role \in {"calls", "tool"}
  <2>1. t[i] = h[i + d] /\ i + d \in 1..Len(h)
    BY <1>2
  <2>2. (i + d) - 1 \in Nat /\ h[(i + d) - 1].role \in {"calls", "tool"}
    BY <1>5, <2>1 DEF Strict
  <2>3. i # 1
    BY <1>1, <1>5, <2>1 DEF d
  <2>4. i - 1 \in 1..Len(t) /\ (i - 1) + d = (i + d) - 1
    BY <1>1, <1>2, <2>3
  <2> QED
    BY <1>2, <2>2, <2>3, <2>4
<1> QED
  BY <1>4, <1>5 DEF Strict, t

(* Min is what it says.                                                   *)
LEMMA MinIsLeast ==
  ASSUME NEW T \in SUBSET Nat, T # {}
  PROVE  Min(T) \in T /\ \A k \in T : Min(T) <= k
<1>1. \E m \in T : \A k \in T : m <= k
  BY LeastOfNaturals
<1> QED
  BY <1>1 DEF Min

(* _trim_to_budget keeps the end of a history whose last message is the   *)
(* question. Where the history begins with a question so does what is     *)
(* kept, within the budget unless it is the last turn alone.              *)
LEMMA TrimKeepsTheQuestion ==
  ASSUME NEW h \in Seq(Said), h # <<>>, h[Len(h)].role = "user"
  PROVE  \E a \in 1..Len(h) :
           /\ TrimToBudget(h) = SubSeq(h, a, Len(h))
           /\ h[1].role = "user" =>
                /\ h[a].role = "user"
                /\ Tokens(TrimToBudget(h)) <= TokenBudget \/ a = Len(h)
<1> DEFINE starts == {i \in 1..Len(h) : h[i].role = "user"}
           fits == {i \in starts : Tokens(SubSeq(h, i, Len(h))) <= TokenBudget}
<1>1. Len(h) \in Nat \ {0} /\ Len(h) \in starts
  BY EmptySeq
<1>2. starts \in SUBSET Nat /\ fits \in SUBSET Nat /\ fits \subseteq starts
  OBVIOUS
<1>3. TrimToBudget(h) =
        CASE Min(starts) \in fits -> h
          [] Min(starts) \notin fits /\ fits # {} -> SubSeq(h, Min(fits), Len(h))
          [] fits = {} -> SubSeq(h, Max(starts), Len(h))
  BY DEF TrimToBudget
<1>4. \A i \in starts : i \in 1..Len(h) /\ h[i].role = "user"
  OBVIOUS
<1>5. \A i \in fits : Tokens(SubSeq(h, i, Len(h))) <= TokenBudget
  OBVIOUS
<1>6. h[1].role = "user" => 1 \in starts
  BY <1>1
<1> HIDE DEF starts, fits
<1>7. Min(starts) \in starts /\ \A k \in starts : Min(starts) <= k
  BY <1>1, <1>2, MinIsLeast
<1>8. CASE Min(starts) \in fits
  <2>1. TrimToBudget(h) = h /\ h = SubSeq(h, 1, Len(h))
    BY <1>2, <1>3, <1>8, SubSeqFull
  <2>2. h[1].role = "user" => Tokens(h) <= TokenBudget
    <3> SUFFICES ASSUME h[1].role = "user"
                 PROVE  Tokens(h) <= TokenBudget
      OBVIOUS
    <3>1. Min(starts) = 1
      BY <1>4, <1>6, <1>7
    <3> QED
      BY <1>5, <1>8, <2>1, <3>1
  <2>3. 1 \in 1..Len(h)
    BY <1>1
  <2> QED
    BY <2>1, <2>2, <2>3
<1>9. CASE Min(starts) \notin fits /\ fits # {}
  <2>1. Min(fits) \in fits
    BY <1>2, <1>9, MinIsLeast
  <2>2. TrimToBudget(h) = SubSeq(h, Min(fits), Len(h))
    BY <1>3, <1>9
  <2>3. Min(fits) \in 1..Len(h) /\ h[Min(fits)].role = "user" /\ Tokens(TrimToBudget(h)) <= TokenBudget
    BY <1>2, <1>4, <1>5, <2>1, <2>2
  <2> QED
    BY <2>2, <2>3
<1>10. CASE Min(starts) \notin fits /\ fits = {}
  <2>1. Max(starts) = Len(h)
    <3>1. \A k \in starts : k \in Nat /\ k <= Len(h)
      BY <1>1, <1>4
    <3>2. \E x \in starts : \A y \in starts : x >= y
      BY <1>1, <3>1
    <3>3. Max(starts) \in starts /\ \A y \in starts : Max(starts) >= y
      BY <3>2 DEF Max
    <3> QED
      BY <1>1, <3>1, <3>3
  <2>2. TrimToBudget(h) = SubSeq(h, Len(h), Len(h))
    BY <1>3, <1>10, <2>1
  <2>3. Len(h) \in 1..Len(h)
    BY <1>1
  <2> QED
    BY <2>2, <2>3
<1> QED
  BY <1>2, <1>8, <1>9, <1>10

(* The types, and where a turn stands in its rounds.                      *)
WellTyped ==
  /\ history \in Seq(Said) /\ prompt \in Seq(Said) /\ found \in Seq(Said)
  /\ dialogue \in 0..MaxDialogue /\ phase \in {"idle", "asking", "tools"} /\ open \in 0..2
  /\ iteration \in 0..MaxIterations /\ anchor = Len(found) /\ clears \in 0..MaxClears /\ torn \in BOOLEAN
  /\ fate \in {"answered", "broken"} /\ (open > 0 => phase = "tools")
  /\ phase = "tools" => iteration > 0

(* Strict-valid but for the results the running round owes, beginning     *)
(* with a question; while results are owed the calls or their first       *)
(* results are at the end.                                                *)
HistoryIsWhole ==
  ~torn =>
    /\ Strict(history, open)
    /\ history # <<>> => history[1].role = "user"
    /\ phase = "tools" => AwaitsResults(history)

(* The history the question found, the question with it, is still the     *)
(* history's beginning: the anchor cuts it out.                           *)
FoundIsPrefix ==
  ~torn /\ phase # "idle" =>
    /\ Strict(found, 0) /\ found # <<>> /\ found[1].role = "user"
    /\ anchor <= Len(history) /\ found = SubSeq(history, 1, anchor)

(* The prompt of the running turn, likewise, with the question of the     *)
(* turn in it.                                                            *)
PromptIsWhole ==
  phase # "idle" =>
    /\ User(dialogue) \in ToSet(prompt)
    /\ ~torn =>
         /\ Strict(prompt, open) /\ prompt # <<>> /\ prompt[1].role = "user"
         /\ phase = "tools" => AwaitsResults(prompt)
         /\ phase = "asking" /\ iteration = 0 =>
              Tokens(prompt) <= TokenBudget \/ prompt = <<User(dialogue)>>

(* The inductive invariant.                                               *)
HistInv ==
  /\ WellTyped
  /\ HistoryIsWhole
  /\ FoundIsPrefix
  /\ PromptIsWhole
  /\ BrokenTurnLeavesItsQuestion

(* An empty history is strict-valid.                                      *)
LEMMA StrictWhenEmpty == Strict(<<>>, 0)
BY DEF Strict

(* A message added: what stood there stays.                               *)
LEMMA Appended ==
  ASSUME NEW h \in Seq(Said), NEW m \in Said
  PROVE  /\ Append(h, m) \in Seq(Said) /\ Append(h, m) # <<>>
         /\ Len(h) \in Nat /\ Len(Append(h, m)) = Len(h) + 1 /\ Append(h, m)[Len(h) + 1] = m
         /\ h # <<>> => Append(h, m)[1] = h[1]
         /\ h = <<>> => Append(h, m)[1] = m
         /\ ToSet(h) \subseteq ToSet(Append(h, m)) /\ m \in ToSet(Append(h, m))
         /\ \A n \in 0..Len(h) : SubSeq(Append(h, m), 1, n) = SubSeq(h, 1, n)
<1> DEFINE t == Append(h, m)
<1>1. /\ t \in Seq(Said) /\ t # <<>> /\ Len(h) \in Nat /\ Len(t) = Len(h) + 1 /\ t[Len(h) + 1] = m
      /\ \A i \in 1..Len(h) : t[i] = h[i] /\ h[i] \in Said
      /\ DOMAIN t = 1..(Len(h) + 1) /\ DOMAIN h = 1..Len(h)
  BY AppendProperties, LenProperties
<1> HIDE DEF t
<1>2. h # <<>> => t[1] = h[1]
  <2>1. h # <<>> => Len(h) \in Nat \ {0}
    BY EmptySeq
  <2> QED
    BY <1>1, <2>1
<1>3. h = <<>> => t[1] = m
  <2>1. h = <<>> => Len(h) = 0
    BY EmptySeq
  <2> QED
    BY <1>1, <2>1
<1>4. ToSet(h) \subseteq ToSet(t) /\ m \in ToSet(t)
  BY <1>1 DEF ToSet
<1>5. ASSUME NEW n \in 0..Len(h)
      PROVE  SubSeq(t, 1, n) = SubSeq(h, 1, n)
  <2> DEFINE a == SubSeq(t, 1, n)
             b == SubSeq(h, 1, n)
  <2>1. a \in Seq(Said) /\ Len(a) = n /\ \A i \in 1..n : a[i] = t[i]
    BY <1>1, SubSeqProperties
  <2>2. b \in Seq(Said) /\ Len(b) = n /\ \A i \in 1..n : b[i] = h[i]
    BY <1>1, SubSeqProperties
  <2>3. \A i \in 1..n : t[i] = h[i]
    BY <1>1
  <2> HIDE DEF a, b
  <2>4. a = b
    BY <2>1, <2>2, <2>3, SeqEqual
  <2> QED
    BY <2>4 DEF a, b
<1> QED
  BY <1>1, <1>2, <1>3, <1>4, <1>5 DEF t

(* rollback_to: what is left is the history as the question left it,      *)
(* unless somebody cleared it.                                            *)
LEMMA RolledBack ==
  ASSUME HistInv
  PROVE  /\ RollbackTo \in Seq(Said)
         /\ ~torn /\ phase # "idle" => RollbackTo = found
<1> USE DEF HistInv
<1>1. /\ history \in Seq(Said) /\ found \in Seq(Said) /\ anchor = Len(found) /\ Len(history) \in Nat /\ anchor \in Nat
      /\ \A i \in 1..Len(history) : history[i] \in Said
  BY LenProperties DEF WellTyped
<1>2. RollbackTo = SubSeq(history, 1, anchor) \/ RollbackTo = SubSeq(history, 1, Len(history))
  BY DEF RollbackTo
<1>3. RollbackTo \in Seq(Said)
  <2>1. SubSeq(history, 1, Len(history)) \in Seq(Said)
    BY <1>1, SubSeqProperties
  <2>2. anchor < Len(history) => SubSeq(history, 1, anchor) \in Seq(Said)
    BY <1>1, SubSeqProperties
  <2> QED
    BY <2>1, <2>2 DEF RollbackTo
<1>4. ASSUME ~torn, phase # "idle"
      PROVE  RollbackTo = found
  <2>1. anchor <= Len(history) /\ found = SubSeq(history, 1, anchor)
    BY <1>4 DEF FoundIsPrefix
  <2>2. RollbackTo = SubSeq(history, 1, anchor)
    BY <1>1, <2>1 DEF RollbackTo
  <2> QED
    BY <2>1, <2>2
<1> QED
  BY <1>3, <1>4

(* add_assistant, with the reset after ECHO_WINDOW equal answers:         *)
(* strict-valid either way.                                               *)
LEMMA AssistantAdded ==
  ASSUME HistInv, NEW text \in Replies, AddAssistant(text)
  PROVE  /\ history' \in Seq(Said)
         /\ ~torn /\ phase # "idle" /\ open = 0 =>
              Strict(history', 0) /\ (history' # <<>> => history'[1].role = "user")
<1> DEFINE h == Append(history, Text(text))
<1>1. Text(text) \in Said /\ Text(text).role = "assistant"
  BY SaidIsTyped
<1>2. history' = <<>> \/ history' = h
  BY DEF AddAssistant
<1>3. history \in Seq(Said) /\ h \in Seq(Said) /\ <<>> \in Seq(Said)
  BY <1>1, Appended DEF HistInv, WellTyped
<1>4. ASSUME ~torn, phase # "idle", open = 0
      PROVE  Strict(h, 0) /\ h[1].role = "user"
  <2>1. Strict(history, 0)
    BY <1>4 DEF HistInv, HistoryIsWhole
  <2>2. Strict(h, 0)
    BY <1>1, <1>3, <2>1, StrictWithText
  <2>3. history # <<>>
    <3>1. found # <<>> /\ anchor = Len(found) /\ found \in Seq(Said) /\ anchor <= Len(history)
      BY <1>4 DEF HistInv, FoundIsPrefix, WellTyped
    <3>2. Len(found) \in Nat \ {0}
      BY <3>1, EmptySeq
    <3>3. history # <<>> \/ Len(history) = 0
      BY EmptySeq
    <3> QED
      BY <3>1, <3>2, <3>3
  <2>4. history[1].role = "user"
    BY <1>4, <2>3 DEF HistInv, HistoryIsWhole
  <2> QED
    BY <1>1, <1>3, <2>2, <2>3, <2>4, Appended
<1> HIDE DEF h
<1> QED
  BY <1>2, <1>3, <1>4, StrictWhenEmpty

(* run_default_dialogue_turn: the question is last in the history, the    *)
(* anchor behind it, and the prompt keeps it and whole turns before it.   *)
LEMMA QuestionAsked ==
  ASSUME HistInv, AskQuestion
  PROVE  /\ history' \in Seq(Said) /\ history' # <<>> /\ history'[Len(history')] = User(dialogue')
         /\ anchor' = Len(history') /\ found' = history' /\ dialogue' \in 1..MaxDialogue
         /\ prompt' \in Seq(Said) /\ User(dialogue') \in ToSet(prompt')
         /\ ~torn =>
              /\ Strict(history', 0) /\ history'[1].role = "user"
              /\ Strict(prompt', 0) /\ prompt' # <<>> /\ prompt'[1].role = "user"
              /\ Tokens(prompt') <= TokenBudget \/ prompt' = <<User(dialogue')>>
<1> DEFINE q == User(dialogue')
           h == history'
<1> USE DEF HistInv
<1>1. /\ dialogue' = dialogue + 1 /\ history' = Append(history, q) /\ prompt' = TrimToBudget(h)
      /\ anchor' = Len(h) /\ found' = h /\ phase = "idle" /\ dialogue < MaxDialogue
  BY Zenon DEF AskQuestion
<1>2. dialogue' \in 1..MaxDialogue /\ q \in Said /\ q.role = "user" /\ q \notin {Tool}
  <2>1. dialogue' \in 1..MaxDialogue
    BY <1>1, HistoryAssumption DEF WellTyped
  <2>2. Tool.role # "user"
    BY DEF Tool
  <2> QED
    BY <2>1, <2>2, SaidIsTyped
<1> HIDE DEF q
<1>3. /\ h \in Seq(Said) /\ h # <<>> /\ h[Len(h)] = q /\ Len(h) \in Nat \ {0}
  <2>1. history \in Seq(Said)
    BY DEF WellTyped
  <2> QED
    BY <1>1, <1>2, <2>1, Appended
<1>4. PICK a \in 1..Len(h) :
        /\ TrimToBudget(h) = SubSeq(h, a, Len(h))
        /\ h[1].role = "user" =>
             /\ h[a].role = "user"
             /\ Tokens(TrimToBudget(h)) <= TokenBudget \/ a = Len(h)
  BY <1>2, <1>3, TrimKeepsTheQuestion
<1>5. /\ prompt' = SubSeq(h, a, Len(h)) /\ prompt' \in Seq(Said) /\ Len(prompt') = Len(h) - a + 1
      /\ \A i \in 1..Len(prompt') : prompt'[i] = h[a + i - 1]
      /\ DOMAIN prompt' = 1..Len(prompt')
  <2>1. \A i \in a..Len(h) : h[i] \in Said
    BY <1>3, LenProperties
  <2> QED
    BY <1>1, <1>3, <1>4, <2>1, SubSeqProperties, LenProperties
<1>6. prompt' # <<>> /\ prompt'[1] = h[a] /\ prompt'[Len(prompt')] = q
  <2>1. Len(prompt') \in Nat \ {0} /\ a + 1 - 1 = a /\ a + Len(prompt') - 1 = Len(h)
    BY <1>3, <1>5
  <2> QED
    <3>1. 1 \in 1..Len(prompt') /\ Len(prompt') \in 1..Len(prompt')
      BY <2>1
    <3>2. prompt'[1] = h[a] /\ prompt'[Len(prompt')] = h[Len(h)]
      BY <1>5, <2>1, <3>1
    <3>3. prompt' # <<>>
      BY <1>5, <2>1, EmptySeq
    <3> QED
      BY <1>3, <3>2, <3>3
<1>7. q \in ToSet(prompt')
  <2>1. Len(prompt') \in DOMAIN prompt'
    BY <1>3, <1>5
  <2> QED
    BY <1>6, <2>1 DEF ToSet
<1>8. ASSUME ~torn
      PROVE  /\ Strict(h, 0) /\ h[1].role = "user"
             /\ Strict(prompt', 0) /\ prompt'[1].role = "user"
             /\ Tokens(prompt') <= TokenBudget \/ prompt' = <<q>>
  <2>1. history \in Seq(Said) /\ open = 0 /\ Strict(history, 0)
    BY <1>1, <1>8 DEF WellTyped, HistoryIsWhole
  <2>2. Strict(h, 0)
    BY <1>1, <1>2, <2>1, StrictWithText
  <2>3. h[1].role = "user"
    BY <1>1, <1>2, <1>8, <2>1, Appended DEF HistoryIsWhole
  <2>4. h[a].role = "user" /\ h[a] # Tool
    <3>1. Tool.role # "user"
      BY DEF Tool
    <3> QED
      BY <1>4, <2>3, <3>1
  <2>5. Strict(prompt', 0)
    BY <1>3, <1>5, <2>2, <2>4, StrictSuffix
  <2>6. a = Len(h) => prompt' = <<q>>
    <3> SUFFICES ASSUME a = Len(h)
                 PROVE  prompt' = <<q>>
      OBVIOUS
    <3>1. Len(prompt') = 1
      BY <1>3, <1>5
    <3>2. <<q>> \in Seq(Said) /\ Len(<<q>>) = 1 /\ <<q>>[1] = q
      BY <1>2
    <3>3. prompt'[1] = q
      BY <1>6, <3>1
    <3> QED
      <4>1. \A i \in 1..Len(prompt') : prompt'[i] = <<q>>[i]
        <5>1. \A i \in 1..1 : i = 1
          OBVIOUS
        <5> QED
          BY <3>1, <3>2, <3>3, <5>1
      <4> QED
        BY <1>5, <3>1, <3>2, <4>1, SeqEqual
  <2> QED
    BY <1>1, <1>4, <1>6, <2>2, <2>3, <2>4, <2>5, <2>6
<1> QED
  BY <1>1, <1>2, <1>3, <1>5, <1>6, <1>7, <1>8 DEF q

(* A message of a round is added to the history and to the prompt alike,  *)
(* and the anchor stays in front of it.                                   *)
LEMMA RoundAdded ==
  ASSUME HistInv, NEW m \in Said,
         history' = Append(history, m), prompt' = Append(prompt, m)
  PROVE  /\ history' \in Seq(Said) /\ prompt' \in Seq(Said)
         /\ history' # <<>> /\ history'[Len(history')] = m
         /\ prompt' # <<>> /\ prompt'[Len(prompt')] = m
         /\ ~torn /\ phase # "idle" =>
              /\ history'[1].role = "user" /\ prompt'[1].role = "user"
              /\ Strict(found, 0) /\ found # <<>> /\ found[1].role = "user"
              /\ anchor <= Len(history') /\ found = SubSeq(history', 1, anchor)
         /\ ToSet(prompt) \subseteq ToSet(prompt')
<1> USE DEF HistInv
<1>1. history \in Seq(Said) /\ prompt \in Seq(Said) /\ found \in Seq(Said)
  BY DEF WellTyped
<1>2. ASSUME ~torn, phase # "idle"
      PROVE  /\ history'[1].role = "user" /\ prompt'[1].role = "user"
             /\ Strict(found, 0) /\ found # <<>> /\ found[1].role = "user"
             /\ anchor <= Len(history') /\ found = SubSeq(history', 1, anchor)
  <2>1. /\ Strict(found, 0) /\ found # <<>> /\ found[1].role = "user"
        /\ anchor <= Len(history) /\ found = SubSeq(history, 1, anchor) /\ anchor = Len(found)
    BY <1>2 DEF FoundIsPrefix, WellTyped
  <2>2. anchor \in Nat \ {0} /\ Len(history) \in Nat
    BY <1>1, <2>1, EmptySeq, LenProperties
  <2>3. history # <<>>
    <3>1. Len(<<>>) = 0
      BY EmptySeq
    <3> QED
      BY <2>1, <2>2, <3>1
  <2>4. history[1].role = "user"
    BY <1>2, <2>3 DEF HistoryIsWhole
  <2>5. prompt # <<>> /\ prompt[1].role = "user"
    BY <1>2 DEF PromptIsWhole
  <2>6. history'[1].role = "user" /\ prompt'[1].role = "user"
    <3> HIDE DEF HistInv
    <3>1. history'[1] = history[1]
      BY <1>1, <2>3, Appended
    <3>2. prompt'[1] = prompt[1]
      BY <1>1, <2>5, Appended
    <3> QED
      BY <2>4, <2>5, <3>1, <3>2
  <2>7. anchor \in 0..Len(history) /\ Len(history') = Len(history) + 1
    <3> HIDE DEF HistInv
    <3>1. Len(history') = Len(history) + 1
      BY <1>1, Appended
    <3> QED
      BY <2>1, <2>2, <3>1
  <2>8. SubSeq(history', 1, anchor) = SubSeq(history, 1, anchor)
    BY <1>1, <2>7, Appended
  <2> QED
    <3>1. anchor <= Len(history')
      BY <2>2, <2>7
    <3> QED
      BY <2>1, <2>6, <2>8, <3>1
<1>3. /\ history' \in Seq(Said) /\ history' # <<>> /\ history'[Len(history')] = m
      /\ prompt' \in Seq(Said) /\ prompt' # <<>> /\ prompt'[Len(prompt')] = m
      /\ ToSet(prompt) \subseteq ToSet(prompt')
  BY <1>1, Appended
<1> QED
  BY <1>2, <1>3

(* Every step keeps the types, ...                                        *)
LEMMA TypedStep ==
  ASSUME HistInv, [HistNext]_histVars
  PROVE  WellTyped'
<1> USE DEF HistInv
<1>0. MaxDialogue \in Nat \ {0} /\ MaxIterations \in Nat \ {0} /\ MaxClears \in Nat
  BY HistoryAssumption
<1>1. CASE AskQuestion
  <2>1. /\ history' \in Seq(Said) /\ prompt' \in Seq(Said) /\ found' = history' /\ anchor' = Len(history')
        /\ dialogue' \in 1..MaxDialogue
    BY <1>1, QuestionAsked
  <2>2. phase = "idle" /\ phase' = "asking" /\ iteration' = 0 /\ UNCHANGED <<open, clears, torn, fate>>
    BY <1>1, Zenon DEF AskQuestion
  <2> QED
    BY <1>0, <2>1, <2>2 DEF WellTyped
<1>2. ASSUME NEW text \in Replies, ModelAnswers(text)
      PROVE  WellTyped'
  <2>1. history' \in Seq(Said)
    BY <1>2, AssistantAdded DEF ModelAnswers
  <2>2. phase' = "idle" /\ open' = 0 /\ fate' = "answered" /\ UNCHANGED <<prompt, dialogue, iteration, anchor, clears, torn, found>>
    BY <1>2, Zenon DEF ModelAnswers, TurnEnds
  <2> QED
    BY <2>1, <2>2 DEF WellTyped
<1>3. ASSUME NEW text \in Replies, TemplateAnswers(text)
      PROVE  WellTyped'
  <2>1. history' \in Seq(Said)
    BY <1>3, AssistantAdded DEF TemplateAnswers
  <2>2. phase' = "idle" /\ open' = 0 /\ fate' = "answered" /\ UNCHANGED <<prompt, dialogue, iteration, anchor, clears, torn, found>>
    BY <1>3, Zenon DEF TemplateAnswers, TurnEnds
  <2> QED
    BY <2>1, <2>2 DEF WellTyped
<1>4. ASSUME NEW n \in 1..2, ModelCallsTools(n)
      PROVE  WellTyped'
  <2>1. history' \in Seq(Said) /\ prompt' \in Seq(Said)
    BY <1>4, RoundAdded, SaidIsTyped DEF ModelCallsTools
  <2>2. /\ phase' = "tools" /\ open' = n /\ iteration' = iteration + 1 /\ iteration < MaxIterations
        /\ UNCHANGED <<dialogue, anchor, clears, torn, fate, found>>
    BY <1>4, Zenon DEF ModelCallsTools
  <2> QED
    BY <1>0, <2>1, <2>2 DEF WellTyped
<1>5. CASE ToolReturns
  <2>1. history' \in Seq(Said) /\ prompt' \in Seq(Said)
    BY <1>5, RoundAdded, SaidIsTyped DEF ToolReturns
  <2>2. /\ open > 0 /\ open' = open - 1 /\ phase = "tools"
        /\ UNCHANGED <<phase, dialogue, iteration, anchor, clears, torn, fate, found>>
    BY <1>5, Zenon DEF ToolReturns
  <2> QED
    BY <2>1, <2>2 DEF WellTyped
<1>6. CASE AskAgain
  BY <1>6 DEF AskAgain, WellTyped
<1>7. CASE IterationLimit
  <2>1. history' \in Seq(Said)
    BY <1>7, RolledBack DEF IterationLimit
  <2>2. phase' = "idle" /\ open' = 0 /\ fate' = "broken" /\ UNCHANGED <<prompt, dialogue, iteration, anchor, clears, torn, found>>
    BY <1>7, Zenon DEF IterationLimit, TurnEnds
  <2> QED
    BY <2>1, <2>2 DEF WellTyped
<1>8. CASE TurnBreaks
  <2>1. history' \in Seq(Said)
    BY <1>8, RolledBack DEF TurnBreaks
  <2>2. phase' = "idle" /\ open' = 0 /\ fate' = "broken" /\ UNCHANGED <<prompt, dialogue, iteration, anchor, clears, torn, found>>
    BY <1>8, Zenon DEF TurnBreaks, TurnEnds
  <2> QED
    BY <2>1, <2>2 DEF WellTyped
<1>9. CASE ClearHistory
  <2>1. history' \in Seq(Said)
    BY <1>9 DEF ClearHistory
  <2>2. /\ clears < MaxClears /\ clears' = clears + 1 /\ torn' \in BOOLEAN /\ fate' = "answered"
        /\ UNCHANGED <<prompt, dialogue, phase, open, iteration, anchor, found>>
    BY <1>9 DEF ClearHistory
  <2> QED
    BY <1>0, <2>1, <2>2 DEF WellTyped
<1>10. CASE UNCHANGED histVars
  BY <1>10 DEF histVars, WellTyped
<1> QED
  BY <1>1, <1>2, <1>3, <1>4, <1>5, <1>6, <1>7, <1>8, <1>9, <1>10 DEF HistNext

(* ... the history strict-valid: a round pays its results before the next *)
(* question or answer, or is rolled back whole, ...                       *)
LEMMA HistoryStep ==
  ASSUME HistInv, [HistNext]_histVars
  PROVE  HistoryIsWhole'
<1> USE DEF HistInv
<1>0. history \in Seq(Said) /\ open \in 0..2 /\ (open > 0 => phase = "tools") /\ torn \in BOOLEAN
  BY DEF WellTyped
<1>1. CASE AskQuestion
  <2>1. ~torn => Strict(history', 0) /\ history'[1].role = "user"
    BY <1>1, QuestionAsked
  <2>2. phase = "idle" /\ phase' = "asking" /\ UNCHANGED <<open, torn>>
    BY <1>1, Zenon DEF AskQuestion
  <2>3. open' = 0
    BY <1>0, <2>2
  <2> QED
    BY <2>1, <2>2, <2>3 DEF HistoryIsWhole
<1>2. ASSUME NEW text \in Replies, ModelAnswers(text)
      PROVE  HistoryIsWhole'
  <2>1. AddAssistant(text) /\ phase = "asking" /\ phase' = "idle" /\ open' = 0 /\ torn' = torn
    BY <1>2, Zenon DEF ModelAnswers, TurnEnds
  <2>2. open = 0
    BY <1>0, <2>1
  <2>3. ~torn => Strict(history', 0) /\ (history' # <<>> => history'[1].role = "user")
    BY <2>1, <2>2, AssistantAdded
  <2> QED
    BY <2>1, <2>3 DEF HistoryIsWhole
<1>3. ASSUME NEW text \in Replies, TemplateAnswers(text)
      PROVE  HistoryIsWhole'
  <2>1. AddAssistant(text) /\ phase = "tools" /\ open = 0 /\ phase' = "idle" /\ open' = 0 /\ torn' = torn
    BY <1>3, Zenon DEF TemplateAnswers, TurnEnds
  <2>2. open = 0
    BY <1>0, <2>1
  <2>3. ~torn => Strict(history', 0) /\ (history' # <<>> => history'[1].role = "user")
    BY <2>1, <2>2, AssistantAdded
  <2> QED
    BY <2>1, <2>3 DEF HistoryIsWhole
<1>4. ASSUME NEW n \in 1..2, ModelCallsTools(n)
      PROVE  HistoryIsWhole'
  <2>1. /\ history' = Append(history, Calls(n)) /\ prompt' = Append(prompt, Calls(n)) /\ open' = n
        /\ phase = "asking" /\ phase' = "tools" /\ torn' = torn
    BY <1>4, Zenon DEF ModelCallsTools
  <2>2. Calls(n) \in Said /\ Calls(n).role = "calls" /\ open = 0
    BY <1>0, <2>1, SaidIsTyped
  <2>3. ~torn => Strict(history', n)
    BY <1>0, <2>1, <2>2, StrictWithCalls DEF HistoryIsWhole
  <2>4. ~torn => history'[1].role = "user"
    BY <2>1, <2>2, RoundAdded
  <2>5. AwaitsResults(history')
    BY <2>1, <2>2, RoundAdded DEF AwaitsResults
  <2> QED
    BY <2>1, <2>3, <2>4, <2>5 DEF HistoryIsWhole
<1>5. CASE ToolReturns
  <2>1. /\ history' = Append(history, Tool) /\ prompt' = Append(prompt, Tool) /\ open > 0 /\ open' = open - 1
        /\ phase = "tools" /\ phase' = "tools" /\ torn' = torn
    BY <1>5, Zenon DEF ToolReturns
  <2>2. Tool \in Said /\ Tool.role = "tool" /\ open \in 1..2
    BY <1>0, <2>1, SaidIsTyped
  <2>3. ~torn => Strict(history', open - 1)
    BY <1>0, <2>1, <2>2, StrictWithTool DEF HistoryIsWhole
  <2>4. ~torn => history'[1].role = "user"
    BY <2>1, <2>2, RoundAdded
  <2>5. AwaitsResults(history')
    BY <2>1, <2>2, RoundAdded DEF AwaitsResults
  <2> QED
    BY <2>1, <2>3, <2>4, <2>5 DEF HistoryIsWhole
<1>6. CASE AskAgain
  BY <1>6 DEF AskAgain, HistoryIsWhole
<1>7. CASE IterationLimit
  <2>1. history' = RollbackTo /\ phase = "tools" /\ phase' = "idle" /\ open' = 0 /\ torn' = torn
    BY <1>7, Zenon DEF IterationLimit, TurnEnds
  <2>2. ~torn => history' = found /\ Strict(found, 0) /\ found[1].role = "user"
    BY <2>1, RolledBack DEF FoundIsPrefix
  <2> QED
    BY <2>1, <2>2 DEF HistoryIsWhole
<1>8. CASE TurnBreaks
  <2>1. history' = RollbackTo /\ phase # "idle" /\ phase' = "idle" /\ open' = 0 /\ torn' = torn
    BY <1>8, Zenon DEF TurnBreaks, TurnEnds
  <2>2. ~torn => history' = found /\ Strict(found, 0) /\ found[1].role = "user"
    BY <2>1, RolledBack DEF FoundIsPrefix
  <2> QED
    BY <2>1, <2>2 DEF HistoryIsWhole
<1>9. CASE ClearHistory
  <2>1. history' = <<>> /\ torn' = (phase # "idle") /\ UNCHANGED <<phase, open>>
    BY <1>9, Zenon DEF ClearHistory
  <2>2. ~torn' => phase = "idle" /\ open' = 0
    <3>1. ~torn' => phase = "idle"
      BY <2>1
    <3>2. phase = "idle" => open = 0
      BY <1>0
    <3> QED
      BY <2>1, <3>1, <3>2
  <2> QED
    BY <2>1, <2>2, StrictWhenEmpty DEF HistoryIsWhole
<1>10. CASE UNCHANGED histVars
  BY <1>10 DEF histVars, HistoryIsWhole
<1> QED
  BY <1>1, <1>2, <1>3, <1>4, <1>5, <1>6, <1>7, <1>8, <1>9, <1>10 DEF HistNext

(* ... the anchor, ...                                                    *)
LEMMA FoundStep ==
  ASSUME HistInv, [HistNext]_histVars
  PROVE  FoundIsPrefix'
<1> USE DEF HistInv
<1>1. CASE AskQuestion
  <2>1. /\ history' \in Seq(Said) /\ history' # <<>> /\ anchor' = Len(history') /\ found' = history'
        /\ ~torn => Strict(history', 0) /\ history'[1].role = "user"
    BY <1>1, QuestionAsked
  <2>2. Len(history') \in Nat /\ SubSeq(history', 1, Len(history')) = history' /\ torn' = torn
    BY <1>1, <2>1, SubSeqFull, LenProperties DEF AskQuestion
  <2>3. anchor' <= Len(history')
    BY <2>1, <2>2
  <2> QED
    BY <2>1, <2>2, <2>3 DEF FoundIsPrefix
<1>2. ASSUME NEW text \in Replies, ModelAnswers(text)
      PROVE  FoundIsPrefix'
  <2>1. phase' = "idle"
    BY <1>2, Zenon DEF ModelAnswers, TurnEnds
  <2> QED
    BY <2>1 DEF FoundIsPrefix
<1>3. ASSUME NEW text \in Replies, TemplateAnswers(text)
      PROVE  FoundIsPrefix'
  <2>1. phase' = "idle"
    BY <1>3, Zenon DEF TemplateAnswers, TurnEnds
  <2> QED
    BY <2>1 DEF FoundIsPrefix
<1>4. ASSUME NEW n \in 1..2, ModelCallsTools(n)
      PROVE  FoundIsPrefix'
  <2>1. /\ history' = Append(history, Calls(n)) /\ prompt' = Append(prompt, Calls(n))
        /\ phase = "asking" /\ UNCHANGED <<torn, anchor, found>>
    BY <1>4, Zenon DEF ModelCallsTools
  <2>2. Calls(n) \in Said
    BY SaidIsTyped
  <2>3. ~torn => /\ Strict(found, 0) /\ found # <<>> /\ found[1].role = "user"
                 /\ anchor <= Len(history') /\ found = SubSeq(history', 1, anchor)
    BY <2>1, <2>2, RoundAdded
  <2> QED
    BY <2>1, <2>3 DEF FoundIsPrefix
<1>5. CASE ToolReturns
  <2>1. /\ history' = Append(history, Tool) /\ prompt' = Append(prompt, Tool)
        /\ phase = "tools" /\ UNCHANGED <<torn, anchor, found>>
    BY <1>5, Zenon DEF ToolReturns
  <2>2. Tool \in Said
    BY SaidIsTyped
  <2>3. ~torn => /\ Strict(found, 0) /\ found # <<>> /\ found[1].role = "user"
                 /\ anchor <= Len(history') /\ found = SubSeq(history', 1, anchor)
    BY <2>1, <2>2, RoundAdded
  <2> QED
    BY <2>1, <2>3 DEF FoundIsPrefix
<1>6. CASE AskAgain
  BY <1>6 DEF AskAgain, FoundIsPrefix
<1>7. CASE IterationLimit
  <2>1. phase' = "idle"
    BY <1>7, Zenon DEF IterationLimit, TurnEnds
  <2> QED
    BY <2>1 DEF FoundIsPrefix
<1>8. CASE TurnBreaks
  <2>1. phase' = "idle"
    BY <1>8, Zenon DEF TurnBreaks, TurnEnds
  <2> QED
    BY <2>1 DEF FoundIsPrefix
<1>9. CASE ClearHistory
  <2>1. torn' = (phase # "idle") /\ phase' = phase
    BY <1>9, Zenon DEF ClearHistory
  <2> QED
    BY <2>1 DEF FoundIsPrefix
<1>10. CASE UNCHANGED histVars
  BY <1>10 DEF histVars, FoundIsPrefix
<1> QED
  BY <1>1, <1>2, <1>3, <1>4, <1>5, <1>6, <1>7, <1>8, <1>9, <1>10 DEF HistNext

(* ... the prompt, ...                                                    *)
LEMMA PromptStep ==
  ASSUME HistInv, [HistNext]_histVars
  PROVE  PromptIsWhole'
<1> USE DEF HistInv
<1>0. /\ prompt \in Seq(Said) /\ open \in 0..2 /\ (open > 0 => phase = "tools") /\ torn \in BOOLEAN
      /\ iteration \in Nat /\ (phase = "tools" => iteration > 0)
  BY DEF WellTyped
<1>1. CASE AskQuestion
  <2>1. /\ User(dialogue') \in ToSet(prompt')
        /\ ~torn => /\ Strict(prompt', 0) /\ prompt' # <<>> /\ prompt'[1].role = "user"
                    /\ Tokens(prompt') <= TokenBudget \/ prompt' = <<User(dialogue')>>
    BY <1>1, QuestionAsked
  <2>2. phase = "idle" /\ phase' = "asking" /\ UNCHANGED <<open, torn>>
    BY <1>1, Zenon DEF AskQuestion
  <2>3. open' = 0
    BY <1>0, <2>2
  <2> QED
    BY <2>1, <2>2, <2>3 DEF PromptIsWhole
<1>2. ASSUME NEW text \in Replies, ModelAnswers(text)
      PROVE  PromptIsWhole'
  <2>1. phase' = "idle"
    BY <1>2, Zenon DEF ModelAnswers, TurnEnds
  <2> QED
    BY <2>1 DEF PromptIsWhole
<1>3. ASSUME NEW text \in Replies, TemplateAnswers(text)
      PROVE  PromptIsWhole'
  <2>1. phase' = "idle"
    BY <1>3, Zenon DEF TemplateAnswers, TurnEnds
  <2> QED
    BY <2>1 DEF PromptIsWhole
<1>4. ASSUME NEW n \in 1..2, ModelCallsTools(n)
      PROVE  PromptIsWhole'
  <2>1. /\ history' = Append(history, Calls(n)) /\ prompt' = Append(prompt, Calls(n)) /\ open' = n
        /\ phase = "asking" /\ phase' = "tools" /\ UNCHANGED <<torn, dialogue>>
    BY <1>4, Zenon DEF ModelCallsTools
  <2>2. Calls(n) \in Said /\ Calls(n).role = "calls" /\ open = 0
    BY <1>0, <2>1, SaidIsTyped
  <2>3. ~torn => Strict(prompt', n)
    BY <1>0, <2>1, <2>2, StrictWithCalls DEF PromptIsWhole
  <2>4. /\ prompt' # <<>> /\ prompt'[Len(prompt')] = Calls(n) /\ ToSet(prompt) \subseteq ToSet(prompt')
        /\ ~torn => prompt'[1].role = "user"
    BY <2>1, <2>2, RoundAdded
  <2>5. AwaitsResults(prompt') /\ User(dialogue) \in ToSet(prompt')
    BY <2>1, <2>2, <2>4 DEF AwaitsResults, PromptIsWhole
  <2> QED
    BY <2>1, <2>3, <2>4, <2>5 DEF PromptIsWhole
<1>5. CASE ToolReturns
  <2>1. /\ history' = Append(history, Tool) /\ prompt' = Append(prompt, Tool) /\ open' = open - 1
        /\ open > 0 /\ phase = "tools" /\ phase' = "tools" /\ UNCHANGED <<torn, dialogue>>
    BY <1>5, Zenon DEF ToolReturns
  <2>2. Tool \in Said /\ Tool.role = "tool" /\ open \in 1..2
    BY <1>0, <2>1, SaidIsTyped
  <2>3. ~torn => Strict(prompt', open - 1)
    BY <1>0, <2>1, <2>2, StrictWithTool DEF PromptIsWhole
  <2>4. /\ prompt' # <<>> /\ prompt'[Len(prompt')] = Tool /\ ToSet(prompt) \subseteq ToSet(prompt')
        /\ ~torn => prompt'[1].role = "user"
    BY <2>1, <2>2, RoundAdded
  <2>5. AwaitsResults(prompt') /\ User(dialogue) \in ToSet(prompt')
    BY <2>1, <2>2, <2>4 DEF AwaitsResults, PromptIsWhole
  <2> QED
    BY <2>1, <2>3, <2>4, <2>5 DEF PromptIsWhole
<1>6. CASE AskAgain
  <2>1. /\ phase = "tools" /\ open = 0 /\ phase' = "asking"
        /\ UNCHANGED <<prompt, dialogue, open, iteration, torn>>
    BY <1>6, Zenon DEF AskAgain
  <2>2. iteration' # 0
    BY <1>0, <2>1
  <2> QED
    BY <2>1, <2>2 DEF PromptIsWhole
<1>7. CASE IterationLimit
  <2>1. phase' = "idle"
    BY <1>7, Zenon DEF IterationLimit, TurnEnds
  <2> QED
    BY <2>1 DEF PromptIsWhole
<1>8. CASE TurnBreaks
  <2>1. phase' = "idle"
    BY <1>8, Zenon DEF TurnBreaks, TurnEnds
  <2> QED
    BY <2>1 DEF PromptIsWhole
<1>9. CASE ClearHistory
  <2>1. torn' = (phase # "idle") /\ UNCHANGED <<phase, prompt, dialogue>>
    BY <1>9, Zenon DEF ClearHistory
  <2> QED
    BY <2>1 DEF PromptIsWhole
<1>10. CASE UNCHANGED histVars
  BY <1>10 DEF histVars, PromptIsWhole
<1> QED
  BY <1>1, <1>2, <1>3, <1>4, <1>5, <1>6, <1>7, <1>8, <1>9, <1>10 DEF HistNext

(* ... and what a broken turn leaves.                                     *)
LEMMA BrokenStep ==
  ASSUME HistInv, [HistNext]_histVars
  PROVE  BrokenTurnLeavesItsQuestion'
<1> USE DEF HistInv
<1>1. CASE AskQuestion
  <2>1. phase' = "asking"
    BY <1>1, Zenon DEF AskQuestion, TurnEnds
  <2> QED
    BY <2>1 DEF BrokenTurnLeavesItsQuestion
<1>2. ASSUME NEW text \in Replies, ModelAnswers(text)
      PROVE  BrokenTurnLeavesItsQuestion'
  <2>1. fate' = "answered"
    BY <1>2, Zenon DEF ModelAnswers, TurnEnds
  <2> QED
    BY <2>1 DEF BrokenTurnLeavesItsQuestion
<1>3. ASSUME NEW text \in Replies, TemplateAnswers(text)
      PROVE  BrokenTurnLeavesItsQuestion'
  <2>1. fate' = "answered"
    BY <1>3, Zenon DEF TemplateAnswers, TurnEnds
  <2> QED
    BY <2>1 DEF BrokenTurnLeavesItsQuestion
<1>4. ASSUME NEW n \in 1..2, ModelCallsTools(n)
      PROVE  BrokenTurnLeavesItsQuestion'
  <2>1. phase' = "tools"
    BY <1>4, Zenon DEF ModelCallsTools, TurnEnds
  <2> QED
    BY <2>1 DEF BrokenTurnLeavesItsQuestion
<1>5. CASE ToolReturns
  <2>1. phase' = "tools"
    BY <1>5, Zenon DEF ToolReturns, TurnEnds
  <2> QED
    BY <2>1 DEF BrokenTurnLeavesItsQuestion
<1>6. CASE AskAgain
  <2>1. phase' = "asking"
    BY <1>6, Zenon DEF AskAgain, TurnEnds
  <2> QED
    BY <2>1 DEF BrokenTurnLeavesItsQuestion
<1>7. CASE IterationLimit
  <2>1. history' = RollbackTo /\ phase = "tools" /\ UNCHANGED <<torn, found>>
    BY <1>7, Zenon DEF IterationLimit
  <2>2. ~torn => history' = found
    BY <2>1, RolledBack
  <2> QED
    BY <2>1, <2>2 DEF BrokenTurnLeavesItsQuestion
<1>8. CASE TurnBreaks
  <2>1. history' = RollbackTo /\ phase # "idle" /\ UNCHANGED <<torn, found>>
    BY <1>8, Zenon DEF TurnBreaks
  <2>2. ~torn => history' = found
    BY <2>1, RolledBack
  <2> QED
    BY <2>1, <2>2 DEF BrokenTurnLeavesItsQuestion
<1>9. CASE ClearHistory
  <2>1. fate' = "answered"
    BY <1>9, Zenon DEF ClearHistory, TurnEnds
  <2> QED
    BY <2>1 DEF BrokenTurnLeavesItsQuestion
<1>10. CASE UNCHANGED histVars
  BY <1>10 DEF histVars, BrokenTurnLeavesItsQuestion
<1> QED
  BY <1>1, <1>2, <1>3, <1>4, <1>5, <1>6, <1>7, <1>8, <1>9, <1>10 DEF HistNext

(* It implies what the run checks.                                        *)
LEMMA HistInvIsUsable ==
  ASSUME HistInv
  PROVE  HistoryIsUsable
<1> USE DEF HistInv
<1>1. HistTypeOK
  <2>1. \A m \in ToSet(history) \cup ToSet(prompt) : m \in Said
    BY LenProperties DEF WellTyped, ToSet
  <2> QED
    BY <2>1 DEF WellTyped, HistTypeOK, Said
<1>2. UntornHistoryIsStrict
  BY DEF UntornHistoryIsStrict, HistoryIsWhole
<1>3. PromptIsStrict
  BY DEF PromptIsStrict, PromptIsWhole
<1>4. PromptFits
  BY DEF PromptFits, PromptIsWhole
<1> QED
  BY <1>1, <1>2, <1>3, <1>4 DEF HistoryIsUsable

(* The history and the prompt (agent session.py, app_mode.py,             *)
(* tools/runner.py): for any number of turns, rounds and clears, any      *)
(* budget and any echo window, the history is strict-valid but for what   *)
(* the running round owes, and the anchor still cuts out what the         *)
(* question found.                                                        *)
THEOREM HistInvInvariant == HistSpec => []HistInv
<1>1. HistInit => HistInv
  <2> SUFFICES ASSUME HistInit PROVE HistInv
    OBVIOUS
  <2>1. WellTyped
    <3>1. /\ 0 \in 0..MaxDialogue /\ 0 \in 0..MaxIterations /\ 0 \in 0..MaxClears /\ 0 \in 0..2 /\ ~(0 > 0)
          /\ <<>> \in Seq(Said) /\ Len(<<>>) = 0
      BY HistoryAssumption, EmptySeq
    <3> QED
      BY <3>1 DEF HistInit, WellTyped
  <2>2. HistoryIsWhole /\ FoundIsPrefix /\ PromptIsWhole
    BY StrictWhenEmpty DEF HistInit, HistoryIsWhole, FoundIsPrefix, PromptIsWhole
  <2>3. BrokenTurnLeavesItsQuestion
    BY DEF HistInit, BrokenTurnLeavesItsQuestion
  <2> QED
    BY <2>1, <2>2, <2>3 DEF HistInv
<1>2. HistInv /\ [HistNext]_histVars => HistInv'
  BY TypedStep, HistoryStep, FoundStep, PromptStep, BrokenStep DEF HistInv
<1> QED
  BY <1>1, <1>2, PTL DEF HistSpec

(* For any number of turns, rounds and clears and any budget: unless      *)
(* somebody clears the history under a running turn, it stays one that a  *)
(* strict server accepts, the prompt is one as well, begins with a        *)
(* question and fits, and a turn that breaks leaves the history as it was *)
(* after its question.                                                    *)
THEOREM HistoryUsable == HistSpec => []HistoryIsUsable
BY HistInvInvariant, HistInvIsUsable, PTL
=============================================================================
