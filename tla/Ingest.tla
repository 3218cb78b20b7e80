------------------------------- MODULE Ingest -------------------------------
(***************************************************************************)
(* How one stream's bundles reach the landing directory when they are      *)
(* pushed: by PUT /diode/<file> (diode.go) and by the SFTP poller          *)
(* (sftp_receive.go), both under ingestMu and within one quota of          *)
(* unverified bytes, while the importer moves bundles between the          *)
(* directories the quota counts.                                           *)
(*                                                                         *)
(* A bundle is an archive and a signature (its manifest behaves as the     *)
(* archive does), each one unit of storage.  The import is that of         *)
(* HighImport, one bundle moved per step, under importMu.                  *)
(***************************************************************************)
EXTENDS Integers, FiniteSets

CONSTANTS
  MaxBundle,  \* bound: bundles 1 .. MaxBundle exist
  Quota,      \* diodeMaxUnverifiedBytes in units
  Puts,       \* TRUE: an HTTP sender uploads too, any file at any time
  MaxCrashes  \* bound on restarts of the high side

VARIABLES
  remote,      \* files promoted in the SFTP folder
  landing,     \* the landing directory: file -> "none", "put", "bad" or "sftp"
  temps,       \* hidden ".<name>" downloads in the landing directory
  quarantine,  \* future bundles moved out of landing
  rejected,    \* units in the rejected directory
  taken,       \* last imported sequence
  op,          \* the transfer that holds ingestMu
  poll,        \* the poller: "idle", "fetch" or "import", and the bundles left
  crashes

ingestVars == <<remote, landing, temps, quarantine, rejected, taken, op, poll, crashes>>

Numbers == 1 .. MaxBundle
Kinds == {"tar", "sig"}
BundleFiles == Numbers \X Kinds
(* Bounds and the quota are numbers.                                        *)
IngestAssumed == MaxBundle \in Nat /\ Quota \in Nat /\ MaxCrashes \in Nat
ASSUME IngestAssumption == IngestAssumed

NoOp == [kind |-> "none", pc |-> "free", at |-> <<0, "tar">>, sum |-> 0]
NoPoll == [pc |-> "idle", todo |-> {}]
FirstOf(S) == CHOOSE n \in S : \A m \in S : n <= m

IngestInit ==
  /\ remote = {} /\ temps = {} /\ quarantine = {} /\ rejected = 0 /\ taken = 0
  /\ landing = [f \in BundleFiles |-> "none"]
  /\ op = NoOp /\ poll = NoPoll /\ crashes = 0

Landed == {f \in BundleFiles : landing[f] # "none"}
Complete(n) == \A k \in Kinds : landing[<<n, k>>] # "none"
Ready == {n \in Numbers : \A k \in Kinds : <<n, k>> \in remote}
importVars == <<landing, quarantine, rejected, taken>>

----------------------------------------------------------------------------
(* pushBundleToSFTP: all files are staged as .writing, then promoted in       *)
(* order; the low side transmits its bundles in order.                      *)
Promote(n, k) ==
  /\ <<n, k>> \notin remote
  /\ k = "sig" => <<n, "tar">> \in remote
  /\ n > 1 => n - 1 \in Ready
  /\ remote' = remote \cup {<<n, k>>}
  /\ UNCHANGED <<importVars, temps, op, poll, crashes>>

----------------------------------------------------------------------------
(* unverifiedTransportBytes lists landing, quarantine and rejected one after  *)
(* the other while bundles may move from one to the next.                   *)
VisibleOnly(d) ==   \* mutant: hidden downloads are not counted
  CASE d = "landing" -> Cardinality(Landed) [] d = "quarantine" -> 2 * Cardinality(quarantine)
    [] d = "rejected" -> rejected
UnitsIn(d) ==
  CASE d = "landing" -> Cardinality(Landed) + Cardinality(temps)
    [] d = "quarantine" -> 2 * Cardinality(quarantine)
    [] d = "rejected" -> rejected

NextDir(d) ==
  CASE d = "landing" -> "quarantine" [] d = "quarantine" -> "rejected" [] d = "rejected" -> "write"

Measure ==
  /\ op.pc \in {"landing", "quarantine", "rejected"}
  /\ op' = [op EXCEPT !.sum = @ + UnitsIn(op.pc), !.pc = NextDir(op.pc)]
  /\ UNCHANGED <<remote, importVars, temps, poll, crashes>>

RoomLeft == op.sum < Quota

(* handleDiodeUpload: measure, store by rename, and unlock.                  *)
StartPut(f) ==
  /\ Puts /\ op = NoOp
  /\ op' = [kind |-> "put", pc |-> "landing", at |-> f, sum |-> 0]
  /\ UNCHANGED <<remote, importVars, temps, poll, crashes>>

Put(v) ==
  /\ op.kind = "put" /\ op.pc = "write" /\ RoomLeft
  /\ landing' = [landing EXCEPT ![op.at] = v]
  /\ op' = NoOp
  /\ UNCHANGED <<remote, quarantine, rejected, taken, temps, poll, crashes>>

(* 507: the quota is exhausted.                                             *)
PutRefused ==
  /\ op.kind = "put" /\ op.pc = "write" /\ ~RoomLeft
  /\ op' = NoOp
  /\ UNCHANGED <<remote, importVars, temps, poll, crashes>>

----------------------------------------------------------------------------
(* pollSFTP lists the folder once and takes its complete bundles in order.   *)
StartPoll ==
  /\ poll = NoPoll
  /\ poll' = [pc |-> "fetch", todo |-> Ready]
  /\ UNCHANGED <<remote, importVars, temps, op, crashes>>

(* sftpBundlePresentLocked                                                  *)
Present(n) == n <= taken \/ Complete(n) \/ n \in quarantine

Next1(n) == poll' = [pc |-> "fetch", todo |-> poll.todo \ {n}]

(* receiveSFTPBundle: skip what is there, else download both files.  A stale  *)
(* temporary of the same name is removed before the quota is measured.      *)
StartFetch ==
  /\ poll.pc = "fetch" /\ poll.todo # {} /\ op = NoOp
  /\ LET n == FirstOf(poll.todo)
     IN  IF Present(n) THEN Next1(n) /\ UNCHANGED <<op, temps>>
         ELSE /\ op' = [kind |-> "fetch", pc |-> "landing", at |-> <<n, "tar">>, sum |-> 0]
              /\ temps' = temps \ {<<n, "tar">>}
              /\ UNCHANGED poll
  /\ UNCHANGED <<remote, importVars, crashes>>

Mine(n) == {f \in BundleFiles : f[1] = n}
StageFile ==
  /\ op.kind = "fetch" /\ op.pc = "write" /\ RoomLeft
  /\ LET n == op.at[1]
     IN  IF op.at[2] = "tar"
         THEN /\ op' = [op EXCEPT !.pc = "landing", !.at = <<n, "sig">>, !.sum = 0]
              /\ temps' = (temps \ {<<n, "sig">>}) \cup {op.at}
         ELSE op' = [op EXCEPT !.pc = "recheck"] /\ temps' = temps \cup {op.at}
  /\ UNCHANGED <<remote, importVars, poll, crashes>>

(* A refused or failed download: the bundle's temporaries go, the next one    *)
(* in the list is tried.                                                    *)
StageFails ==
  /\ op.kind = "fetch" /\ op.pc = "write" /\ ~RoomLeft
  /\ op' = NoOp /\ temps' = temps \ Mine(op.at[1])
  /\ Next1(op.at[1])
  /\ UNCHANGED <<remote, importVars, crashes>>

(* Under importMu: look again, then publishSFTPBundle, step by step: an old   *)
(* signature goes first so that no mixture of copies is complete.           *)
KeepSignature == landing   \* mutant: the old signature stays in place
WithoutSignature == [landing EXCEPT ![<<op.at[1], "sig">>] = "none"]
Publish ==
  /\ op.kind = "fetch" /\ op.pc \in {"recheck", "archive", "signature"}
  /\ LET n == op.at[1]
     IN  \/ /\ op.pc = "recheck" /\ Present(n)
            /\ op' = NoOp /\ temps' = temps \ Mine(n) /\ Next1(n)
            /\ UNCHANGED landing
         \/ /\ op.pc = "recheck" /\ ~Present(n)
            /\ landing' = WithoutSignature
            /\ op' = [op EXCEPT !.pc = "archive"]
            /\ UNCHANGED <<temps, poll>>
         \/ /\ op.pc = "archive"
            /\ landing' = [landing EXCEPT ![<<n, "tar">>] = "sftp"]
            /\ temps' = temps \ {<<n, "tar">>}
            /\ op' = [op EXCEPT !.pc = "signature"]
            /\ UNCHANGED poll
         \/ /\ op.pc = "signature"
            /\ landing' = [landing EXCEPT ![<<n, "sig">>] = "sftp"]
            /\ temps' = temps \ Mine(n)
            /\ op' = NoOp
            /\ poll' = [pc |-> "import", todo |-> poll.todo \ {n}]
  /\ UNCHANGED <<remote, quarantine, rejected, taken, crashes>>

----------------------------------------------------------------------------
ImportMuFree == op.pc \notin {"archive", "signature"}
Importable(n) == n = taken + 1 /\ (Complete(n) \/ n \in quarantine)
Sortable(n) == Complete(n) /\ n # taken + 1

Clear(n) == landing' = [f \in BundleFiles |-> IF f[1] = n THEN "none" ELSE landing[f]]

(* The import pass, one bundle: a future one to quarantine, an imported one   *)
(* to duplicates, the next one applied or, when damaged, rejected.          *)
SortBundle(n) ==
  /\ ImportMuFree /\ Sortable(n)
  /\ Clear(n)
  /\ quarantine' = IF n > taken THEN quarantine \cup {n} ELSE quarantine
  /\ UNCHANGED <<remote, rejected, taken, temps, op, poll, crashes>>

ImportBundle(n) ==
  /\ ImportMuFree /\ Importable(n)
  /\ IF Complete(n)
     THEN Clear(n) /\ UNCHANGED quarantine
     ELSE quarantine' = quarantine \ {n} /\ UNCHANGED landing
  /\ IF Complete(n) /\ \E k \in Kinds : landing[<<n, k>>] = "bad"
     THEN rejected' = rejected + 2 /\ UNCHANGED taken
     ELSE taken' = n /\ UNCHANGED rejected
  /\ UNCHANGED <<remote, temps, op, poll, crashes>>

(* pollSFTP waits for its ImportNext before it fetches on.                   *)
PollImported ==
  /\ poll.pc = "import" /\ \A n \in Numbers : ~Importable(n) /\ ~Sortable(n)
  /\ poll' = [poll EXCEPT !.pc = "fetch"]
  /\ UNCHANGED <<remote, importVars, temps, op, crashes>>

EndPoll ==
  /\ poll.pc = "fetch" /\ poll.todo = {}
  /\ poll' = NoPoll
  /\ UNCHANGED <<remote, importVars, temps, op, crashes>>

(* sweep: the retention of rejected bundles has passed.                      *)
ReapRejected ==
  /\ rejected > 0
  /\ rejected' = 0
  /\ UNCHANGED <<remote, landing, quarantine, taken, temps, op, poll, crashes>>

CrashHigh ==
  /\ crashes < MaxCrashes
  /\ crashes' = crashes + 1
  /\ op' = NoOp /\ poll' = NoPoll
  /\ UNCHANGED <<remote, importVars, temps>>

TransferStep ==
  \/ Measure \/ (\E v \in {"put", "bad"} : Put(v)) \/ PutRefused
  \/ StartPoll \/ StartFetch \/ StageFile \/ StageFails \/ Publish \/ PollImported \/ EndPoll
ImportStep == \E n \in Numbers : SortBundle(n) \/ ImportBundle(n)

IngestNext ==
  \/ TransferStep \/ ImportStep \/ ReapRejected \/ CrashHigh
  \/ \E f \in BundleFiles : Promote(f[1], f[2]) \/ StartPut(f)

IngestSpec == IngestInit /\ [][IngestNext]_ingestVars

----------------------------------------------------------------------------
IngestTypeOK ==
  /\ remote \subseteq BundleFiles /\ temps \subseteq BundleFiles /\ quarantine \subseteq Numbers
  /\ landing \in [BundleFiles -> {"none", "put", "bad", "sftp"}]
  /\ rejected \in 0 .. Quota + 1 /\ taken \in 0 .. MaxBundle /\ crashes \in 0 .. MaxCrashes
  /\ op.pc \in {"free", "landing", "quarantine", "rejected", "write", "recheck", "archive", "signature"}
  /\ poll.pc \in {"idle", "fetch", "import"} /\ poll.todo \subseteq Numbers

(* Unverified data never takes more than the quota, though it is measured      *)
(* directory by directory while the importer moves bundles between them       *)
(* (unverifiedTransportBytesExcept lists in the direction they move).         *)
UnverifiedBounded ==
  Cardinality(Landed) + Cardinality(temps) + 2 * Cardinality(quarantine) + rejected <= Quota

(* An SFTP download never completes a bundle with another copy's signature or  *)
(* archive that lay in landing (publishSFTPBundle removes the old signature   *)
(* before it renames).                                                       *)
CompletesItsCopy ==
  op.kind = "fetch" => \A n \in Numbers :
    ~Complete(n) /\ Complete(n)' => \A k \in Kinds : landing'[<<n, k>>] = "sftp"
NoMixedCopy == [][CompletesItsCopy]_ingestVars
=============================================================================
