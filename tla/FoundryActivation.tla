-------------------------- MODULE FoundryActivation --------------------------
(***************************************************************************)
(* LedgerVersionRegistry for ONE target agent: qualification records,      *)
(* AgentVersions, numbered activation transaction files and the            *)
(* activation.json projected from them.  As in FoundryLedger the actors    *)
(* are processes and a step is the work between two points where another   *)
(* process, or a crash, can matter: lock file, directory, each published   *)
(* file, and, for readers that take no lock, each directory they read.     *)
(***************************************************************************)
EXTENDS FoundryMutationLock, Sequences

CONSTANTS
  Registry,      \* registry-*.lock
  Candidates,    \* materialized candidates: an AgentVersion is named by its own
  Evidences,     \* what a registration binds it to: evidence, risk tier, time
  Receipts,      \* owner authority receipts
  NoReceipt,
  NoVersion,     \* no version was asked for
  Instances      \* bounds; each behaviour has one of them

ASSUME FoundryActivationAssumption ==
  /\ Files = {Registry}
  /\ NoReceipt \notin Receipts
  /\ NoVersion \notin [candidate: Candidates, evidence: Evidences]
  /\ \A i \in Instances :
       /\ i.procs \subseteq Procs
       /\ i.versions \subseteq [candidate: Candidates, evidence: Evidences]
       /\ i.calls \subseteq {"register", "activate", "rollback", "activation", "read"}
       /\ i.switches \in Nat /\ i.crashes \in Nat

\* Digests: records with the same content are the same record.
Versions == [candidate: Candidates, evidence: Evidences]
Transactions == [kind: {"activate", "rollback"}, to: Versions, receipt: Receipts \cup {NoReceipt}]

VARIABLES
  epoch,           \* the registry directory: "absent", "bare", "marked"
  qualifications,  \* published qualification records
  versions,        \* published AgentVersions
  transactions,    \* activation-transactions/NNNNNNNNNN.json
  pointer,         \* revision in activation.json, 0 also if there is no file
  pc,              \* where each process is
  job,             \* what it was called for
  view,            \* what it has read of the registry
  disturbed,       \* history: a file was published while the process was reading without the lock
  told,            \* history: the highest revision a switch has returned
  instance         \* bounds: processes, versions, calls, activation transactions, crashes

registryVars == <<epoch, qualifications, versions, transactions, pointer>>
callVars == <<pc, job, view, disturbed>>
vars == <<lockVars, registryVars, callVars, told, instance>>

Ops == {"none", "register", "activate", "rollback", "activation", "read"}
Pc == {"idle", "lock", "epoch", "mark", "check", "qualify", "publish", "commit",
       "repair", "project", "confirm", "readQ", "readV", "readT", "readP", "finish", "abort"}

\* at: the expected revision.  to and receipt are what a switch asks for; to is
\* also the version a registration derives from its candidate and evidence.
Job == [op: Ops, to: Versions \cup {NoVersion}, receipt: Receipts \cup {NoReceipt}, at: Nat]
NoJob == [op |-> "none", to |-> NoVersion, receipt |-> NoReceipt, at |-> 0]
View == [q: SUBSET Versions, v: SUBSET Versions, t: Nat]
NoView == [q |-> {}, v |-> {}, t |-> 0]

DataTypeOK ==
  /\ epoch \in {"absent", "bare", "marked"}
  /\ qualifications \in SUBSET Versions
  /\ versions \in SUBSET Versions
  /\ transactions \in Seq(Transactions)
  /\ pointer \in Nat
  /\ pc \in [Procs -> Pc]
  /\ job \in [Procs -> Job]
  /\ view \in [Procs -> View]
  /\ disturbed \in [Procs -> BOOLEAN]
  /\ told \in Nat
  /\ instance \in Instances

TypeOK == LockTypeOK /\ DataTypeOK

Init ==
  /\ LockInit
  /\ epoch = "absent"
  /\ qualifications = {}
  /\ versions = {}
  /\ transactions = <<>>
  /\ pointer = 0
  /\ pc = [p \in Procs |-> "idle"]
  /\ job = [p \in Procs |-> NoJob]
  /\ view = [p \in Procs |-> NoView]
  /\ disturbed = [p \in Procs |-> FALSE]
  /\ told = 0
  /\ instance \in Instances

-----------------------------------------------------------------------------
(* #read. *)

SameCandidate(a, b) == a.candidate = b.candidate
Unique(records) == \A a, b \in records : SameCandidate(a, b) => a = b

\* The cross-checks of #read: identities are unique, every version has its
\* qualification record, every transaction a version, and activation.json is a
\* revision of the history.
Consistent(q, v, t, at) ==
  /\ Unique(q) /\ Unique(v)
  /\ v \subseteq q
  /\ \A i \in 1..t : transactions[i].to \in v
  /\ at <= t

Readable ==
  /\ epoch # "bare"
  /\ Consistent(qualifications, versions, Len(transactions), pointer)

Go(p, label) == pc' = [pc EXCEPT ![p] = label]
See(p, field, value) == view' = [view EXCEPT ![p][field] = value]

\* A published file disturbs every process that reads without the lock.
Publish(p) == disturbed' = [q \in Procs |-> disturbed[q] \/ (q # p /\ job[q].op = "read")]

Idle(p) ==
  /\ Go(p, "idle")
  /\ job' = [job EXCEPT ![p] = NoJob]
  /\ view' = [view EXCEPT ![p] = NoView]
  /\ disturbed' = [disturbed EXCEPT ![p] = FALSE]

-----------------------------------------------------------------------------
(* The calls. *)

Call(p, op, v, receipt, at, label) ==
  /\ op \in instance.calls
  /\ pc[p] = "idle"
  /\ want[p] = NoFile
  /\ job' = [job EXCEPT ![p] = [op |-> op, to |-> v, receipt |-> receipt, at |-> at]]
  /\ Go(p, label)
  /\ UNCHANGED <<lockVars, registryVars, view, disturbed, told>>

Register(p, v) == Call(p, "register", v, NoReceipt, 0, "lock")

\* The expected revision is one the caller has read at some time.
CompareAndSwapActivation(p, v, receipt, at) == Call(p, "activate", v, receipt, at, "lock")

\* "Rollback requires an authority receipt."
Rollback(p, v, receipt, at) == receipt # NoReceipt /\ Call(p, "rollback", v, receipt, at, "lock")

\* activation() takes the lock to repair the projection.
Activation(p) == Call(p, "activation", NoVersion, NoReceipt, 0, "lock")

\* list, resolveVersion and activationHistory take no lock.
Read(p) == Call(p, "read", NoVersion, NoReceipt, 0, "readQ")

-----------------------------------------------------------------------------
(* The lock of the target's registry. *)

Locked(p) ==
  /\ pc[p] = "lock"
  /\ Acquire(p, Registry)
  /\ Go(p, IF job[p].op = "register" THEN "epoch" ELSE "check")
  /\ UNCHANGED <<registryVars, job, view, disturbed, told>>

Contended(p) ==
  /\ pc[p] = "lock"
  /\ Refused(p, Registry)
  /\ Go(p, "abort")
  /\ UNCHANGED <<registryVars, job, view, disturbed, told>>

OwnerDead(p) ==
  /\ pc[p] = "lock"
  /\ FindDead(p, Registry, "remove")
  /\ UNCHANGED <<registryVars, callVars, told>>

RemoveAbandoned(p) ==
  /\ Remove(p, Registry)
  /\ UNCHANGED <<registryVars, callVars, told>>

\* A process that opens the store sweeps the dead lock files it can read.
Sweep(p) ==
  /\ pc[p] = "idle"
  /\ FindDead(p, Registry, "sweep")
  /\ UNCHANGED <<registryVars, callVars, told>>

Crash(p) ==
  /\ pc[p] # "idle"
  /\ crashes < instance.crashes
  /\ CrashLocks(p)
  /\ Idle(p)
  /\ UNCHANGED <<registryVars, told>>

-----------------------------------------------------------------------------
(* register *)

\* Mutant: a directory that was made is taken for a marked one.
EnsureEpochUnmarked(p) ==
  /\ pc[p] = "epoch"
  /\ epoch' = IF epoch = "absent" THEN "bare" ELSE epoch
  /\ Go(p, "check")
  /\ UNCHANGED <<lockVars, qualifications, versions, transactions, pointer, job, view, disturbed, told>>

\* ensureVersionRegistryEpoch: an empty directory is accepted, one with files
\* and no marker is not; writeExclusive makes the directory before it links.
EnsureEpoch(p) ==
  /\ pc[p] = "epoch"
  /\ epoch' = IF epoch = "absent" THEN "bare" ELSE epoch
  /\ Go(p, IF epoch = "marked" THEN "check" ELSE "mark")
  /\ UNCHANGED <<lockVars, qualifications, versions, transactions, pointer, job, view, disturbed, told>>

MarkEpoch(p) ==
  /\ pc[p] = "mark"
  /\ epoch' = "marked"
  /\ Go(p, IF epoch = "marked" THEN "abort" ELSE "check")
  /\ Publish(p)
  /\ UNCHANGED <<lockVars, qualifications, versions, transactions, pointer, job, view, told>>

\* Mutant: a prepared qualification is not compared with the new one.
RegisterVerdictUnprepared(v) ==
  IF \E w \in versions : SameCandidate(v, w)
    THEN IF v \in versions THEN "finish" ELSE "abort"
    ELSE "qualify"

\* "Candidate digest is already registered with different immutable metadata",
\* "Prepared qualification conflicts with version registration retry."
RegisterVerdict(v) ==
  IF \E w \in versions : SameCandidate(v, w)
    THEN IF v \in versions THEN "finish" ELSE "abort"
    ELSE IF \E q \in qualifications : SameCandidate(v, q) /\ q # v THEN "abort" ELSE "qualify"

RegisterCheck(p) ==
  /\ pc[p] = "check"
  /\ job[p].op = "register"
  /\ Go(p, IF Readable THEN RegisterVerdict(job[p].to) ELSE "abort")
  /\ UNCHANGED <<lockVars, registryVars, job, view, disturbed, told>>

\* publishImmutableRegistryRecord: an identical record is left alone.
PublishQualification(p) ==
  /\ pc[p] = "qualify"
  /\ qualifications' = qualifications \cup {job[p].to}
  /\ Go(p, "publish")
  /\ Publish(p)
  /\ UNCHANGED <<lockVars, epoch, versions, transactions, pointer, job, view, told>>

PublishVersion(p) ==
  /\ pc[p] = "publish"
  /\ versions' = versions \cup {job[p].to}
  /\ Go(p, "confirm")
  /\ Publish(p)
  /\ UNCHANGED <<lockVars, epoch, qualifications, transactions, pointer, job, view, told>>

-----------------------------------------------------------------------------
(* #switchActivation and activation *)

ActiveVersion(v) == Len(transactions) > 0 /\ transactions[Len(transactions)].to = v

\* Mutant: the receipt of a replay is not compared.
SameSwitch(t, j) == t.kind = j.op /\ t.to = j.to

SameRequest(t, j) == t.kind = j.op /\ t.to = j.to /\ t.receipt = j.receipt

\* Mutant: an exact replay returns without repairing the projection.
SwitchVerdictNoRepair(j) ==
  IF j.at < Len(transactions)
    THEN IF SameRequest(transactions[j.at + 1], j) THEN "finish" ELSE "abort"
    ELSE IF j.at = Len(transactions) /\ j.op = "activate" THEN "commit" ELSE "abort"

\* Mutant: a rollback goes to any version.
SwitchVerdictAnyTarget(j) ==
  IF j.at < Len(transactions)
    THEN IF SameRequest(transactions[j.at + 1], j) THEN "repair" ELSE "abort"
    ELSE IF j.at > Len(transactions) THEN "abort" ELSE "commit"

\* A transaction that took the expected revision is a replay of this request or
\* a conflict; else the revision must be the current one.  Rollback goes to a
\* version that has been active and is not.
SwitchVerdict(j) ==
  IF j.at < Len(transactions)
    THEN IF SameRequest(transactions[j.at + 1], j) THEN "repair" ELSE "abort"
    ELSE IF j.at > Len(transactions)
            \/ /\ j.op = "rollback"
               /\ ActiveVersion(j.to) \/ \A i \in DOMAIN transactions : transactions[i].to # j.to
      THEN "abort" ELSE "commit"

SwitchCheck(p) ==
  /\ pc[p] = "check"
  /\ job[p].op \in {"activate", "rollback"}
  /\ Go(p, IF Readable /\ job[p].to \in versions THEN SwitchVerdict(job[p]) ELSE "abort")
  /\ See(p, "t", Len(transactions))
  /\ UNCHANGED <<lockVars, registryVars, job, disturbed, told>>

\* Mutant: the transaction file is renamed into place whatever is there.
WriteTransactionOver(p) ==
  /\ pc[p] = "commit"
  /\ transactions' = Append(SubSeq(transactions, 1, job[p].at),
                            [kind |-> job[p].op, to |-> job[p].to, receipt |-> job[p].receipt])
  /\ Go(p, "project")
  /\ See(p, "t", job[p].at + 1)
  /\ Publish(p)
  /\ UNCHANGED <<lockVars, epoch, qualifications, versions, pointer, job, told>>

\* Mutant: the pointer is numbered before the revision the switch expected.
WriteTransactionBefore(p) ==
  /\ pc[p] = "commit"
  /\ transactions' = Append(transactions,
                            [kind |-> job[p].op, to |-> job[p].to, receipt |-> job[p].receipt])
  /\ Go(p, "project")
  /\ See(p, "t", job[p].at - 1)
  /\ Publish(p)
  /\ UNCHANGED <<lockVars, epoch, qualifications, versions, pointer, job, told>>

\* The file of the next revision is linked: it fails if that file exists.
WriteTransaction(p) ==
  /\ pc[p] = "commit"
  /\ IF Len(transactions) = job[p].at
       THEN /\ transactions' = Append(transactions,
                 [kind |-> job[p].op, to |-> job[p].to, receipt |-> job[p].receipt])
            /\ Go(p, "project")
            /\ See(p, "t", job[p].at + 1)
            /\ Publish(p)
       ELSE /\ Go(p, "abort")
            /\ UNCHANGED <<transactions, view, disturbed>>
  /\ UNCHANGED <<lockVars, epoch, qualifications, versions, pointer, job, told>>

ActivationCheck(p) ==
  /\ pc[p] = "check"
  /\ job[p].op = "activation"
  /\ Go(p, IF ~Readable THEN "abort" ELSE IF epoch = "absent" THEN "finish" ELSE "repair")
  /\ See(p, "t", Len(transactions))
  /\ UNCHANGED <<lockVars, registryVars, job, disturbed, told>>

\* repairActivationProjection writes activation.json of the revision read
\* ("repair") or just committed ("project") ...
RepairActivationProjection(p) ==
  /\ pc[p] \in {"repair", "project"}
  /\ pointer' = view[p].t
  /\ Go(p, IF pc[p] = "repair" THEN "finish" ELSE "confirm")
  /\ IF pointer = view[p].t THEN UNCHANGED disturbed ELSE Publish(p)
  /\ UNCHANGED <<lockVars, epoch, qualifications, versions, transactions, job, view, told>>

\* ... or fails to, and the call with it.
RepairFails(p) ==
  /\ pc[p] \in {"repair", "project"}
  /\ Go(p, "abort")
  /\ UNCHANGED <<lockVars, registryVars, job, view, disturbed, told>>

\* register and a switch read the registry again before they return.
Confirm(p) ==
  /\ pc[p] = "confirm"
  /\ Go(p, IF /\ Readable
              /\ job[p].op # "register" => Len(transactions) = job[p].at + 1
              /\ job[p].op = "register" => job[p].to \in versions
             THEN "finish" ELSE "abort")
  /\ UNCHANGED <<lockVars, registryVars, job, view, disturbed, told>>

-----------------------------------------------------------------------------
(* A reader without the lock takes one directory after the other. *)

ReadQualifications(p) ==
  /\ pc[p] = "readQ"
  /\ Go(p, CASE epoch = "absent" -> "finish"
             [] epoch = "bare"   -> "abort"
             [] OTHER            -> "readV")
  /\ See(p, "q", qualifications)
  /\ UNCHANGED <<lockVars, registryVars, job, disturbed, told>>

ReadVersions(p) ==
  /\ pc[p] = "readV"
  /\ See(p, "v", versions)
  /\ Go(p, IF Unique(view[p].q) /\ Unique(versions) /\ versions \subseteq view[p].q THEN "readT" ELSE "abort")
  /\ UNCHANGED <<lockVars, registryVars, job, disturbed, told>>

ReadTransactions(p) ==
  /\ pc[p] = "readT"
  /\ See(p, "t", Len(transactions))
  /\ Go(p, IF \A i \in DOMAIN transactions : transactions[i].to \in view[p].v THEN "readP" ELSE "abort")
  /\ UNCHANGED <<lockVars, registryVars, job, disturbed, told>>

ReadPointer(p) ==
  /\ pc[p] = "readP"
  /\ Go(p, IF pointer <= view[p].t THEN "finish" ELSE "abort")
  /\ UNCHANGED <<lockVars, registryVars, job, view, disturbed, told>>

-----------------------------------------------------------------------------
Return(p) ==
  /\ pc[p] \in {"finish", "abort"}
  /\ Release(p, held[p])
  /\ told' = IF /\ pc[p] = "finish" /\ ~LostLock(p, held[p])
                /\ job[p].op \in {"activate", "rollback"} /\ told < job[p].at + 1
               THEN job[p].at + 1 ELSE told
  /\ Idle(p)
  /\ UNCHANGED registryVars

CallSomething(p) ==
  \/ \E v \in instance.versions : Register(p, v)
  \/ \E v \in instance.versions, receipt \in Receipts \cup {NoReceipt}, at \in 0..Len(transactions) :
       at < instance.switches /\ (CompareAndSwapActivation(p, v, receipt, at) \/ Rollback(p, v, receipt, at))
  \/ Activation(p) \/ Read(p)

LockFiles(p) == Locked(p) \/ Contended(p) \/ OwnerDead(p) \/ RemoveAbandoned(p) \/ Sweep(p)

Work(p) ==
  \/ EnsureEpoch(p) \/ MarkEpoch(p) \/ RegisterCheck(p)
  \/ PublishQualification(p) \/ PublishVersion(p)
  \/ SwitchCheck(p) \/ WriteTransaction(p)
  \/ ActivationCheck(p) \/ RepairActivationProjection(p) \/ RepairFails(p) \/ Confirm(p)
  \/ ReadQualifications(p) \/ ReadVersions(p) \/ ReadTransactions(p) \/ ReadPointer(p)
  \/ Return(p)

Next ==
  /\ \E p \in instance.procs : CallSomething(p) \/ LockFiles(p) \/ Work(p) \/ Crash(p)
  /\ UNCHANGED instance

Spec == Init /\ [][Next]_vars

-----------------------------------------------------------------------------
(* Properties. *)

ActivationRegister == INSTANCE FoundryActivationRegister
               WITH Versions <- Versions, registered <- versions, history <- transactions

\* The files implement the register whatever crashes and whatever happens to
\* the lock: the history only grows, each switch takes the revision after the
\* one it expected, a rollback goes back to a version that was active, and the
\* revisions callers were told of are never taken back.
RegisterSpec == ActivationRegister!Spec

\* registries.ts #read: as long as no lock file was taken from a live process,
\* the records pass their cross-checks, wherever a registration or a switch was
\* killed and with whatever other metadata it was tried again.
RecordsAgree == ~stolen => Consistent(qualifications, versions, Len(transactions), pointer)

\* A switch that returned is in activation.json, even if the file was lost
\* before and the switch returned from an exact replay.
ToldIsProjected == ~stolen => told <= pointer

\* Of two callers that expect the same revision only one switches: a switch
\* that is about to return is the recorded one, owner receipt included.
ReturnedIsRecorded ==
  \A p \in Procs :
    pc[p] = "finish" /\ job[p].op \in {"activate", "rollback"} =>
      /\ job[p].at < Len(transactions)
      /\ transactions[job[p].at + 1] = [kind |-> job[p].op, to |-> job[p].to, receipt |-> job[p].receipt]

\* What a switch answers holds: its request is the recorded one, and what it
\* returned is the active version's file.
OutcomesHold == ToldIsProjected /\ ReturnedIsRecorded

\* A registry directory without its epoch marker, which every read refuses, is
\* left only by the crash of the first registration.
BareOnlyAfterCrash ==
  epoch = "bare" => crashes > 0 \/ \E p \in Procs : pc[p] = "mark"

\* A reader that takes no lock finds the records inconsistent only if another
\* process published something since it began, or the first registration died.
ReadFailsOnlyBesideWriter ==
  \A p \in Procs :
    ~stolen /\ pc[p] = "abort" /\ job[p].op = "read" => disturbed[p] \/ epoch = "bare"

\* registries.ts #read: whoever reads the registry, with the lock or without,
\* finds it consistent but for what a writer beside it or a crash explains.
ReadersAgree == RecordsAgree /\ ReadFailsOnlyBesideWriter /\ BareOnlyAfterCrash
=============================================================================
