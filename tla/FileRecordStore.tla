---------------------------- MODULE FileRecordStore ----------------------------
(***************************************************************************)
(* The Windows stores that the dispatch core rests on, at the level of     *)
(* files: WindowsFileJournalStore, WindowsFileBrokerReversalStore and the  *)
(* fencing epoch of WindowsSingleWriterLease.  Each of them writes a file  *)
(* beside the one it replaces, flushes it and moves it over, under a lock  *)
(* file of its own.  A client is a thread of some process; processes die,  *)
(* and the power fails, between any two steps.                             *)
(*                                                                         *)
(* What a record says, and which fields of it may change, is the matter of *)
(* JournalRecord: here a record is its key, its revision and its kind.     *)
(***************************************************************************)
EXTENDS Naturals

CONSTANTS
    Client,
    Operation,  \* keys of the journal
    Reversal,   \* keys of the broker reversals
    Account,    \* the account whose lease is taken
    Kinds,      \* kinds of records
    FileOf,     \* the file of a key; the server is in it as a hash
    Requests,   \* what clients ask
    MaxToken    \* the largest epoch; the code's is 2^64 - 1

Stores == {"journal", "reversals", "lease"}
Key == Operation \cup Reversal \cup {Account}
StoreOf(k) ==
    IF k \in Operation THEN "journal" ELSE IF k \in Reversal THEN "reversals" ELSE "lease"

FiledRecord == [key: Key, revision: Nat, kind: Kinds \cup {"epoch"}]

Request ==
    [op: {"commit"}, record: {r \in FiledRecord : r.key # Account /\ r.kind \in Kinds}]
    \cup [op: {"load"}, key: Operation \cup Reversal]
    \cup [op: {"scan"}, keys: {Operation, Reversal}]
    \cup [op: {"acquire"}]

NoRequest == [op |-> "none"]

Free == "free"

\* record_path, broker_reversal_path and lease_path: the prefix tells the stores
\* apart, but within one store two servers may have the same hash.
ASSUME FilesAssumption ==
    /\ Operation \cap Reversal = {}
    /\ Account \notin Operation \cup Reversal
    /\ "epoch" \notin Kinds
    /\ Free \notin Client
    /\ \A k, l \in Key : FileOf[k] = FileOf[l] => StoreOf(k) = StoreOf(l)
    /\ Requests \subseteq Request
    /\ \A q \in Requests :
          q.op = "commit" =>
             q.record.revision > 0
             /\ (q.record.key \in Reversal => q.record.revision = 1)
    /\ MaxToken \in Nat

File == {FileOf[k] : k \in Key}

VARIABLES
    target,   \* [File -> Content], the files that are read
    temp,     \* [File -> Content], the files beside them
    locked,   \* [Stores -> Client or Free], the locks that clients hold
    at,       \* [Client -> where a client is in its request]
    asked,    \* [Client -> Request or NoRequest]
    told,     \* [Client -> the answer that it is about to be given]
    lease     \* [Client -> Nat], the token that a client holds, 0 for none

filesVars == <<target, temp, locked, at, asked, told, lease>>

\* What is in a file: nothing, a part of a record, or a record, of which the
\* disk may not have everything yet.
NoFile == [is |-> "absent"]
Torn == [is |-> "torn"]
Whole(r, onDisk) == [is |-> "whole", record |-> r, onDisk |-> onDisk]
Content == {NoFile, Torn} \cup [is: {"whole"}, record: FiledRecord, onDisk: BOOLEAN]

Status == {"none", "committed", "conflict", "collision", "io_error", "malformed", "read"}
Told(status, records) == [status |-> status, records |-> records]
Untold == Told("none", {})

KeyOf(q) == IF q.op = "commit" THEN q.record.key ELSE q.key

StoreAsked(c) ==
    IF asked[c].op \in {"commit", "load"} THEN StoreOf(KeyOf(asked[c]))
    ELSE IF asked[c].op = "scan"
         THEN IF asked[c].keys = Operation THEN "journal" ELSE "reversals"
         ELSE "lease"

\* What a client writes: token_ is set before its file is written.
Candidate(c) ==
    IF asked[c].op = "commit"
    THEN asked[c].record
    ELSE [key |-> Account, revision |-> lease[c], kind |-> "epoch"]

FilesTypeOK ==
    /\ target \in [File -> Content]
    /\ temp \in [File -> Content]
    /\ locked \in [Stores -> Client \cup {Free}]
    /\ at \in [Client -> {"idle", "waits", "locked", "writes", "moves", "leaves"}]
    /\ asked \in [Client -> Requests \cup {NoRequest}]
    /\ told \in [Client -> [status: Status, records: SUBSET FiledRecord]]
    /\ lease \in [Client -> Nat]

FilesInit ==
    /\ target = [f \in File |-> NoFile]
    /\ temp = [f \in File |-> NoFile]
    /\ locked = [s \in Stores |-> Free]
    /\ at = [c \in Client |-> "idle"]
    /\ asked = [c \in Client |-> NoRequest]
    /\ told = [c \in Client |-> Untold]
    /\ lease = [c \in Client |-> 0]

\* A client calls a store or makes a lease.
Invoke(c) ==
    /\ at[c] = "idle"
    /\ \E q \in Requests : asked' = [asked EXCEPT ![c] = q]
    /\ at' = [at EXCEPT ![c] = "waits"]
    /\ UNCHANGED <<target, temp, locked, told, lease>>

\* The call has its answer; what it locked is unlocked when it returns.
Tell(c, t) ==
    /\ told' = [told EXCEPT ![c] = t]
    /\ at' = [at EXCEPT ![c] = "leaves"]

TellAtOnce(c, t) ==
    /\ Tell(c, t)
    /\ UNCHANGED <<target, temp, locked, asked, lease>>

\* FileLock waits for an exclusive lock on the whole file; the lock file of a
\* lease is opened for one handle only, and it is an error if there is one.
TakeLock(c) ==
    /\ at[c] = "waits" /\ locked[StoreAsked(c)] = Free
    /\ locked' = [locked EXCEPT ![StoreAsked(c)] = c]
    /\ at' = [at EXCEPT ![c] = "locked"]
    /\ UNCHANGED <<target, temp, asked, told, lease>>

LockIsRefused(c) ==
    /\ at[c] = "waits"
    /\ TellAtOnce(c, Told("io_error", {}))

\* A lock file, or a record, cannot be opened or read.
ReadFails(c) ==
    /\ at[c] = "locked"
    /\ TellAtOnce(c, Told("io_error", {}))

\* The old file beside the target is deleted and a new one is begun.
BeginFile(c, f) ==
    /\ temp' = [temp EXCEPT ![f] = Torn]
    /\ at' = [at EXCEPT ![c] = "writes"]
    /\ UNCHANGED <<target, locked, asked, told>>

\* The record follows what the file has.  A file of another key is a conflict.
JournalAccepts(old, r) ==
    IF r.revision = 1
    THEN old = NoFile
    ELSE /\ old.is = "whole"
         /\ old.record.key = r.key
         /\ old.record.revision + 1 = r.revision
         /\ old.record.kind = r.kind

CommitRecord(c) ==
    /\ at[c] = "locked" /\ asked[c].op = "commit"
    /\ LET r == asked[c].record
           f == FileOf[r.key] IN
          /\ r.key \in Operation
          /\ \/ /\ target[f] = Torn
                /\ TellAtOnce(c, Told("malformed", {}))
             \/ /\ target[f] # Torn /\ ~JournalAccepts(target[f], r)
                /\ TellAtOnce(c, Told("conflict", {}))
             \/ /\ target[f] # Torn /\ JournalAccepts(target[f], r)
                /\ BeginFile(c, f)
                /\ UNCHANGED lease

\* A reversal is written once; the same one again is no conflict.
CommitReversal(c) ==
    /\ at[c] = "locked" /\ asked[c].op = "commit"
    /\ LET r == asked[c].record
           f == FileOf[r.key] IN
          /\ r.key \in Reversal
          /\ \/ /\ target[f] = Torn
                /\ TellAtOnce(c, Told("malformed", {}))
             \/ /\ target[f].is = "whole"
                /\ TellAtOnce(c, Told(IF target[f].record = r THEN "committed"
                                                              ELSE "conflict", {}))
             \/ /\ target[f] = NoFile
                /\ BeginFile(c, f)
                /\ UNCHANGED lease

\* No file is epoch 0.
EpochIn(content) == IF content.is = "whole" THEN content.record.revision ELSE 0

\* The epoch is read while the lock file is held; the next token is durable
\* before anybody can use it.
AcquireEpoch(c) ==
    /\ at[c] = "locked" /\ asked[c].op = "acquire"
    /\ LET f == FileOf[Account]
           previous == EpochIn(target[f]) IN
          \/ /\ target[f] = Torn
             /\ TellAtOnce(c, Told("malformed", {}))
          \/ /\ target[f] # Torn /\ previous = MaxToken
             /\ TellAtOnce(c, Told("io_error", {}))
          \/ /\ target[f] # Torn /\ previous # MaxToken
             /\ BeginFile(c, f)
             /\ lease' = [lease EXCEPT ![c] = previous + 1]

\* A failed lease has no token.
Fails(c) ==
    /\ Tell(c, Told("io_error", {}))
    /\ lease' = IF asked[c].op = "acquire" THEN [lease EXCEPT ![c] = 0] ELSE lease

\* Faulty: the file is closed without a flush.
WriteFileUnflushed(c) ==
    /\ at[c] = "writes"
    /\ temp' = [temp EXCEPT ![FileOf[Candidate(c).key]] = Whole(Candidate(c), FALSE)]
    /\ at' = [at EXCEPT ![c] = "moves"]
    /\ UNCHANGED <<target, locked, asked, told, lease>>

\* Everything is written and flushed, or the file is deleted, if that succeeds.
WriteFile(c) ==
    /\ at[c] = "writes"
    /\ LET f == FileOf[Candidate(c).key] IN
          \/ /\ temp' = [temp EXCEPT ![f] = Whole(Candidate(c), TRUE)]
             /\ at' = [at EXCEPT ![c] = "moves"]
             /\ UNCHANGED <<told, lease>>
          \/ /\ \E left \in {NoFile, Torn} : temp' = [temp EXCEPT ![f] = left]
             /\ Fails(c)
    /\ UNCHANGED <<target, locked, asked>>

\* The move replaces the target at one instant and is on the disk when it returns.
MoveFile(c) ==
    /\ at[c] = "moves"
    /\ LET f == FileOf[Candidate(c).key] IN
          \/ /\ target' = [target EXCEPT ![f] = temp[f]]
             /\ temp' = [temp EXCEPT ![f] = NoFile]
             /\ Tell(c, Told("committed", {}))
             /\ UNCHANGED lease
          \/ /\ \E left \in {NoFile, temp[f]} : temp' = [temp EXCEPT ![f] = left]
             /\ Fails(c)
             /\ UNCHANGED target
    /\ UNCHANGED <<locked, asked>>

\* A record is told apart from that of another key with the same file.
LoadFrom(c, f) ==
    TellAtOnce(c,
        IF f = Torn THEN Told("malformed", {})
        ELSE IF f = NoFile THEN Told("read", {})
        ELSE IF f.record.key = asked[c].key THEN Told("read", {f.record})
        ELSE Told("collision", {}))

LoadRecord(c) ==
    /\ at[c] = "locked" /\ asked[c].op = "load" /\ asked[c].key \in Operation
    /\ LoadFrom(c, target[FileOf[asked[c].key]])

LoadReversal(c) ==
    /\ at[c] = "locked" /\ asked[c].op = "load" /\ asked[c].key \in Reversal
    /\ LoadFrom(c, target[FileOf[asked[c].key]])

\* Every file of the store is read.  Of the directory's other files, those of
\* other stores have another prefix, and those being written another extension.
Records(contents) == {f.record : f \in {g \in contents : g.is = "whole"}}

ScanOf(contents) ==
    IF Torn \in contents THEN Told("malformed", {}) ELSE Told("read", Records(contents))

ScanRecords(c) ==
    /\ at[c] = "locked" /\ asked[c].op = "scan" /\ StoreAsked(c) = "journal"
    /\ TellAtOnce(c, ScanOf({target[FileOf[k]] : k \in Operation}))

ScanReversals(c) ==
    /\ at[c] = "locked" /\ asked[c].op = "scan" /\ StoreAsked(c) = "reversals"
    /\ TellAtOnce(c, ScanOf({target[FileOf[k]] : k \in Reversal}))

\* The lock goes with the call, except that a lease keeps its own.
Keeps(c) == StoreAsked(c) = "lease" /\ lease[c] # 0

Return(c) ==
    /\ at[c] = "leaves"
    /\ locked' = IF locked[StoreAsked(c)] = c /\ ~Keeps(c)
                 THEN [locked EXCEPT ![StoreAsked(c)] = Free] ELSE locked
    /\ at' = [at EXCEPT ![c] = "idle"]
    /\ asked' = [asked EXCEPT ![c] = NoRequest]
    /\ told' = [told EXCEPT ![c] = Untold]
    /\ UNCHANGED <<target, temp, lease>>

\* The lease object is destroyed.
ReleaseLease(c) ==
    /\ at[c] = "idle" /\ lease[c] # 0
    /\ lease' = [lease EXCEPT ![c] = 0]
    /\ locked' = [locked EXCEPT !["lease"] = Free]
    /\ UNCHANGED <<target, temp, at, asked, told>>

\* Clients die; the system unlocks what they had locked.
Die(C) ==
    /\ locked' = [s \in Stores |-> IF locked[s] \in C THEN Free ELSE locked[s]]
    /\ at' = [c \in Client |-> IF c \in C THEN "idle" ELSE at[c]]
    /\ asked' = [c \in Client |-> IF c \in C THEN NoRequest ELSE asked[c]]
    /\ told' = [c \in Client |-> IF c \in C THEN Untold ELSE told[c]]
    /\ lease' = [c \in Client |-> IF c \in C THEN 0 ELSE lease[c]]

ClientCrash(c) ==
    /\ at[c] # "idle" \/ lease[c] # 0
    /\ Die({c})
    /\ UNCHANGED <<target, temp>>

\* Of what was not on the disk, a part is lost.
AfterPowerFails(content) ==
    IF content.is = "whole" /\ ~content.onDisk THEN Torn ELSE content

PowerFails ==
    /\ Die(Client)
    /\ target' = [f \in File |-> AfterPowerFails(target[f])]
    /\ temp' = [f \in File |-> AfterPowerFails(temp[f])]

ClientStep(c) ==
    \/ Invoke(c) \/ TakeLock(c) \/ LockIsRefused(c) \/ ReadFails(c)
    \/ CommitRecord(c) \/ CommitReversal(c) \/ AcquireEpoch(c)
    \/ WriteFile(c) \/ MoveFile(c)
    \/ LoadRecord(c) \/ LoadReversal(c) \/ ScanRecords(c) \/ ScanReversals(c)
    \/ Return(c) \/ ReleaseLease(c) \/ ClientCrash(c)

FilesNext == PowerFails \/ \E c \in Client : ClientStep(c)

FilesSpec == FilesInit /\ [][FilesNext]_filesVars

\* The token that a caller can see; it is not ready before its file is moved.
Granted(c) == IF asked[c].op = "acquire" /\ at[c] \in {"writes", "moves"}
              THEN 0 ELSE lease[c]

\* What the files hold, for who sees records, an epoch and tokens.
Contents == {r \in Records({target[f] : f \in File}) : r.key # Account}
Epoch == EpochIn(target[FileOf[Account]])
Tokens == [c \in Client |-> Granted(c)]

Promise == INSTANCE RecordStore WITH
    contents <- Contents, epoch <- Epoch, request <- asked, answer <- told, token <- Tokens

\* The stores keep the promise of RecordStore, wherever a client dies and the
\* power fails: a commit is compared and done at one instant, what was committed
\* stays, no record takes the file of another key, a scan has every record, no
\* token is given out twice, and what a dead client left is never read.
StoresKeepTheirPromise == Promise!Spec
================================================================================
