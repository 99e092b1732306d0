----------------------------- MODULE PendingApi -----------------------------
(***************************************************************************)
(* The outbox of the hub: the bolt bucket "PendingAPIRequestMapping"       *)
(* (filesys/filesys.go) and the goroutine that empties it                  *)
(* (cloudapihandler/api_handler.go, HandleApiRequests).                    *)
(*                                                                         *)
(* Every bolt transaction is one step and every gRPC call to the proxy is  *)
(* one step, so the writers of the bucket (the mstore poller, the command  *)
(* goroutines, main at boot) interleave with the handler exactly where the *)
(* code lets them.  A record is abstracted to the version of its key (its  *)
(* OperationTime: every enqueue of a key is a new one) and to the set of   *)
(* channels whose Send... flag is still true.  RetryCount and Properties   *)
(* are written but never read by the control flow and are left out.        *)
(***************************************************************************)
EXTENDS Naturals, FiniteSets

CONSTANTS
    DownloadKeys,   \* content ids, the keys of Downloaded records
    DeleteKeys,     \* "DL_" + content id, the keys of Deleted records
    CommandKeys,    \* command ids, the keys of FilterUpdated records
    DeviceKey,      \* the device id, the key of the Provisioned record
    DownloadSize,   \* DOWNLOAD_TELEMETRY_MESSAGE_SIZE
    DeleteSize,     \* DELETE_TELEMETRY_MESSAGE_SIZE
    Outcomes,       \* what a call to the proxy may do, see AllOutcomes
    MaxEnqueues,    \* bound: enqueues of content and command records
    MaxFailures,    \* bound: failed calls and failed transactions
    MaxCrashes      \* bound: crashes of the hub process

ContentKeys == DownloadKeys \cup DeleteKeys
Keys == ContentKeys \cup CommandKeys \cup {DeviceKey}

(* A call to the proxy is answered in time ("ok"), reaches the cloud but    *)
(* misses the one second deadline ("late"), never arrives ("lost"), or is  *)
(* answered without a gRPC error although the proxy caught an exception     *)
(* and sent nothing ("swallowed": Code = 0, which the hub never reads).    *)
AllOutcomes == {"ok", "late", "lost", "swallowed"}
Acknowledged(o) == o \in {"ok", "swallowed"}
Arrives(o) == o \in {"ok", "late"}

ASSUME KeysAssumption ==
    /\ DownloadKeys \cap DeleteKeys = {}
    /\ ContentKeys \cap CommandKeys = {}
    /\ DeviceKey \notin ContentKeys \cup CommandKeys

ASSUME SizesAssumption == DownloadSize \in Nat \ {0} /\ DeleteSize \in Nat \ {0}

ASSUME OutcomesAssumption == "ok" \in Outcomes /\ Outcomes \subseteq AllOutcomes

ASSUME BoundsAssumption ==
    MaxEnqueues \in Nat /\ MaxFailures \in Nat /\ MaxCrashes \in Nat

VARIABLES
    pending,    \* the bucket: the record stored under each key
    hub,        \* the hub process: "down", "boot" or "up"
    pc,         \* where HandleApiRequests is
    mem,        \* the handler's in-memory copies of the records
    cur,        \* the type ProcessRequests is at
    commits,    \* write transactions since the handler closed its read one
    todo,       \* items of the current type the loop has yet to visit
    batch,      \* contentDataApiBatch ("cloud"), contentPropertiesApiBatch ("iot")
    done,       \* deleteIds of the command handlers
    result,     \* what the last logger.Log returned: "none", "ok" or "err"
    top,        \* history: the newest version enqueued under each key
    acked,      \* history: versions whose send returned a nil error
    delivered,  \* history: versions that reached the cloud
    raced,      \* history: keys whose newest version was enqueued while the
                \* handler held an older one
    enqueues, failures, crashes

storeVars == <<pending, top, raced, commits, enqueues>>
handlerVars == <<pc, mem, cur, todo, batch, done, result>>
historyVars == <<acked, delivered>>
vars == <<storeVars, handlerVars, historyVars, hub, failures, crashes>>

-----------------------------------------------------------------------------
(* Records. *)

Channels == {"cloud", "iot"}
Record == [ver : Nat, flags : SUBSET Channels]
NoEntry == [ver |-> 0, flags |-> {}]
Stored(k) == pending[k].ver # 0
Held(k) == mem[k].ver # 0
Nothing == [k \in Keys |-> NoEntry]

(* Mutant: a flag is spelt differently by the writer and the handler. *)
FreshFlagsMisspelt(k) == IF k \in ContentKeys THEN {"cloud", "iotCentral"} ELSE {}

(* The flags of a new record: the poller sets both, main and the command    *)
(* goroutines leave them at their zero value.                               *)
FreshFlags(k) == IF k \in ContentKeys THEN Channels ELSE {}

(* The channels on which a record has to be reported. *)
Required(k) == IF k \in ContentKeys THEN Channels ELSE {"cloud"}
Reported(k, v) == \A ch \in Required(k) : v \in acked[k][ch]
ReachedCloud(k, v) == \A ch \in Required(k) : v \in delivered[k][ch]

(* ApiType of the records, which GetSegregatedItems groups by. *)
KeysOfType(t) == CASE t = "Downloaded" -> DownloadKeys
                   [] t = "Deleted" -> DeleteKeys
                   [] t = "FilterUpdated" -> CommandKeys
                   [] t = "Provisioned" -> {DeviceKey}
GetSegregatedItems(t) == {k \in KeysOfType(t) : Held(k)}

SendPhases == {"cloud", "iot", "cloudRest", "iotRest"}
Channel(p) == IF p \in {"cloud", "cloudRest"} THEN "cloud" ELSE "iot"
After(p) == CASE p = "cloud" -> "iot"
              [] p = "iot" -> "item"
              [] p = "cloudRest" -> "iotRest"
              [] p = "iotRest" -> "endType"

Handles == {"off", "sleep", "decode", "dispatch", "item", "cmd", "requeue",
            "endType"} \cup SendPhases

Types == {"Downloaded", "Deleted", "FilterUpdated", "Provisioned"}
MessageSize == IF cur = "Downloaded" THEN DownloadSize ELSE DeleteSize

TypeOK ==
    /\ pending \in [Keys -> Record]
    /\ hub \in {"down", "boot", "up"}
    /\ pc \in Handles
    /\ mem \in [Keys -> Record]
    /\ cur \in Types
    /\ commits \in 0..2
    /\ todo \in SUBSET Keys
    /\ batch \in [Channels -> SUBSET Keys]
    /\ done \in SUBSET Keys
    /\ result \in {"none", "ok", "err"}
    /\ top \in [Keys -> Nat]
    /\ acked \in [Keys -> [Channels -> SUBSET Nat]]
    /\ delivered \in [Keys -> [Channels -> SUBSET Nat]]
    /\ raced \in SUBSET Keys
    /\ enqueues \in 0..MaxEnqueues
    /\ failures \in 0..MaxFailures
    /\ crashes \in 0..MaxCrashes

Init ==
    /\ pending = Nothing
    /\ hub = "down"
    /\ pc = "off"
    /\ mem = Nothing
    /\ cur = "Downloaded"
    /\ commits = 0
    /\ todo = {}
    /\ batch = [ch \in Channels |-> {}]
    /\ done = {}
    /\ result = "none"
    /\ top = [k \in Keys |-> 0]
    /\ acked = [k \in Keys |-> [ch \in Channels |-> {}]]
    /\ delivered = [k \in Keys |-> [ch \in Channels |-> {}]]
    /\ raced = {}
    /\ enqueues = 0
    /\ failures = 0
    /\ crashes = 0

-----------------------------------------------------------------------------
(* The bucket's transactions. *)

(* AddContent, AddCommandStatus and AddProvisionedStatus called with a new  *)
(* record: one b.Put in one Update transaction.                             *)
Put(k) ==
    /\ top' = [top EXCEPT ![k] = @ + 1]
    /\ pending' = [pending EXCEPT ![k] = [ver |-> top[k] + 1, flags |-> FreshFlags(k)]]
    /\ raced' = IF Held(k) THEN raced \cup {k} ELSE raced \ {k}
    /\ commits' = IF pc = "decode" /\ commits < 2 THEN commits + 1 ELSE commits

(* DeletePendingAPIRequestEntries: deletes by key, whatever is stored there. *)
DeletePendingAPIRequestEntries(ks) ==
    pending' = [k \in Keys |-> IF k \in ks THEN NoEntry ELSE pending[k]]

(* AddContents (and AddCommandStatus, AddProvisionedStatus) called to put    *)
(* the handler's copies back, whatever is stored under their keys.           *)
AddContents(ks) ==
    pending' = [k \in Keys |-> IF k \in ks THEN mem[k] ELSE pending[k]]

(* The Update transaction of t is committed, or fails: its callers only log. *)
Transaction(t) ==
    \/ t /\ UNCHANGED failures
    \/ /\ failures < MaxFailures
       /\ failures' = failures + 1
       /\ UNCHANGED pending

-----------------------------------------------------------------------------
(* The hub process: main, its writers, and a crash at any point. *)

(* main up to the goroutines that write the bucket (hub.go). *)
Start ==
    /\ hub = "down"
    /\ hub' = "boot"
    /\ UNCHANGED <<storeVars, handlerVars, historyVars, failures, crashes>>

(* main stores the Provisioned record on every boot, does not look whether   *)
(* that failed, and starts HandleApiRequests.                                *)
Provision ==
    /\ hub = "boot"
    /\ hub' = "up"
    /\ \/ Put(DeviceKey) /\ UNCHANGED failures
       \/ /\ failures < MaxFailures
          /\ failures' = failures + 1
          /\ UNCHANGED <<pending, top, raced, commits>>
    /\ pc' = "sleep"
    /\ UNCHANGED <<enqueues, mem, cur, todo, batch, done, result, historyVars, crashes>>

(* The poller (content keys) and the command goroutines (command keys) run   *)
(* from before the handler is started.                                       *)
Enqueue(k) ==
    /\ hub \in {"boot", "up"}
    /\ enqueues < MaxEnqueues
    /\ enqueues' = enqueues + 1
    /\ Put(k)
    /\ UNCHANGED <<hub, handlerVars, historyVars, failures, crashes>>

(* The process dies: the bucket survives, everything in memory is lost.      *)
Crash ==
    /\ hub # "down"
    /\ crashes < MaxCrashes
    /\ crashes' = crashes + 1
    /\ hub' = "down"
    /\ pc' = "off"
    /\ mem' = Nothing
    /\ cur' = "Downloaded"
    /\ todo' = {}
    /\ batch' = [ch \in Channels |-> {}]
    /\ done' = {}
    /\ result' = "none"
    /\ commits' = 0
    /\ UNCHANGED <<pending, top, raced, enqueues, historyVars, failures>>

-----------------------------------------------------------------------------
(* HandleApiRequests: one round. *)

(* The read transaction.  The slices it returns point into the mapped file   *)
(* and are decoded after the transaction is closed.                          *)
GetPendingApiRequests ==
    /\ pc = "sleep"
    /\ pc' = "decode"
    /\ mem' = pending
    /\ commits' = 0
    /\ UNCHANGED <<pending, top, raced, enqueues, cur, todo, batch, done, result,
                   historyVars, hub, failures, crashes>>

(* json.Unmarshal of the slices.  bolt may reuse a page from the second      *)
(* write transaction after the read one on: then the bytes of an item are    *)
(* still the old ones, hold the key's record as it now is, or do not parse,  *)
(* which leaves a zero ApiData that no batch takes.                          *)
Decode ==
    /\ pc = "decode"
    /\ pc' = "dispatch"
    /\ \/ mem' = mem
       \/ /\ commits = 2
          /\ \E unparsed, reread \in SUBSET {k \in Keys : Held(k)} :
               mem' = [k \in Keys |-> IF k \in unparsed THEN NoEntry
                                      ELSE IF k \in reread THEN pending[k] ELSE mem[k]]
    /\ commits' = 0
    /\ UNCHANGED <<pending, top, raced, enqueues, cur, todo, batch, done, result,
                   historyVars, hub, failures, crashes>>

(* ProcessRequests ranges over a Go map: the types come in any order.        *)
ProcessRequests(t) ==
    /\ pc = "dispatch"
    /\ GetSegregatedItems(t) # {}
    /\ cur' = t
    /\ todo' = GetSegregatedItems(t)
    /\ pc' = IF t \in {"Downloaded", "Deleted"} THEN "item" ELSE "cmd"
    /\ UNCHANGED <<storeVars, mem, batch, done, result, historyVars, hub,
                   failures, crashes>>

EndRound ==
    /\ pc = "dispatch"
    /\ \A t \in Types : GetSegregatedItems(t) = {}
    /\ pc' = "sleep"
    /\ UNCHANGED <<storeVars, mem, cur, todo, batch, done, result, historyVars,
                   hub, failures, crashes>>

(* The handler of a type returns: its copies are dropped.                    *)
EndType ==
    /\ pc = "endType"
    /\ pc' = "dispatch"
    /\ mem' = [k \in Keys |-> IF k \in KeysOfType(cur) THEN NoEntry ELSE mem[k]]
    /\ UNCHANGED <<storeVars, cur, todo, batch, done, result, historyVars, hub,
                   failures, crashes>>

-----------------------------------------------------------------------------
(* sendDownloadRequestInBatches and sendDeleteRequestInBatches, which differ *)
(* in the message they build and in messageSize only.                        *)

(* One turn of the loop: the item joins a batch for each flag that is set.   *)
AppendItem(k) ==
    /\ pc = "item"
    /\ k \in todo
    /\ todo' = todo \ {k}
    /\ batch' = [ch \in Channels |-> IF ch \in mem[k].flags THEN batch[ch] \cup {k}
                                                           ELSE batch[ch]]
    /\ pc' = "cloud"
    /\ UNCHANGED <<storeVars, mem, cur, done, result, historyVars, hub,
                   failures, crashes>>

(* Mutant: what is left in the batches after the loop is not sent. *)
LoopDoneNoRest ==
    /\ pc = "item"
    /\ todo = {}
    /\ pc' = "endType"
    /\ batch' = [ch \in Channels |-> {}]
    /\ UNCHANGED <<storeVars, mem, cur, todo, done, result, historyVars, hub,
                   failures, crashes>>

LoopDone ==
    /\ pc = "item"
    /\ todo = {}
    /\ pc' = "cloudRest"
    /\ UNCHANGED <<storeVars, mem, cur, todo, batch, done, result, historyVars,
                   hub, failures, crashes>>

(* In the loop a batch is sent once it is full, after the loop if it holds   *)
(* anything.                                                                 *)
Due(p) ==
    IF p \in {"cloud", "iot"} THEN Cardinality(batch[Channel(p)]) = MessageSize
                              ELSE batch[Channel(p)] # {}

Skip(p) ==
    /\ pc = p
    /\ result = "none"
    /\ ~Due(p)
    /\ pc' = After(p)
    /\ UNCHANGED <<storeVars, mem, cur, todo, batch, done, result, historyVars,
                   hub, failures, crashes>>

(* sendGrpcUpstream: the call for the copies of ks on channel ch comes back  *)
(* with outcome o.                                                           *)
SendGrpcUpstream(ks, ch, o) ==
    LET With(h, put) == [k \in Keys |-> [c \in Channels |->
            IF put /\ k \in ks /\ c = ch THEN h[k][c] \cup {mem[k].ver} ELSE h[k][c]]]
    IN  /\ o # "ok" => failures < MaxFailures
        /\ failures' = IF o = "ok" THEN failures ELSE failures + 1
        /\ acked' = With(acked, Acknowledged(o))
        /\ delivered' = With(delivered, Arrives(o))

SendBatch(p, o) ==
    /\ pc = p
    /\ result = "none"
    /\ Due(p)
    /\ SendGrpcUpstream(batch[Channel(p)], Channel(p), o)
    /\ result' = IF Acknowledged(o) THEN "ok" ELSE "err"
    /\ UNCHANGED <<storeVars, pc, mem, cur, todo, batch, done, hub, crashes>>

(* Mutants: one cleared flag is enough; the flags are looked at before the  *)
(* one of this channel is cleared.                                          *)
IdsToBeRemovedEither(ch) == batch[ch]
IdsToBeRemovedEarly(ch) == {k \in batch[ch] : mem[k].flags = {}}

(* GetApiDataToBeRemovedFromPendingAPI, after setTelemetryFlag cleared the   *)
(* flag of ch: the items of the batch with no flag left.                     *)
IdsToBeRemoved(ch) == {k \in batch[ch] : mem[k].flags \subseteq {ch}}

(* Mutants: the cleared flags are stored and nothing is deleted; the batch  *)
(* is not emptied after it was sent.                                        *)
StoreOkKeepsEntry(p) ==
    LET ch == Channel(p)
    IN  /\ pc = p
        /\ result = "ok"
        /\ mem' = [k \in Keys |-> IF k \in batch[ch]
                                  THEN [mem[k] EXCEPT !.flags = @ \ {ch}] ELSE mem[k]]
        /\ pending' = [k \in Keys |-> IF k \in batch[ch] THEN mem'[k] ELSE pending[k]]
        /\ batch' = [batch EXCEPT ![ch] = {}]
        /\ result' = "none"
        /\ pc' = After(p)
        /\ UNCHANGED <<top, raced, commits, enqueues, cur, todo, done, historyVars,
                       hub, failures, crashes>>

StoreOkKeepsBatch(p) ==
    LET ch == Channel(p)
    IN  /\ pc = p
        /\ result = "ok"
        /\ Transaction(DeletePendingAPIRequestEntries(IdsToBeRemoved(ch)))
        /\ mem' = [k \in Keys |-> IF k \in batch[ch]
                                  THEN [mem[k] EXCEPT !.flags = @ \ {ch}] ELSE mem[k]]
        /\ result' = "none"
        /\ pc' = After(p)
        /\ UNCHANGED <<top, raced, commits, enqueues, cur, todo, batch, done,
                       historyVars, hub, crashes>>

(* AddApiDataBackToPendingAPIBucketOrDelete.  A copy that was removed is not *)
(* used again; a cleared flag reaches the bucket only if a later failure of  *)
(* the other channel puts the copy back.                                     *)
StoreOk(p) ==
    LET ch == Channel(p)
    IN  /\ pc = p
        /\ result = "ok"
        /\ Transaction(DeletePendingAPIRequestEntries(IdsToBeRemoved(ch)))
        /\ mem' = [k \in Keys |->
                     IF k \in IdsToBeRemoved(ch) THEN NoEntry
                     ELSE IF k \in batch[ch]
                          THEN [ver |-> mem[k].ver, flags |-> mem[k].flags \ {ch}]
                          ELSE mem[k]]
        /\ batch' = [batch EXCEPT ![ch] = {}]
        /\ result' = "none"
        /\ pc' = After(p)
        /\ UNCHANGED <<top, raced, commits, enqueues, cur, todo, done, historyVars,
                       hub, crashes>>

(* Mutant: the flag is cleared before the error is looked at. *)
StoreErrClearsFlag(p) ==
    LET ch == Channel(p)
    IN  /\ pc = p
        /\ result = "err"
        /\ mem' = [k \in Keys |-> IF k \in batch[ch]
                                  THEN [mem[k] EXCEPT !.flags = @ \ {ch}] ELSE mem[k]]
        /\ pending' = [k \in Keys |-> IF k \in batch[ch] THEN mem'[k] ELSE pending[k]]
        /\ batch' = [batch EXCEPT ![ch] = {}]
        /\ result' = "none"
        /\ pc' = After(p)
        /\ UNCHANGED <<top, raced, commits, enqueues, cur, todo, done, historyVars,
                       hub, failures, crashes>>

StoreErr(p) ==
    LET ch == Channel(p)
    IN  /\ pc = p
        /\ result = "err"
        /\ Transaction(AddContents(batch[ch]))
        /\ batch' = [batch EXCEPT ![ch] = {}]
        /\ result' = "none"
        /\ pc' = After(p)
        /\ UNCHANGED <<top, raced, commits, enqueues, mem, cur, todo, done,
                       historyVars, hub, crashes>>

-----------------------------------------------------------------------------
(* handleFilterUpdatedRequest and handledProvisionedRequest. *)

(* Mutant: a failed command is put on the delete list too. *)
SendCommandAlwaysDone(k, o) ==
    /\ pc = "cmd"
    /\ k \in todo
    /\ todo' = todo \ {k}
    /\ SendGrpcUpstream({k}, "cloud", o)
    /\ done' = done \cup {k}
    /\ UNCHANGED <<storeVars, pc, mem, cur, batch, result, hub, crashes>>

SendCommand(k, o) ==
    /\ pc = "cmd"
    /\ k \in todo
    /\ todo' = todo \ {k}
    /\ SendGrpcUpstream({k}, "cloud", o)
    /\ IF Acknowledged(o)
       THEN done' = done \cup {k} /\ UNCHANGED <<pc, batch>>
       ELSE /\ pc' = "requeue"
            /\ batch' = [batch EXCEPT !["cloud"] = {k}]
            /\ UNCHANGED done
    /\ UNCHANGED <<storeVars, mem, cur, result, hub, crashes>>

(* The failed request is put back at once; its copy is not used again.       *)
Requeue ==
    /\ pc = "requeue"
    /\ Transaction(AddContents(batch["cloud"]))
    /\ mem' = [k \in Keys |-> IF k \in batch["cloud"] THEN NoEntry ELSE mem[k]]
    /\ batch' = [batch EXCEPT !["cloud"] = {}]
    /\ pc' = "cmd"
    /\ UNCHANGED <<top, raced, commits, enqueues, cur, todo, done, result,
                   historyVars, hub, crashes>>

(* The successful ones are deleted together after the loop.                  *)
DeleteCompleted ==
    /\ pc = "cmd"
    /\ todo = {}
    /\ Transaction(DeletePendingAPIRequestEntries(done))
    /\ done' = {}
    /\ mem' = [k \in Keys |-> IF k \in done THEN NoEntry ELSE mem[k]]
    /\ pc' = "endType"
    /\ UNCHANGED <<top, raced, commits, enqueues, cur, todo, batch, result,
                   historyVars, hub, crashes>>

-----------------------------------------------------------------------------
HandleApiRequests ==
    \/ GetPendingApiRequests
    \/ Decode
    \/ \E t \in Types : ProcessRequests(t)
    \/ EndRound
    \/ EndType
    \/ \E k \in Keys : AppendItem(k)
    \/ LoopDone
    \/ \E p \in SendPhases : Skip(p)
    \/ \E p \in SendPhases, o \in Outcomes : SendBatch(p, o)
    \/ \E p \in SendPhases : StoreOk(p)
    \/ \E p \in SendPhases : StoreErr(p)
    \/ \E k \in Keys, o \in Outcomes : SendCommand(k, o)
    \/ Requeue
    \/ DeleteCompleted

Boot == Start \/ Provision

Next ==
    \/ Boot
    \/ \E k \in ContentKeys \cup CommandKeys : Enqueue(k)
    \/ Crash
    \/ HandleApiRequests

Spec == Init /\ [][Next]_vars

(* The container is restarted by the edge runtime ("restartPolicy": "always") *)
(* and the handler's loop never returns, so both keep taking steps.           *)
Fairness == WF_vars(Boot) /\ WF_vars(HandleApiRequests)

FairSpec == Spec /\ Fairness

-----------------------------------------------------------------------------
(* Properties. *)

(* A stored content record has lost a flag only if that very version was     *)
(* acknowledged on that channel: putting copies back after a failure        *)
(* (api_handler.go, AddApiDataBackToPendingAPIBucketOrDelete) never hides a  *)
(* report that is still owed.                                                *)
FlagsTruthful ==
    \A k \in ContentKeys : Stored(k) =>
        \A ch \in Channels \ pending[k].flags : pending[k].ver \in acked[k][ch]

(* A stored content record has a flag left.  One without would join no batch *)
(* and be deleted by no one: it would stay in the bucket for ever.           *)
NoLimbo == \A k \in ContentKeys : Stored(k) => pending[k].flags # {}

(* The newest version of a key is in the bucket or was acknowledged on every *)
(* channel, whatever crashed or failed, unless it was enqueued while the     *)
(* handler held an older copy of the same key.                               *)
NothingLost ==
    \A k \in Keys \ raced : top[k] # 0 =>
        \/ pending[k].ver = top[k]
        \/ Reported(k, top[k])

RemovalStep ==
    \A k \in Keys : Stored(k) /\ ~Stored(k)' => Held(k) /\ Reported(k, mem[k].ver)

(* Whatever the handler deletes, the version it had read of that key was     *)
(* acknowledged on every channel.                                            *)
RemovedOnlyReported == [][RemovalStep]_vars

(* A key that is no longer in the bucket comes back only with a new version: *)
(* a copy of a deleted record is never put back.                             *)
NoResurrection ==
    [][\A k \in Keys : ~Stored(k) /\ Stored(k)' => pending'[k].ver = top[k] + 1]_vars

(* Once the enqueues, failures and crashes stop, the bucket empties.         *)
Drains == <>[](\A k \in Keys : ~Stored(k))

(* What is enqueued is eventually acknowledged on every channel, races aside. *)
EventuallyReported ==
    \A k \in Keys : Stored(k) ~> (k \in raced \/ Reported(k, top[k]))

(* api_handler.go:466 and :519 "ensure to delete only completed items": an   *)
(* entry is deleted only when that entry, and not an older one under the     *)
(* same key, was reported.                                                   *)
OnlyCompletedDeleted ==
    [][\A k \in CommandKeys : Stored(k) /\ ~Stored(k)' => Reported(k, pending[k].ver)]_vars

(* api_handler.go:462 and :514 "delete entries from db for success ones": an *)
(* entry is deleted only if the version the handler sent reached the cloud.  *)
DeletedReachedCloud ==
    [][\A k \in Keys : Stored(k) /\ ~Stored(k)' => ReachedCloud(k, mem[k].ver)]_vars
=============================================================================
