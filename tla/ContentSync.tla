---------------------------- MODULE ContentSync ----------------------------
(***************************************************************************)
(* The mstore poller (satdata_mstore.go, pollMstore) on top of the outbox   *)
(* of PendingApi: it mirrors the satellite catalogue in two bolt buckets    *)
(* and enqueues a report for every content that came or went.              *)
(*                                                                         *)
(* Only the poller writes the two content buckets, so a read of them and    *)
(* the write it leads to are one step; every write transaction is a step of *)
(* its own, and the process may die, or the transaction fail, at each.      *)
(***************************************************************************)
EXTENDS PendingApi

CONSTANTS
    Sids,         \* satellite ids (vod.Metadata.CID)
    Contents,     \* content ids (UserDefined.Contentid)
    ContentOf,    \* the content a satellite id carries
    DL(_),        \* "DL_" + content id
    MaxChanges    \* bound: changes of the catalogue

ASSUME SyncAssumption ==
    /\ ContentOf \in [Sids -> Contents]
    /\ DownloadKeys = Contents
    /\ DeleteKeys = {DL(c) : c \in Contents}
    /\ \A c, d \in Contents : DL(c) = DL(d) => c = d
    /\ MaxChanges \in Nat

VARIABLES
    catalogue,  \* what mstore lists (external)
    sat,        \* SatelliteIdtoAssetIdMapping: s is mapped to ContentOf[s]
    asset,      \* AssetPathMapping
    ppc,        \* where the poller is
    listed,     \* the vodlist of this poll
    left,       \* its items still to process
    fresh,      \* contents indexed, report not yet enqueued (at most one)
    gone,       \* deletedContentIds not yet dealt with
    changes,
    torn        \* history: contents whose change was cut short by a crash or
                \* by a failed transaction

pollVars == <<sat, asset, ppc, listed, left, fresh, gone, torn>>
syncVars == <<vars, catalogue, changes, pollVars>>

Phases == {"off", "sleep", "item", "report", "deleted", "delAssets", "delReport"}

SyncTypeOK ==
    /\ TypeOK
    /\ catalogue \in SUBSET Sids
    /\ sat \in SUBSET Sids
    /\ asset \in SUBSET Contents
    /\ ppc \in Phases
    /\ listed \in SUBSET Sids
    /\ left \in SUBSET Sids
    /\ fresh \in SUBSET Contents
    /\ gone \in SUBSET Contents
    /\ torn \in SUBSET Contents
    /\ changes \in 0..MaxChanges

SyncInit ==
    /\ Init
    /\ catalogue = {}
    /\ sat = {}
    /\ asset = {}
    /\ ppc = "off"
    /\ listed = {}
    /\ left = {}
    /\ fresh = {}
    /\ gone = {}
    /\ torn = {}
    /\ changes = 0

-----------------------------------------------------------------------------
(* mstore (external): contents are broadcast and expire. *)

CatalogueChange ==
    /\ changes < MaxChanges
    /\ changes' = changes + 1
    /\ \E s \in Sids : catalogue' = IF s \in catalogue THEN catalogue \ {s}
                                                       ELSE catalogue \cup {s}
    /\ UNCHANGED <<vars, pollVars>>

-----------------------------------------------------------------------------
(* One poll. *)

(* A failed Update transaction of the poller: it is logged, nothing is       *)
(* retried.                                                                  *)
FailedTransaction ==
    /\ failures < MaxFailures
    /\ failures' = failures + 1
    /\ UNCHANGED <<storeVars, handlerVars, historyVars, hub, crashes>>

(* The poller enqueues a record under key k.                                 *)
AddContent(k) ==
    /\ Put(k)
    /\ UNCHANGED <<enqueues, handlerVars, historyVars, hub, failures, crashes>>

(* The list is fetched.  If the call fails or does not parse, the poll ends  *)
(* there: nothing happens until the next one.                                *)
CheckForVODViaMstore ==
    /\ ppc = "sleep"
    /\ ppc' = "item"
    /\ listed' = catalogue
    /\ left' = catalogue
    /\ UNCHANGED <<vars, catalogue, changes, sat, asset, fresh, gone, torn>>

(* Mutant: the content is indexed again under each satellite id. *)
GetMstoreFilesNoCheck(s) ==
    /\ ppc = "item"
    /\ s \in left \cap catalogue
    /\ left' = left \ {s}
    /\ sat' = sat \cup {s}
    /\ asset' = asset \cup {ContentOf[s]}
    /\ fresh' = {ContentOf[s]}
    /\ ppc' = "report"
    /\ UNCHANGED <<vars, catalogue, changes, listed, gone, torn>>

(* The metadata is there: a content not yet indexed is, in one transaction.  *)
GetMstoreFiles(s) ==
    /\ ppc = "item"
    /\ s \in left \cap catalogue
    /\ left' = left \ {s}
    /\ IF ContentOf[s] \in asset
       THEN UNCHANGED <<ppc, sat, asset, fresh>>
       ELSE /\ sat' = sat \cup {s}
            /\ asset' = asset \cup {ContentOf[s]}
            /\ fresh' = {ContentOf[s]}
            /\ ppc' = "report"
    /\ UNCHANGED <<vars, catalogue, changes, listed, gone, torn>>

(* No usable metadata (a failed call or an empty content id, or status "15"  *)
(* for an id that has expired since) or a failed indexing transaction: the   *)
(* item waits for the next poll.                                             *)
SkipItem(s) ==
    /\ ppc = "item"
    /\ s \in left
    /\ left' = left \ {s}
    /\ \/ s \notin catalogue /\ UNCHANGED vars
       \/ FailedTransaction
    /\ UNCHANGED <<catalogue, changes, sat, asset, ppc, listed, fresh, gone, torn>>

(* The Downloaded record, in a transaction of its own.                       *)
ReportDownloaded(c) ==
    /\ ppc = "report"
    /\ c \in fresh
    /\ \/ AddContent(c) /\ UNCHANGED torn
       \/ FailedTransaction /\ torn' = torn \cup {c}
    /\ fresh' = {}
    /\ ppc' = "item"
    /\ UNCHANGED <<catalogue, changes, sat, asset, listed, left, gone>>

ListDone ==
    /\ ppc = "item"
    /\ left = {}
    /\ ppc' = "deleted"
    /\ UNCHANGED <<vars, catalogue, changes, sat, asset, listed, left, fresh, gone, torn>>

(* handleDeletedContents compares the satellite map with the list of this    *)
(* poll and drops the satellite ids that are not listed any more.            *)
DeletedSatelliteIds == sat \ listed

(* Mutant: the contents are looked up after their satellite ids are gone. *)
DeleteSatelliteIdsFirst ==
    /\ ppc = "deleted"
    /\ sat' = sat \ DeletedSatelliteIds
    /\ gone' = {ContentOf[s] : s \in sat' \ listed}
    /\ ppc' = "delAssets"
    /\ UNCHANGED <<vars, catalogue, changes, asset, listed, left, fresh, torn>>

DeleteSatelliteIds ==
    /\ ppc = "deleted"
    /\ sat' = sat \ DeletedSatelliteIds
    /\ gone' = {ContentOf[s] : s \in DeletedSatelliteIds}
    /\ ppc' = "delAssets"
    /\ UNCHANGED <<vars, catalogue, changes, asset, listed, left, fresh, torn>>

(* The first transaction fails: the poll ends, the next one finds the same.  *)
DeleteSatelliteIdsFails ==
    /\ ppc = "deleted"
    /\ FailedTransaction
    /\ ppc' = "sleep"
    /\ UNCHANGED <<catalogue, changes, sat, asset, listed, left, fresh, gone, torn>>

(* The second one drops their contents; if it fails the satellite ids are    *)
(* gone already and nothing leads back to the contents.                      *)
DeleteAssetMapping ==
    /\ ppc = "delAssets"
    /\ asset' = asset \ gone
    /\ ppc' = "delReport"
    /\ UNCHANGED <<vars, catalogue, changes, sat, listed, left, fresh, gone, torn>>

DeleteAssetMappingFails ==
    /\ ppc = "delAssets"
    /\ FailedTransaction
    /\ torn' = torn \cup gone
    /\ gone' = {}
    /\ ppc' = "sleep"
    /\ UNCHANGED <<catalogue, changes, sat, asset, listed, left, fresh>>

(* Mutants: the record is stored under the content id, without "DL_"; no     *)
(* record is stored.                                                         *)
ReportDeletedSameKey(c) ==
    /\ ppc = "delReport"
    /\ c \in gone
    /\ AddContent(c)
    /\ gone' = gone \ {c}
    /\ UNCHANGED <<catalogue, changes, sat, asset, ppc, listed, left, fresh, torn>>

ReportDeletedNever(c) ==
    /\ ppc = "delReport"
    /\ c \in gone
    /\ gone' = gone \ {c}
    /\ UNCHANGED <<vars, catalogue, changes, sat, asset, ppc, listed, left, fresh, torn>>

(* The Deleted records, one transaction each.                                *)
ReportDeleted(c) ==
    /\ ppc = "delReport"
    /\ c \in gone
    /\ \/ AddContent(DL(c)) /\ UNCHANGED torn
       \/ FailedTransaction /\ torn' = torn \cup {c}
    /\ gone' = gone \ {c}
    /\ UNCHANGED <<catalogue, changes, sat, asset, ppc, listed, left, fresh>>

PollDone ==
    /\ ppc = "delReport"
    /\ gone = {}
    /\ ppc' = "sleep"
    /\ UNCHANGED <<vars, catalogue, changes, sat, asset, listed, left, fresh, gone, torn>>

PollMstore ==
    \/ CheckForVODViaMstore
    \/ \E s \in Sids : GetMstoreFiles(s)
    \/ \E s \in Sids : SkipItem(s)
    \/ \E c \in Contents : ReportDownloaded(c)
    \/ ListDone
    \/ DeleteSatelliteIds
    \/ DeleteSatelliteIdsFails
    \/ DeleteAssetMapping
    \/ DeleteAssetMappingFails
    \/ \E c \in Contents : ReportDeleted(c)
    \/ PollDone

-----------------------------------------------------------------------------
(* The process.  main starts the poller before it stores the Provisioned     *)
(* record; a crash loses the poller's place.                                 *)

SyncStart ==
    /\ Start
    /\ ppc' = "sleep"
    /\ UNCHANGED <<catalogue, changes, sat, asset, listed, left, fresh, gone, torn>>

SyncProvision == Provision /\ UNCHANGED <<catalogue, changes, pollVars>>

SyncCrash ==
    /\ Crash
    /\ torn' = torn \cup fresh \cup gone
    /\ ppc' = "off"
    /\ listed' = {}
    /\ left' = {}
    /\ fresh' = {}
    /\ gone' = {}
    /\ UNCHANGED <<catalogue, changes, sat, asset>>

SyncHandler == HandleApiRequests /\ UNCHANGED <<catalogue, changes, pollVars>>

SyncNext ==
    \/ CatalogueChange
    \/ SyncStart
    \/ SyncProvision
    \/ SyncCrash
    \/ PollMstore
    \/ SyncHandler

SyncSpec == SyncInit /\ [][SyncNext]_syncVars

(* The poller's loop never returns either.                                   *)
SyncFairSpec ==
    /\ SyncSpec
    /\ WF_syncVars(SyncStart \/ SyncProvision)
    /\ WF_syncVars(SyncHandler)
    /\ WF_syncVars(PollMstore)

-----------------------------------------------------------------------------
(* Properties. *)

Index(c) == {s \in sat : ContentOf[s] = c}

(* The two buckets agree: a content is indexed under exactly one satellite   *)
(* id, except while its deletion is between its two transactions or after    *)
(* that was cut short.  GetMstoreFiles and handleDeletedContents keep them   *)
(* in step over any sequence of broadcasts and polls.                        *)
IndexConsistent ==
    \A c \in Contents \ torn :
        /\ Cardinality(Index(c)) <= 1
        /\ c \in asset <=> (Index(c) # {} \/ (ppc = "delAssets" /\ c \in gone))

One(b) == IF b THEN 1 ELSE 0

(* Every change of the inventory is enqueued exactly once: the numbers of    *)
(* Downloaded and Deleted records of a content differ by one while it is on  *)
(* the device and not at all while it is not, save for the report that the   *)
(* poller has still to enqueue in this poll.                                 *)
EveryChangeQueued ==
    \A c \in Contents \ torn :
        top[c] + One(c \in fresh)
          = top[DL(c)] + One(c \in asset) + One(ppc = "delReport" /\ c \in gone)

(* The inventory ends up mirroring the catalogue, once that stops changing.  *)
InventoryConverges ==
    \A c \in Contents :
        <>[](c \in torn \/ (c \in asset <=> \E s \in catalogue : ContentOf[s] = c))

(* A content that stays on the device is reported as downloaded, and one     *)
(* that left it is reported as deleted, on both channels.                    *)
CloudLearns ==
    \A c \in Contents :
        /\ c \in asset ~> \/ c \notin asset
                          \/ c \in torn \cup raced
                          \/ Reported(c, top[c])
        /\ (top[c] > 0 /\ c \notin asset) ~>
               \/ c \in asset
               \/ c \in torn
               \/ DL(c) \in raced
               \/ top[DL(c)] = top[c] /\ Reported(DL(c), top[DL(c)])
=============================================================================
