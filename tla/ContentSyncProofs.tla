------------------------- MODULE ContentSyncProofs -------------------------
(***************************************************************************)
(* Safety of the mstore poller on top of the outbox, for every catalogue,   *)
(* every assignment of contents to satellite ids, every outbox and every    *)
(* pattern of failed transactions and crashes.                             *)
(***************************************************************************)
EXTENDS ContentSync, PendingApiProofs, FiniteSetTheorems

-----------------------------------------------------------------------------
(* The inductive invariant. *)

(* What the poller carries from one transaction to the next, and when.       *)
PollInv ==
    /\ hub = "down" => ppc = "off"
    /\ ppc = "report" => \E c \in asset : fresh = {c}
    /\ ppc # "report" => fresh = {}
    /\ ppc \notin {"delAssets", "delReport"} => gone = {}

(* IndexConsistent in first-order terms, and: a content whose deletion is    *)
(* between its two transactions has lost its satellite id.                   *)
IndexInv ==
    \A c \in Contents \ torn :
        /\ \A s, t \in Index(c) : s = t
        /\ c \in asset <=> (Index(c) # {} \/ (ppc = "delAssets" /\ c \in gone))
        /\ ppc = "delAssets" /\ c \in gone => Index(c) = {}

SyncInv ==
    /\ SyncTypeOK
    /\ IInv
    /\ PollInv
    /\ IndexInv
    /\ EveryChangeQueued

-----------------------------------------------------------------------------
(* The keys of the poller. *)

(* The two keys of a content are keys of the outbox, different from each     *)
(* other and from the device's.                                              *)
LEMMA ContentKeysFacts ==
  /\ \A c \in Contents : c \in Keys /\ DL(c) \in Keys
  /\ \A c \in Contents : c \in ContentKeys /\ DL(c) \in ContentKeys
  /\ \A c, d \in Contents : c # DL(d)
  /\ \A c, d \in Contents : DL(c) = DL(d) => c = d
  /\ \A c \in Contents : c # DeviceKey /\ DL(c) # DeviceKey
  BY SyncAssumption, KeysAssumption DEF Keys, ContentKeys

(* The poller's two ways to touch the outbox keep the outbox's invariant.    *)
LEMMA AddContentKeepsIInv ==
  ASSUME IInv, NEW k \in ContentKeys, hub # "down", AddContent(k)
  PROVE  IInv'
<1> USE DEF AddContent, storeVars, handlerVars, historyVars
<1>1. k \in Keys
  BY DEF Keys
<1>2. TypeOK'
  <2>1. /\ top' \in [Keys -> Nat]
        /\ pending' \in [Keys -> Record]
        /\ raced' \in SUBSET Keys
        /\ commits' \in 0..2
    BY <1>1, PutType DEF IInv
  <2> QED
    BY <2>1 DEF IInv, TypeOK
<1>3. HubInv' /\ BatchInv' /\ TodoInv' /\ DoneInv' /\ ResultInv' /\ CopiesTruthful'
  BY DEF IInv, HubInv, BatchInv, TodoInv, DoneInv, ResultInv, CopiesTruthful, Held
<1>4. FlagsTruthful' /\ NoLimbo'
  BY <1>1, PutTruth DEF IInv
<1>5. Newest' /\ NothingLost'
  BY <1>1 DEF IInv, TypeOK, Newest, NothingLost, Put, Stored, Held, Record, Reported,
              Required
<1> QED
  BY <1>2, <1>3, <1>4, <1>5 DEF IInv

(* A transaction of the poller that fails leaves the outbox as it was. *)
LEMMA FailedTransactionKeepsIInv ==
  ASSUME IInv, FailedTransaction
  PROVE  IInv'
<1> USE DEF FailedTransaction, storeVars, handlerVars, historyVars
<1>1. TypeOK'
  BY BoundsAssumption DEF IInv, TypeOK
<1>2. HubInv' /\ BatchInv' /\ TodoInv' /\ DoneInv' /\ ResultInv' /\ CopiesTruthful'
  BY DEF IInv, HubInv, BatchInv, TodoInv, DoneInv, ResultInv, CopiesTruthful, Held
<1>3. FlagsTruthful' /\ NoLimbo' /\ Newest' /\ NothingLost'
  BY DEF IInv, FlagsTruthful, NoLimbo, Newest, NothingLost, Stored, Held, Reported
<1> QED
  BY <1>1, <1>2, <1>3 DEF IInv

(* The handler enqueues nothing. *)
LEMMA HandlerFrame == HandleApiRequests => UNCHANGED <<top, hub>>
  BY DEF HandleApiRequests, GetPendingApiRequests, Decode, ProcessRequests, EndRound,
         EndType, AppendItem, LoopDone, Skip, SendBatch, StoreOk, StoreErr, SendCommand,
         Requeue, DeleteCompleted, storeVars

(* The outbox's invariant depends on the outbox's variables only. *)
LEMMA IInvUnchanged == IInv /\ UNCHANGED vars => IInv'
  BY IInvStep

(* So every step beside and within a poll keeps the outbox's invariant. *)
LEMMA OutboxStep == SyncInv /\ [SyncNext]_syncVars => IInv'
<1> SUFFICES ASSUME SyncInv, [SyncNext]_syncVars PROVE IInv'
  OBVIOUS
<1> USE IInvUnchanged, FailedTransactionKeepsIInv DEF SyncInv
<1>1. CASE CatalogueChange
  BY <1>1 DEF CatalogueChange
<1>2. CASE SyncStart \/ SyncProvision \/ SyncCrash \/ SyncHandler
  BY <1>2, IInvStep DEF SyncStart, SyncProvision, SyncCrash, SyncHandler, Next, Boot
<1>3. ASSUME NEW c \in Contents, ReportDownloaded(c) \/ ReportDeleted(c) PROVE IInv'
  <2>1. hub # "down"
    BY <1>3 DEF PollInv, ReportDownloaded, ReportDeleted
  <2>2. c \in ContentKeys /\ DL(c) \in ContentKeys
    BY ContentKeysFacts
  <2> QED
    BY <1>3, <2>1, <2>2, AddContentKeepsIInv DEF ReportDownloaded, ReportDeleted
<1>4. CASE UNCHANGED syncVars
  BY <1>4 DEF syncVars
<1> QED
  BY <1>1, <1>2, <1>3, <1>4
  DEF SyncNext, PollMstore, CheckForVODViaMstore, GetMstoreFiles, SkipItem, ListDone,
      DeleteSatelliteIds, DeleteSatelliteIdsFails, DeleteAssetMapping,
      DeleteAssetMappingFails, PollDone

(* What a poll has read and decided stays consistent at each of its steps. *)
LEMMA PollStep == SyncInv /\ [SyncNext]_syncVars => PollInv'
<1> SUFFICES ASSUME SyncInv, [SyncNext]_syncVars PROVE PollInv'
  OBVIOUS
<1> USE DEF SyncInv, SyncTypeOK, PollInv, Phases, vars
<1>1. CASE CatalogueChange
  BY <1>1 DEF CatalogueChange, pollVars
<1>2. CASE SyncStart
  BY <1>2 DEF SyncStart, Start
<1>3. CASE SyncProvision
  BY <1>3 DEF SyncProvision, Provision, pollVars
<1>4. CASE SyncCrash
  BY <1>4 DEF SyncCrash
<1>5. CASE SyncHandler
  BY <1>5, HandlerFrame DEF SyncHandler, pollVars
<1>6. CASE CheckForVODViaMstore
  BY <1>6 DEF CheckForVODViaMstore
<1>7. ASSUME NEW s \in Sids, GetMstoreFiles(s) PROVE PollInv'
  BY <1>7 DEF GetMstoreFiles
<1>8. ASSUME NEW s \in Sids, SkipItem(s) PROVE PollInv'
  BY <1>8 DEF SkipItem, FailedTransaction
<1>9. ASSUME NEW c \in Contents, ReportDownloaded(c) PROVE PollInv'
  BY <1>9 DEF ReportDownloaded, AddContent, FailedTransaction
<1>10. CASE ListDone
  BY <1>10 DEF ListDone
<1>11. CASE DeleteSatelliteIds
  BY <1>11 DEF DeleteSatelliteIds
<1>12. CASE DeleteSatelliteIdsFails
  BY <1>12 DEF DeleteSatelliteIdsFails, FailedTransaction
<1>13. CASE DeleteAssetMapping
  BY <1>13 DEF DeleteAssetMapping
<1>14. CASE DeleteAssetMappingFails
  BY <1>14 DEF DeleteAssetMappingFails, FailedTransaction
<1>15. ASSUME NEW c \in Contents, ReportDeleted(c) PROVE PollInv'
  BY <1>15 DEF ReportDeleted, AddContent, FailedTransaction
<1>16. CASE PollDone
  BY <1>16 DEF PollDone
<1>17. CASE UNCHANGED syncVars
  BY <1>17 DEF syncVars, pollVars
<1> QED
  BY <1>1, <1>2, <1>3, <1>4, <1>5, <1>6, <1>7, <1>8, <1>9, <1>10, <1>11, <1>12, <1>13,
     <1>14, <1>15, <1>16, <1>17
  DEF SyncNext, PollMstore

(* The buckets and the poller's lists keep their types.                      *)
LEMMA SyncTypeStep == SyncInv /\ [SyncNext]_syncVars => SyncTypeOK'
<1> SUFFICES ASSUME SyncInv, [SyncNext]_syncVars PROVE SyncTypeOK'
  OBVIOUS
<1> USE SyncAssumption, OutboxStep DEF SyncInv, IInv, SyncTypeOK, Phases
<1>1. CASE CatalogueChange
  BY <1>1 DEF CatalogueChange, pollVars
<1>2. CASE SyncStart
  BY <1>2 DEF SyncStart, Start
<1>3. CASE SyncProvision
  BY <1>3 DEF SyncProvision, Provision, pollVars
<1>4. CASE SyncCrash
  BY <1>4 DEF SyncCrash, Crash
<1>5. CASE SyncHandler
  BY <1>5 DEF SyncHandler, pollVars
<1>6. CASE CheckForVODViaMstore
  BY <1>6 DEF CheckForVODViaMstore
<1>7. ASSUME NEW s \in Sids, GetMstoreFiles(s) PROVE SyncTypeOK'
  BY <1>7 DEF GetMstoreFiles
<1>8. ASSUME NEW s \in Sids, SkipItem(s) PROVE SyncTypeOK'
  BY <1>8 DEF SkipItem
<1>9. ASSUME NEW c \in Contents, ReportDownloaded(c) PROVE SyncTypeOK'
  BY <1>9 DEF ReportDownloaded
<1>10. CASE ListDone
  BY <1>10 DEF ListDone
<1>11. CASE DeleteSatelliteIds
  BY <1>11 DEF DeleteSatelliteIds, DeletedSatelliteIds
<1>12. CASE DeleteSatelliteIdsFails
  BY <1>12 DEF DeleteSatelliteIdsFails
<1>13. CASE DeleteAssetMapping
  BY <1>13 DEF DeleteAssetMapping
<1>14. CASE DeleteAssetMappingFails
  BY <1>14 DEF DeleteAssetMappingFails
<1>15. ASSUME NEW c \in Contents, ReportDeleted(c) PROVE SyncTypeOK'
  BY <1>15 DEF ReportDeleted
<1>16. CASE PollDone
  BY <1>16 DEF PollDone
<1>17. CASE UNCHANGED syncVars
  BY <1>17 DEF syncVars, pollVars
<1> QED
  BY <1>1, <1>2, <1>3, <1>4, <1>5, <1>6, <1>7, <1>8, <1>9, <1>10, <1>11, <1>12, <1>13,
     <1>14, <1>15, <1>16, <1>17
  DEF SyncNext, PollMstore

(* The two buckets stay in step.                                             *)
LEMMA IndexStep == SyncInv /\ [SyncNext]_syncVars => IndexInv'
<1> SUFFICES ASSUME SyncInv, [SyncNext]_syncVars PROVE IndexInv'
  OBVIOUS
<1> USE SyncAssumption DEF SyncInv, SyncTypeOK, PollInv, IndexInv, Index
<1>1. CASE CatalogueChange
  BY <1>1 DEF CatalogueChange, pollVars
<1>2. CASE SyncStart
  BY <1>2 DEF SyncStart, Start
<1>3. CASE SyncProvision
  BY <1>3 DEF SyncProvision, Provision, pollVars
<1>4. CASE SyncCrash
  BY <1>4 DEF SyncCrash, Crash
<1>5. CASE SyncHandler
  BY <1>5 DEF SyncHandler, pollVars
<1>6. CASE CheckForVODViaMstore
  BY <1>6 DEF CheckForVODViaMstore
<1>7. ASSUME NEW s \in Sids, GetMstoreFiles(s) PROVE IndexInv'
  <2>1. CASE ContentOf[s] \in asset
    BY <1>7, <2>1 DEF GetMstoreFiles
  <2>2. CASE ContentOf[s] \notin asset
    <3>1. ASSUME NEW c \in Contents \ torn, c = ContentOf[s] PROVE Index(c)' = {s} /\ c \in asset'
      BY <1>7, <2>2, <3>1 DEF GetMstoreFiles
    <3>2. ASSUME NEW c \in Contents \ torn, c # ContentOf[s]
          PROVE  Index(c)' = Index(c) /\ (c \in asset' <=> c \in asset)
      BY <1>7, <2>2, <3>2 DEF GetMstoreFiles
    <3> QED
      BY <1>7, <2>2, <3>1, <3>2 DEF GetMstoreFiles
  <2> QED
    BY <2>1, <2>2
<1>8. ASSUME NEW s \in Sids, SkipItem(s) PROVE IndexInv'
  BY <1>8 DEF SkipItem
<1>9. ASSUME NEW c \in Contents, ReportDownloaded(c) PROVE IndexInv'
  BY <1>9 DEF ReportDownloaded
<1>10. CASE ListDone
  BY <1>10 DEF ListDone
<1>11. CASE DeleteSatelliteIds
  <2> SUFFICES ASSUME NEW c \in Contents \ torn
               PROVE  /\ \A s, t \in Index(c)' : s = t
                      /\ c \in asset' <=> (Index(c)' # {} \/ c \in gone')
                      /\ c \in gone' => Index(c)' = {}
    BY <1>11 DEF DeleteSatelliteIds
  <2>1. Index(c)' = Index(c) \cap listed
    BY <1>11 DEF DeleteSatelliteIds, DeletedSatelliteIds
  <2>2. c \in gone' <=> \E s \in Index(c) : s \notin listed
    BY <1>11 DEF DeleteSatelliteIds, DeletedSatelliteIds
  <2>3. asset' = asset
    BY <1>11 DEF DeleteSatelliteIds
  <2> HIDE DEF Index
  <2> QED
    BY <1>11, <2>1, <2>2, <2>3 DEF DeleteSatelliteIds
<1>12. CASE DeleteSatelliteIdsFails
  BY <1>12 DEF DeleteSatelliteIdsFails
<1>13. CASE DeleteAssetMapping
  BY <1>13 DEF DeleteAssetMapping
<1>14. CASE DeleteAssetMappingFails
  BY <1>14 DEF DeleteAssetMappingFails
<1>15. ASSUME NEW c \in Contents, ReportDeleted(c) PROVE IndexInv'
  BY <1>15 DEF ReportDeleted
<1>16. CASE PollDone
  BY <1>16 DEF PollDone
<1>17. CASE UNCHANGED syncVars
  BY <1>17 DEF syncVars, pollVars
<1> QED
  BY <1>1, <1>2, <1>3, <1>4, <1>5, <1>6, <1>7, <1>8, <1>9, <1>10, <1>11, <1>12, <1>13,
     <1>14, <1>15, <1>16, <1>17
  DEF SyncNext, PollMstore

(* Every change is matched by one enqueue.                                   *)
LEMMA ChangeStep == SyncInv /\ [SyncNext]_syncVars => EveryChangeQueued'
<1> SUFFICES ASSUME SyncInv, [SyncNext]_syncVars PROVE EveryChangeQueued'
  OBVIOUS
<1> USE ContentKeysFacts DEF SyncInv, SyncTypeOK, TypeOK, PollInv, IndexInv, EveryChangeQueued,
     One, vars, storeVars
<1>1. CASE CatalogueChange
  BY <1>1 DEF CatalogueChange, pollVars
<1>2. CASE SyncStart
  BY <1>2 DEF SyncStart, Start
<1>3. CASE SyncProvision
  <2>1. \A c \in Contents : top'[c] = top[c] /\ top'[DL(c)] = top[DL(c)]
    BY <1>3 DEF SyncProvision, Provision, Put
  <2> QED
    BY <1>3, <2>1 DEF SyncProvision, pollVars
<1>4. CASE SyncCrash
  BY <1>4 DEF SyncCrash, Crash
<1>5. CASE SyncHandler
  BY <1>5, HandlerFrame DEF SyncHandler, pollVars
<1>6. CASE CheckForVODViaMstore
  BY <1>6 DEF CheckForVODViaMstore
<1>7. ASSUME NEW s \in Sids, GetMstoreFiles(s) PROVE EveryChangeQueued'
  BY <1>7 DEF GetMstoreFiles
<1>8. ASSUME NEW s \in Sids, SkipItem(s) PROVE EveryChangeQueued'
  BY <1>8 DEF SkipItem, FailedTransaction, storeVars
<1>9. ASSUME NEW c \in Contents, ReportDownloaded(c) PROVE EveryChangeQueued'
  <2>1. fresh = {c} /\ fresh' = {} /\ asset' = asset /\ ppc = "report" /\ ppc' = "item" /\ gone' = gone
    BY <1>9 DEF ReportDownloaded
  <2>2. CASE AddContent(c) /\ UNCHANGED torn
    <3>1. \A d \in Contents : /\ top'[d] = IF d = c THEN top[d] + 1 ELSE top[d]
                              /\ top'[DL(d)] = top[DL(d)]
      BY <2>2 DEF AddContent, Put
    <3> QED
      BY SMTT(30), <2>1, <2>2, <3>1
  <2>3. CASE FailedTransaction /\ torn' = torn \cup {c}
    BY <2>1, <2>3 DEF FailedTransaction, storeVars
  <2> QED
    BY <1>9, <2>2, <2>3 DEF ReportDownloaded
<1>10. CASE ListDone
  BY <1>10 DEF ListDone
<1>11. CASE DeleteSatelliteIds
  BY <1>11 DEF DeleteSatelliteIds, DeletedSatelliteIds
<1>12. CASE DeleteSatelliteIdsFails
  BY <1>12 DEF DeleteSatelliteIdsFails, FailedTransaction, storeVars
<1>13. CASE DeleteAssetMapping
  <2>1. \A c \in gone \ torn : c \in asset
    BY <1>13 DEF DeleteAssetMapping
  <2> QED
    BY <1>13, <2>1 DEF DeleteAssetMapping
<1>14. CASE DeleteAssetMappingFails
  BY <1>14 DEF DeleteAssetMappingFails, FailedTransaction, storeVars
<1>15. ASSUME NEW c \in Contents, ReportDeleted(c) PROVE EveryChangeQueued'
  <2>1. /\ ppc = "delReport" /\ ppc' = "delReport" /\ c \in gone /\ gone' = gone \ {c}
        /\ asset' = asset /\ fresh' = fresh
    BY <1>15 DEF ReportDeleted
  <2>2. CASE AddContent(DL(c)) /\ UNCHANGED torn
    <3>1. \A d \in Contents : /\ top'[DL(d)] = IF d = c THEN top[DL(d)] + 1 ELSE top[DL(d)]
                              /\ top'[d] = top[d]
      BY <2>2 DEF AddContent, Put
    <3> QED
      BY <2>1, <2>2, <3>1
  <2>3. CASE FailedTransaction /\ torn' = torn \cup {c}
    BY <2>1, <2>3 DEF FailedTransaction, storeVars
  <2> QED
    BY <1>15, <2>2, <2>3 DEF ReportDeleted
<1>16. CASE PollDone
  BY <1>16 DEF PollDone
<1>17. CASE UNCHANGED syncVars
  BY <1>17 DEF syncVars, pollVars
<1> QED
  BY <1>1, <1>2, <1>3, <1>4, <1>5, <1>6, <1>7, <1>8, <1>9, <1>10, <1>11, <1>12, <1>13,
     <1>14, <1>15, <1>16, <1>17
  DEF SyncNext, PollMstore

-----------------------------------------------------------------------------
(* The hub starts with nothing stored. *)
LEMMA SyncInitInv == SyncInit => SyncInv
<1> SUFFICES ASSUME SyncInit PROVE SyncInv
  OBVIOUS
<1>1. IInv
  BY InitIInv DEF SyncInit
<1>2. SyncTypeOK
  BY <1>1, SyncAssumption DEF SyncInit, SyncTypeOK, IInv, Phases
<1>3. PollInv /\ IndexInv
  BY DEF SyncInit, PollInv, IndexInv, Index
<1>4. EveryChangeQueued
  BY ContentKeysFacts DEF SyncInit, Init, EveryChangeQueued, One
<1> QED
  BY <1>1, <1>2, <1>3, <1>4 DEF SyncInv

(* The invariant is inductive. *)
LEMMA SyncInvInvariant == SyncSpec => []SyncInv
<1>1. SyncInv /\ [SyncNext]_syncVars => SyncInv'
  BY SyncTypeStep, OutboxStep, PollStep, IndexStep, ChangeStep DEF SyncInv
<1> QED
  BY SyncInitInv, <1>1, PTL DEF SyncSpec

(* At most one element, as a set and as a number.                            *)
LEMMA AtMostOne ==
  ASSUME NEW S, \A s, t \in S : s = t
  PROVE  Cardinality(S) <= 1
<1>1. CASE S = {}
  BY <1>1, FS_EmptySet
<1>2. ASSUME NEW s \in S PROVE Cardinality(S) <= 1
  <2>1. S = {s}
    OBVIOUS
  <2>2. Cardinality({s}) = 1
    BY FS_Singleton
  <2> QED
    BY <2>1, <2>2
<1> QED
  BY <1>1, <1>2

(* Every variable of poller and outbox keeps its type.                       *)
THEOREM SyncTypeCorrect == SyncSpec => []SyncTypeOK
<1>1. SyncInv => SyncTypeOK
  BY DEF SyncInv
<1> QED
  BY SyncInvInvariant, <1>1, PTL

(* The satellite map and the asset map agree, for every catalogue and every  *)
(* assignment of contents to satellite ids: a content is indexed under       *)
(* exactly one id unless its change was cut short between two transactions.  *)
THEOREM IndexStaysConsistent == SyncSpec => []IndexConsistent
<1>1. IndexInv => IndexConsistent
  BY AtMostOne DEF IndexInv, IndexConsistent
<1>2. SyncInv => IndexInv
  BY DEF SyncInv
<1> QED
  BY SyncInvInvariant, <1>1, <1>2, PTL

(* Every change of the inventory is enqueued exactly once, whatever the      *)
(* catalogue does and wherever the process dies or a transaction fails, save *)
(* for the contents whose change was cut short.                              *)
THEOREM ChangesQueuedOnce == SyncSpec => []EveryChangeQueued
<1>1. SyncInv => EveryChangeQueued
  BY DEF SyncInv
<1> QED
  BY SyncInvInvariant, <1>1, PTL

(* The poller writes the outbox without taking part in the handler's rounds, *)
(* and the outbox keeps its promises all the same: nothing is lost, and the  *)
(* flags tell the truth.                                                     *)
THEOREM OutboxSafeBesidePoller == SyncSpec => [](NothingLost /\ FlagsTruthful /\ NoLimbo)
<1>1. SyncInv => NothingLost /\ FlagsTruthful /\ NoLimbo
  BY DEF SyncInv, IInv
<1> QED
  BY SyncInvInvariant, <1>1, PTL
=============================================================================
