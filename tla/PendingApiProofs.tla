-------------------------- MODULE PendingApiProofs --------------------------
(***************************************************************************)
(* Safety of the outbox for every set of keys, every message size and every *)
(* number of enqueues, failures and crashes.                               *)
(***************************************************************************)
EXTENDS PendingApi, TLAPS

-----------------------------------------------------------------------------
(* The inductive invariant. *)

LoopPhases == {"item", "cloud", "iot"}

(* The handler exists only while the process is up. *)
HubInv == hub # "up" => pc = "off"

(* What sits in a batch is a copy whose flag for that channel is still set;  *)
(* outside the batch loops the batches are empty.                            *)
BatchInv ==
    /\ pc \in LoopPhases \cup SendPhases =>
         \A ch \in Channels : \A k \in batch[ch] :
            k \in ContentKeys /\ Held(k) /\ ch \in mem[k].flags
    /\ pc = "requeue" =>
         /\ batch["iot"] = {}
         /\ \A k \in batch["cloud"] : Held(k) /\ k \notin ContentKeys
    /\ pc = "iotRest" => batch["cloud"] = {}
    /\ pc \notin LoopPhases \cup SendPhases \cup {"requeue"} =>
         \A ch \in Channels : batch[ch] = {}

(* The items still to visit are held, in no batch and of the right kind.     *)
TodoInv ==
    /\ \A k \in todo : Held(k)
    /\ \A ch \in Channels : todo \cap batch[ch] = {}
    /\ pc \in LoopPhases => todo \subseteq ContentKeys
    /\ pc \in {"cmd", "requeue"} => todo \cap ContentKeys = {}
    /\ pc \notin LoopPhases \cup {"cmd", "requeue"} => todo = {}

(* A command in done was acknowledged and is not visited again.              *)
DoneInv ==
    /\ \A k \in done : /\ Held(k)
                       /\ k \notin ContentKeys
                       /\ mem[k].ver \in acked[k]["cloud"]
    /\ done \cap todo = {}
    /\ done \cap batch["cloud"] = {}
    /\ pc \notin {"cmd", "requeue"} => done = {}

(* Between the answer and the transaction, a good answer stands for an       *)
(* acknowledgement of every copy in the batch.                               *)
ResultInv ==
    /\ result # "none" => pc \in SendPhases
    /\ result = "ok" => \A k \in batch[Channel(pc)] :
                           mem[k].ver \in acked[k][Channel(pc)]

(* FlagsTruthful, for the copies as well.                                    *)
CopiesTruthful ==
    \A k \in ContentKeys : Held(k) =>
        \A ch \in Channels \ mem[k].flags : mem[k].ver \in acked[k][ch]

(* Of a key that was never raced, bucket and copy hold the newest version,   *)
(* and a copy has its record in the bucket.                                  *)
Newest ==
    \A k \in Keys \ raced :
        /\ Stored(k) => pending[k].ver = top[k]
        /\ Held(k) => pending[k].ver = top[k] /\ mem[k].ver = top[k]

IInv ==
    /\ TypeOK
    /\ HubInv
    /\ BatchInv
    /\ TodoInv
    /\ DoneInv
    /\ ResultInv
    /\ FlagsTruthful
    /\ CopiesTruthful
    /\ NoLimbo
    /\ Newest
    /\ NothingLost

-----------------------------------------------------------------------------
(* Type correctness. *)

(* An empty bucket. *)
LEMMA NothingType == Nothing \in [Keys -> Record]
  BY DEF Nothing, NoEntry, Record

(* An entry is stored. *)
LEMMA PutType ==
  ASSUME TypeOK, NEW k \in Keys, Put(k)
  PROVE  /\ top' \in [Keys -> Nat]
         /\ pending' \in [Keys -> Record]
         /\ raced' \in SUBSET Keys
         /\ commits' \in 0..2
  BY DEF TypeOK, Put, FreshFlags, Record

(* The two ways a transaction ends. *)
LEMMA TransactionType ==
  ASSUME TypeOK, NEW ks \in SUBSET Keys,
         \/ Transaction(DeletePendingAPIRequestEntries(ks))
         \/ Transaction(AddContents(ks))
  PROVE  /\ pending' \in [Keys -> Record]
         /\ failures' \in 0..MaxFailures
  BY BoundsAssumption
  DEF TypeOK, Transaction, DeletePendingAPIRequestEntries, AddContents, NoEntry, Record

(* A report is sent. *)
LEMMA SendType ==
  ASSUME TypeOK, NEW ks \in SUBSET Keys, NEW ch \in Channels, NEW o \in Outcomes,
         SendGrpcUpstream(ks, ch, o)
  PROVE  /\ acked' \in [Keys -> [Channels -> SUBSET Nat]]
         /\ delivered' \in [Keys -> [Channels -> SUBSET Nat]]
         /\ failures' \in 0..MaxFailures
  BY BoundsAssumption DEF TypeOK, SendGrpcUpstream, Record

(* Every step keeps the types. *)
LEMMA TypeStep == TypeOK /\ [Next]_vars => TypeOK'
<1> SUFFICES ASSUME TypeOK, [Next]_vars PROVE TypeOK'
  OBVIOUS
<1> USE DEF storeVars, handlerVars, historyVars
<1>1. CASE Start
  BY <1>1 DEF Start, TypeOK
<1>2. CASE Provision
  <2>1. DeviceKey \in Keys
    BY DEF Keys
  <2> QED
    BY <1>2, <2>1, PutType, BoundsAssumption DEF Provision, TypeOK, Handles
<1>3. ASSUME NEW k \in ContentKeys \cup CommandKeys, Enqueue(k) PROVE TypeOK'
  <2>1. k \in Keys
    BY DEF Keys
  <2> QED
    BY <1>3, <2>1, PutType, BoundsAssumption DEF Enqueue, TypeOK
<1>4. CASE Crash
  BY <1>4, NothingType, BoundsAssumption DEF Crash, TypeOK, Handles, Types
<1>5. CASE GetPendingApiRequests
  BY <1>5 DEF GetPendingApiRequests, TypeOK, Handles
<1>6. CASE Decode
  <2>1. NoEntry \in Record
    BY DEF NoEntry, Record
  <2>2. mem' \in [Keys -> Record]
    BY <1>6, <2>1 DEF Decode, TypeOK
  <2> QED
    BY <1>6, <2>2 DEF Decode, TypeOK, Handles
<1>7. ASSUME NEW t \in Types, ProcessRequests(t) PROVE TypeOK'
  <2>1. GetSegregatedItems(t) \subseteq Keys
    BY DEF GetSegregatedItems, KeysOfType, Types, Keys, ContentKeys
  <2> QED
    BY <1>7, <2>1 DEF ProcessRequests, TypeOK, Handles
<1>8. CASE EndRound
  BY <1>8 DEF EndRound, TypeOK, Handles
<1>9. CASE EndType
  BY <1>9 DEF EndType, TypeOK, Handles, NoEntry, Record
<1>10. ASSUME NEW k \in Keys, AppendItem(k) PROVE TypeOK'
  BY <1>10 DEF AppendItem, TypeOK, Handles, SendPhases
<1>11. CASE LoopDone
  BY <1>11 DEF LoopDone, TypeOK, Handles, SendPhases
<1>12. ASSUME NEW p \in SendPhases, Skip(p) PROVE TypeOK'
  BY <1>12 DEF Skip, After, TypeOK, Handles, SendPhases
<1>13. ASSUME NEW p \in SendPhases, NEW o \in Outcomes, SendBatch(p, o) PROVE TypeOK'
  <2>1. Channel(p) \in Channels /\ batch[Channel(p)] \in SUBSET Keys
    BY DEF Channel, Channels, TypeOK
  <2> QED
    BY <1>13, <2>1, SendType DEF SendBatch, TypeOK
<1>14. ASSUME NEW p \in SendPhases, StoreOk(p) PROVE TypeOK'
  <2>1. Channel(p) \in Channels /\ IdsToBeRemoved(Channel(p)) \in SUBSET Keys
    BY DEF Channel, Channels, TypeOK, IdsToBeRemoved
  <2>2. After(p) \in Handles
    BY DEF After, Handles, SendPhases
  <2>3. /\ pending' \in [Keys -> Record]
        /\ failures' \in 0..MaxFailures
    BY <1>14, <2>1, TransactionType DEF StoreOk
  <2>4. mem' \in [Keys -> Record]
    BY <1>14 DEF StoreOk, TypeOK, NoEntry, Record
  <2> QED
    BY <1>14, <2>1, <2>2, <2>3, <2>4 DEF StoreOk, TypeOK
<1>15. ASSUME NEW p \in SendPhases, StoreErr(p) PROVE TypeOK'
  <2>1. Channel(p) \in Channels /\ batch[Channel(p)] \in SUBSET Keys
    BY DEF Channel, Channels, TypeOK
  <2>2. After(p) \in Handles
    BY DEF After, Handles, SendPhases
  <2>3. /\ pending' \in [Keys -> Record]
        /\ failures' \in 0..MaxFailures
    BY <1>15, <2>1, TransactionType DEF StoreErr
  <2> QED
    BY <1>15, <2>1, <2>2, <2>3 DEF StoreErr, TypeOK
<1>16. ASSUME NEW k \in Keys, NEW o \in Outcomes, SendCommand(k, o) PROVE TypeOK'
  <2>1. "cloud" \in Channels
    BY DEF Channels
  <2>2. /\ acked' \in [Keys -> [Channels -> SUBSET Nat]]
        /\ delivered' \in [Keys -> [Channels -> SUBSET Nat]]
        /\ failures' \in 0..MaxFailures
    BY <1>16, <2>1, SendType DEF SendCommand
  <2>3. batch' \in [Channels -> SUBSET Keys] /\ done' \in SUBSET Keys /\ pc' \in Handles
    BY <1>16, <2>1 DEF SendCommand, TypeOK, Handles
  <2> QED
    BY <1>16, <2>2, <2>3 DEF SendCommand, TypeOK
<1>17. CASE Requeue
  <2>1. "cloud" \in Channels /\ batch["cloud"] \in SUBSET Keys
    BY DEF Channels, TypeOK
  <2>2. /\ pending' \in [Keys -> Record]
        /\ failures' \in 0..MaxFailures
    BY <1>17, <2>1, TransactionType DEF Requeue
  <2> QED
    BY <1>17, <2>1, <2>2 DEF Requeue, TypeOK, Handles, NoEntry, Record
<1>18. CASE DeleteCompleted
  <2>1. /\ pending' \in [Keys -> Record]
        /\ failures' \in 0..MaxFailures
    BY <1>18, TransactionType DEF DeleteCompleted, TypeOK
  <2> QED
    BY <1>18, <2>1 DEF DeleteCompleted, TypeOK, Handles, NoEntry, Record
<1>19. CASE UNCHANGED vars
  BY <1>19 DEF vars, TypeOK
<1> QED
  BY <1>1, <1>2, <1>3, <1>4, <1>5, <1>6, <1>7, <1>8, <1>9, <1>10, <1>11, <1>12,
     <1>13, <1>14, <1>15, <1>16, <1>17, <1>18, <1>19
  DEF Next, Boot, HandleApiRequests

(* The types at the start. *)
LEMMA TypeInit == Init => TypeOK
  BY NothingType, BoundsAssumption DEF Init, TypeOK, Handles, Types

(* Every variable keeps its type in every behaviour of the outbox.           *)
THEOREM TypeCorrect == Spec => []TypeOK
<1>1. TypeOK /\ [Next]_vars => TypeOK'
  BY TypeStep
<1> QED
  BY TypeInit, <1>1, PTL DEF Spec

-----------------------------------------------------------------------------
(* The safety invariants. *)

(* The loops keep batches and remaining items apart.                         *)
LEMMA ControlStep ==
  ASSUME TypeOK, HubInv, BatchInv, TodoInv, [Next]_vars
  PROVE  (HubInv /\ BatchInv /\ TodoInv)'
<1> USE DEF storeVars, handlerVars, historyVars, TypeOK, HubInv, BatchInv, TodoInv,
           Held, LoopPhases, SendPhases, Channels, Record
<1>1. CASE Start
  BY <1>1 DEF Start
<1>2. CASE Provision
  BY <1>2 DEF Provision, Put, FreshFlags
<1>3. ASSUME NEW k \in ContentKeys \cup CommandKeys, Enqueue(k)
      PROVE  (HubInv /\ BatchInv /\ TodoInv)'
  BY <1>3 DEF Enqueue, Put, FreshFlags
<1>4. CASE Crash
  BY <1>4 DEF Crash, Nothing, NoEntry
<1>5. CASE GetPendingApiRequests
  BY <1>5 DEF GetPendingApiRequests
<1>6. CASE Decode
  BY <1>6 DEF Decode, NoEntry
<1>7. ASSUME NEW t \in Types, ProcessRequests(t)
      PROVE  (HubInv /\ BatchInv /\ TodoInv)'
  BY <1>7, KeysAssumption DEF ProcessRequests, GetSegregatedItems, KeysOfType, Types,
     ContentKeys, Keys
<1>8. CASE EndRound
  BY <1>8 DEF EndRound
<1>9. CASE EndType
  BY <1>9 DEF EndType, NoEntry
<1>10. ASSUME NEW k \in Keys, AppendItem(k)
      PROVE  (HubInv /\ BatchInv /\ TodoInv)'
  BY <1>10 DEF AppendItem
<1>11. CASE LoopDone
  BY <1>11 DEF LoopDone
<1>12. ASSUME NEW p \in SendPhases, Skip(p)
      PROVE  (HubInv /\ BatchInv /\ TodoInv)'
  BY <1>12 DEF Skip, After, Channel, Due
<1>13. ASSUME NEW p \in SendPhases, NEW o \in Outcomes, SendBatch(p, o)
      PROVE  (HubInv /\ BatchInv /\ TodoInv)'
  BY <1>13 DEF SendBatch, SendGrpcUpstream, Channel
<1>14. ASSUME NEW p \in SendPhases, StoreOk(p)
      PROVE  (HubInv /\ BatchInv /\ TodoInv)'
  BY <1>14 DEF StoreOk, Transaction, DeletePendingAPIRequestEntries, IdsToBeRemoved,
     After, Channel, NoEntry
<1>15. ASSUME NEW p \in SendPhases, StoreErr(p)
      PROVE  (HubInv /\ BatchInv /\ TodoInv)'
  BY <1>15 DEF StoreErr, Transaction, AddContents, After, Channel
<1>16. ASSUME NEW k \in Keys, NEW o \in Outcomes, SendCommand(k, o)
      PROVE  (HubInv /\ BatchInv /\ TodoInv)'
  BY <1>16 DEF SendCommand, SendGrpcUpstream
<1>17. CASE Requeue
  BY <1>17 DEF Requeue, Transaction, AddContents, NoEntry
<1>18. CASE DeleteCompleted
  BY <1>18 DEF DeleteCompleted, Transaction, DeletePendingAPIRequestEntries, NoEntry
<1>19. CASE UNCHANGED vars
  BY <1>19 DEF vars
<1> QED
  BY <1>1, <1>2, <1>3, <1>4, <1>5, <1>6, <1>7, <1>8, <1>9, <1>10, <1>11, <1>12, <1>13,
     <1>14, <1>15, <1>16, <1>17, <1>18, <1>19
  DEF Next, Boot, HandleApiRequests

(* An answer is remembered for exactly the copies that were sent.            *)
LEMMA AnswerStep ==
  ASSUME TypeOK, HubInv, BatchInv, TodoInv, DoneInv, ResultInv, [Next]_vars
  PROVE  (DoneInv /\ ResultInv)'
<1> USE DEF storeVars, handlerVars, historyVars, TypeOK, HubInv, BatchInv, TodoInv,
           DoneInv, ResultInv, Held, LoopPhases, SendPhases, Channels, Record,
           Channel
<1>1. CASE Start
  BY <1>1 DEF Start
<1>2. CASE Provision
  BY <1>2 DEF Provision, Put, FreshFlags
<1>3. ASSUME NEW k \in ContentKeys \cup CommandKeys, Enqueue(k)
      PROVE  (DoneInv /\ ResultInv)'
  BY <1>3 DEF Enqueue, Put, FreshFlags
<1>4. CASE Crash
  BY <1>4 DEF Crash, Nothing, NoEntry
<1>5. CASE GetPendingApiRequests
  BY <1>5 DEF GetPendingApiRequests
<1>6. CASE Decode
  BY <1>6 DEF Decode, NoEntry
<1>7. ASSUME NEW t \in Types, ProcessRequests(t)
      PROVE  (DoneInv /\ ResultInv)'
  BY <1>7, KeysAssumption DEF ProcessRequests, GetSegregatedItems, KeysOfType, Types,
     ContentKeys, Keys
<1>8. CASE EndRound
  BY <1>8 DEF EndRound
<1>9. CASE EndType
  BY <1>9 DEF EndType, NoEntry
<1>10. ASSUME NEW k \in Keys, AppendItem(k)
      PROVE  (DoneInv /\ ResultInv)'
  BY <1>10 DEF AppendItem
<1>11. CASE LoopDone
  BY <1>11 DEF LoopDone
<1>12. ASSUME NEW p \in SendPhases, Skip(p)
      PROVE  (DoneInv /\ ResultInv)'
  BY <1>12 DEF Skip, After, Channel, Due
<1>13. ASSUME NEW p \in SendPhases, NEW o \in Outcomes, SendBatch(p, o)
      PROVE  (DoneInv /\ ResultInv)'
  BY <1>13 DEF SendBatch, SendGrpcUpstream, Channel, Acknowledged
<1>14. ASSUME NEW p \in SendPhases, StoreOk(p)
      PROVE  (DoneInv /\ ResultInv)'
  BY <1>14 DEF StoreOk, Transaction, DeletePendingAPIRequestEntries, IdsToBeRemoved,
     After, Channel, NoEntry
<1>15. ASSUME NEW p \in SendPhases, StoreErr(p)
      PROVE  (DoneInv /\ ResultInv)'
  BY <1>15 DEF StoreErr, Transaction, AddContents, After, Channel
<1>16. ASSUME NEW k \in Keys, NEW o \in Outcomes, SendCommand(k, o)
      PROVE  (DoneInv /\ ResultInv)'
  BY <1>16 DEF SendCommand, SendGrpcUpstream, Acknowledged
<1>17. CASE Requeue
  BY <1>17 DEF Requeue, Transaction, AddContents, NoEntry
<1>18. CASE DeleteCompleted
  BY <1>18 DEF DeleteCompleted, Transaction, DeletePendingAPIRequestEntries, NoEntry
<1>19. CASE UNCHANGED vars
  BY <1>19 DEF vars
<1> QED
  BY <1>1, <1>2, <1>3, <1>4, <1>5, <1>6, <1>7, <1>8, <1>9, <1>10, <1>11, <1>12, <1>13,
     <1>14, <1>15, <1>16, <1>17, <1>18, <1>19
  DEF Next, Boot, HandleApiRequests

(* A new record owes every report.                                           *)
LEMMA PutTruth ==
  ASSUME TypeOK, FlagsTruthful, NoLimbo, NEW k \in Keys, Put(k), UNCHANGED acked
  PROVE  FlagsTruthful' /\ NoLimbo'
<1>1. ASSUME NEW j \in ContentKeys, Stored(j)'
      PROVE  /\ pending'[j].flags # {}
             /\ \A ch \in Channels \ pending'[j].flags : pending'[j].ver \in acked'[j][ch]
  <2>1. j \in Keys
    BY DEF Keys
  <2>2. CASE j = k
    BY <2>1, <2>2 DEF Put, TypeOK, FreshFlags, Channels
  <2>3. CASE j # k
    BY <1>1, <2>1, <2>3 DEF Put, TypeOK, Stored, FlagsTruthful, NoLimbo
  <2> QED
    BY <2>2, <2>3
<1> QED
  BY <1>1 DEF FlagsTruthful, NoLimbo

(* Flags are cleared only by acknowledgements, in the copies and the bucket. *)
LEMMA TruthStep ==
  ASSUME TypeOK, BatchInv, ResultInv, FlagsTruthful, CopiesTruthful, NoLimbo,
         [Next]_vars
  PROVE  (FlagsTruthful /\ CopiesTruthful /\ NoLimbo)'
<1> USE DEF storeVars, handlerVars, historyVars, TypeOK, BatchInv, ResultInv,
           FlagsTruthful, CopiesTruthful, NoLimbo, Held, Stored, LoopPhases,
           SendPhases, Channels, Record, ContentKeys, Keys
<1>1. CASE Start
  BY <1>1 DEF Start
<1>2. CASE Provision
  <2>1. DeviceKey \in Keys
    BY DEF Keys
  <2>2. FlagsTruthful' /\ NoLimbo'
    BY <1>2, <2>1, PutTruth DEF Provision
  <2> QED
    BY <1>2, <2>2 DEF Provision
<1>3. ASSUME NEW k \in ContentKeys \cup CommandKeys, Enqueue(k)
      PROVE  (FlagsTruthful /\ CopiesTruthful /\ NoLimbo)'
  <2>1. k \in Keys
    BY DEF Keys
  <2>2. FlagsTruthful' /\ NoLimbo'
    BY <1>3, <2>1, PutTruth DEF Enqueue
  <2> QED
    BY <1>3, <2>2 DEF Enqueue
<1>4. CASE Crash
  BY <1>4 DEF Crash, Nothing, NoEntry
<1>5. CASE GetPendingApiRequests
  BY <1>5 DEF GetPendingApiRequests
<1>6. CASE Decode
  BY <1>6 DEF Decode, NoEntry
<1>7. ASSUME NEW t \in Types, ProcessRequests(t)
      PROVE  (FlagsTruthful /\ CopiesTruthful /\ NoLimbo)'
  BY <1>7, KeysAssumption DEF ProcessRequests, GetSegregatedItems, KeysOfType, Types,
     ContentKeys, Keys
<1>8. CASE EndRound
  BY <1>8 DEF EndRound
<1>9. CASE EndType
  BY <1>9 DEF EndType, NoEntry
<1>10. ASSUME NEW k \in Keys, AppendItem(k)
      PROVE  (FlagsTruthful /\ CopiesTruthful /\ NoLimbo)'
  BY <1>10 DEF AppendItem
<1>11. CASE LoopDone
  BY <1>11 DEF LoopDone
<1>12. ASSUME NEW p \in SendPhases, Skip(p)
      PROVE  (FlagsTruthful /\ CopiesTruthful /\ NoLimbo)'
  BY <1>12 DEF Skip, After, Channel, Due
<1>13. ASSUME NEW p \in SendPhases, NEW o \in Outcomes, SendBatch(p, o)
      PROVE  (FlagsTruthful /\ CopiesTruthful /\ NoLimbo)'
  BY <1>13 DEF SendBatch, SendGrpcUpstream, Channel
<1>14. ASSUME NEW p \in SendPhases, StoreOk(p)
      PROVE  (FlagsTruthful /\ CopiesTruthful /\ NoLimbo)'
  <2>1. FlagsTruthful' /\ NoLimbo'
    BY <1>14 DEF StoreOk, Transaction, DeletePendingAPIRequestEntries, NoEntry
  <2>2. ASSUME NEW k \in ContentKeys, Held(k)', NEW ch \in Channels \ mem'[k].flags
        PROVE  mem'[k].ver \in acked'[k][ch]
    <3>1. k \in Keys
      OBVIOUS
    <3>2. CASE k \in batch[Channel(p)]
      <4>1. /\ mem'[k].ver = mem[k].ver
            /\ mem'[k].flags = mem[k].flags \ {Channel(p)}
        BY <1>14, <2>2, <3>1, <3>2 DEF StoreOk, NoEntry
      <4>2. mem[k].ver \in acked[k][Channel(p)]
        BY <1>14, <3>2 DEF StoreOk
      <4> QED
        BY <1>14, <2>2, <4>1, <4>2 DEF StoreOk
    <3>3. CASE k \notin batch[Channel(p)]
      BY <1>14, <2>2, <3>1, <3>3 DEF StoreOk, IdsToBeRemoved
    <3> QED
      BY <3>2, <3>3
  <2> QED
    BY <2>1, <2>2 DEF CopiesTruthful
<1>15. ASSUME NEW p \in SendPhases, StoreErr(p)
      PROVE  (FlagsTruthful /\ CopiesTruthful /\ NoLimbo)'
  BY <1>15 DEF StoreErr, Transaction, AddContents, After, Channel
<1>16. ASSUME NEW k \in Keys, NEW o \in Outcomes, SendCommand(k, o)
      PROVE  (FlagsTruthful /\ CopiesTruthful /\ NoLimbo)'
  BY <1>16 DEF SendCommand, SendGrpcUpstream
<1>17. CASE Requeue
  BY <1>17 DEF Requeue, Transaction, AddContents, NoEntry
<1>18. CASE DeleteCompleted
  BY <1>18 DEF DeleteCompleted, Transaction, DeletePendingAPIRequestEntries, NoEntry
<1>19. CASE UNCHANGED vars
  BY <1>19 DEF vars
<1> QED
  BY <1>1, <1>2, <1>3, <1>4, <1>5, <1>6, <1>7, <1>8, <1>9, <1>10, <1>11, <1>12, <1>13,
     <1>14, <1>15, <1>16, <1>17, <1>18, <1>19
  DEF Next, Boot, HandleApiRequests

(* A key is deleted only when its newest version was acknowledged.           *)
LEMMA NewestStep ==
  ASSUME TypeOK, BatchInv, DoneInv, ResultInv, CopiesTruthful, Newest, NothingLost,
         [Next]_vars
  PROVE  (Newest /\ NothingLost)'
<1> USE DEF storeVars, handlerVars, historyVars, TypeOK, BatchInv, DoneInv,
           ResultInv, CopiesTruthful, Newest, NothingLost, Held, Stored, LoopPhases,
           SendPhases, Channels, Record, Reported, Required, Keys
<1>1. CASE Start
  BY <1>1 DEF Start
<1>2. CASE Provision
  BY <1>2 DEF Provision, Put, FreshFlags
<1>3. ASSUME NEW k \in ContentKeys \cup CommandKeys, Enqueue(k)
      PROVE  (Newest /\ NothingLost)'
  BY <1>3 DEF Enqueue, Put, FreshFlags
<1>4. CASE Crash
  BY <1>4 DEF Crash, Nothing, NoEntry
<1>5. CASE GetPendingApiRequests
  BY <1>5 DEF GetPendingApiRequests
<1>6. CASE Decode
  BY <1>6 DEF Decode, NoEntry
<1>7. ASSUME NEW t \in Types, ProcessRequests(t)
      PROVE  (Newest /\ NothingLost)'
  BY <1>7, KeysAssumption DEF ProcessRequests, GetSegregatedItems, KeysOfType, Types,
     ContentKeys, Keys
<1>8. CASE EndRound
  BY <1>8 DEF EndRound
<1>9. CASE EndType
  BY <1>9 DEF EndType, NoEntry
<1>10. ASSUME NEW k \in Keys, AppendItem(k)
      PROVE  (Newest /\ NothingLost)'
  BY <1>10 DEF AppendItem
<1>11. CASE LoopDone
  BY <1>11 DEF LoopDone
<1>12. ASSUME NEW p \in SendPhases, Skip(p)
      PROVE  (Newest /\ NothingLost)'
  BY <1>12 DEF Skip, After, Channel, Due
<1>13. ASSUME NEW p \in SendPhases, NEW o \in Outcomes, SendBatch(p, o)
      PROVE  (Newest /\ NothingLost)'
  BY <1>13 DEF SendBatch, SendGrpcUpstream, Channel
<1>14. ASSUME NEW p \in SendPhases, StoreOk(p)
      PROVE  (Newest /\ NothingLost)'
  BY <1>14 DEF StoreOk, Transaction, DeletePendingAPIRequestEntries, IdsToBeRemoved,
     After, Channel, NoEntry
<1>15. ASSUME NEW p \in SendPhases, StoreErr(p)
      PROVE  (Newest /\ NothingLost)'
  BY <1>15 DEF StoreErr, Transaction, AddContents, After, Channel
<1>16. ASSUME NEW k \in Keys, NEW o \in Outcomes, SendCommand(k, o)
      PROVE  (Newest /\ NothingLost)'
  BY <1>16 DEF SendCommand, SendGrpcUpstream
<1>17. CASE Requeue
  BY <1>17 DEF Requeue, Transaction, AddContents, NoEntry
<1>18. CASE DeleteCompleted
  BY <1>18 DEF DeleteCompleted, Transaction, DeletePendingAPIRequestEntries, NoEntry
<1>19. CASE UNCHANGED vars
  BY <1>19 DEF vars
<1> QED
  BY <1>1, <1>2, <1>3, <1>4, <1>5, <1>6, <1>7, <1>8, <1>9, <1>10, <1>11, <1>12, <1>13,
     <1>14, <1>15, <1>16, <1>17, <1>18, <1>19
  DEF Next, Boot, HandleApiRequests

(* The outbox at the start. *)
LEMMA InitIInv == Init => IInv
<1> SUFFICES ASSUME Init PROVE IInv
  OBVIOUS
<1> QED
  BY TypeInit
  DEF Init, IInv, HubInv, BatchInv, TodoInv, DoneInv, ResultInv, FlagsTruthful,
      CopiesTruthful, NoLimbo, Newest, NothingLost, Nothing, NoEntry, Held, Stored,
      LoopPhases, SendPhases, ContentKeys, Keys

(* Every step keeps every part of the invariant. *)
LEMMA IInvStep == IInv /\ [Next]_vars => IInv'
  BY TypeStep, ControlStep, AnswerStep, TruthStep, NewestStep DEF IInv

(* So the invariant holds always. *)
LEMMA IInvInvariant == Spec => []IInv
  BY InitIInv, IInvStep, PTL DEF Spec

(* No report is lost: for every set of keys, batch size and pattern of        *)
(* failures, crashes and lost or swallowed calls, the newest version of a key *)
(* that was not enqueued while the handler held an older copy is in the       *)
(* bucket or was acknowledged on every channel it is due on.                  *)
THEOREM NoReportLost == Spec => []NothingLost
<1>1. IInv => NothingLost
  BY DEF IInv
<1> QED
  BY IInvInvariant, <1>1, PTL

(* The bucket's flags tell the truth: a cleared flag of a stored content      *)
(* record stands for an acknowledgement of that version on that channel.      *)
THEOREM FlagsSound == Spec => []FlagsTruthful
<1>1. IInv => FlagsTruthful
  BY DEF IInv
<1> QED
  BY IInvInvariant, <1>1, PTL

(* No record is stranded: a content record that                               *)
(* AddApiDataBackToPendingAPIBucketOrDelete leaves in the bucket still has a  *)
(* flag set, so a later round sends and deletes it.                           *)
THEOREM NoneStranded == Spec => []NoLimbo
<1>1. IInv => NoLimbo
  BY DEF IInv
<1> QED
  BY IInvInvariant, <1>1, PTL

(* Only two steps delete, and both only delete what they had reported.       *)
LEMMA RemovalStepHolds ==
  ASSUME IInv, [Next]_vars
  PROVE  RemovalStep
<1> USE DEF IInv, TypeOK, RemovalStep, Stored, storeVars, handlerVars, historyVars
<1>1. ASSUME NEW p \in SendPhases, StoreOk(p)
      PROVE  RemovalStep
  <2> SUFFICES ASSUME NEW k \in Keys, Stored(k), ~Stored(k)'
               PROVE  Held(k) /\ Reported(k, mem[k].ver)
    BY DEF RemovalStep
  <2>1. k \in IdsToBeRemoved(Channel(p))
    BY <1>1 DEF StoreOk, Transaction, DeletePendingAPIRequestEntries
  <2>2. /\ k \in ContentKeys
        /\ Held(k)
        /\ mem[k].ver \in acked[k][Channel(p)]
    BY <1>1, <2>1 DEF StoreOk, IdsToBeRemoved, BatchInv, ResultInv, Channel, Channels
  <2>3. \A ch \in Channels \ {Channel(p)} : mem[k].ver \in acked[k][ch]
    BY <2>1, <2>2 DEF IdsToBeRemoved, CopiesTruthful
  <2> QED
    BY <2>2, <2>3 DEF Reported, Required
<1>2. CASE DeleteCompleted
  BY <1>2 DEF DeleteCompleted, Transaction, DeletePendingAPIRequestEntries, DoneInv,
              Reported, Required
<1>3. ASSUME NEW p \in SendPhases, StoreErr(p)
      PROVE  RemovalStep
  BY <1>3 DEF StoreErr, Transaction, AddContents, BatchInv, Channel, Channels, Held
<1>4. CASE Requeue
  BY <1>4 DEF Requeue, Transaction, AddContents, BatchInv, Held
<1>5. CASE Provision
  <2>1. CASE Put(DeviceKey)
    BY <2>1 DEF Put
  <2>2. CASE UNCHANGED pending
    BY <2>2
  <2> QED
    BY <1>5, <2>1, <2>2 DEF Provision
<1>6. ASSUME NEW k \in ContentKeys \cup CommandKeys, Enqueue(k)
      PROVE  RemovalStep
  BY <1>6 DEF Enqueue, Put
<1>7. CASE UNCHANGED pending
  BY <1>7
<1> QED
  BY <1>1, <1>2, <1>3, <1>4, <1>5, <1>6, <1>7
  DEF Next, Boot, HandleApiRequests, vars, Start, Crash, GetPendingApiRequests, Decode,
      ProcessRequests, EndRound, EndType, AppendItem, LoopDone, Skip, SendBatch,
      SendCommand

(* A transaction of the handler empties a key only if the version the handler *)
(* had read of it was acknowledged on every channel it is due on.             *)
THEOREM RemovalsSound == Spec => RemovedOnlyReported
<1>1. IInv /\ [Next]_vars => [RemovalStep]_vars
  BY RemovalStepHolds
<1> QED
  BY IInvInvariant, <1>1, PTL DEF Spec, RemovedOnlyReported

-----------------------------------------------------------------------------
(* What the handler holds a copy of is still in the bucket, raced or not:    *)
(* the only transactions that delete also drop the copies.                   *)
HeldStored == \A k \in Keys : Held(k) => Stored(k)

(* No step deletes what the handler holds. *)
LEMMA HeldStoredStep ==
  ASSUME TypeOK, BatchInv, HeldStored, [Next]_vars
  PROVE  HeldStored'
<1> USE DEF storeVars, handlerVars, historyVars, TypeOK, BatchInv, HeldStored, Held,
           Stored, LoopPhases, SendPhases, Channels, Channel, Record, Keys
<1>1. CASE Provision
  BY <1>1 DEF Provision, Put
<1>2. ASSUME NEW k \in ContentKeys \cup CommandKeys, Enqueue(k) PROVE HeldStored'
  BY <1>2 DEF Enqueue, Put
<1>3. CASE Crash
  BY <1>3 DEF Crash, Nothing, NoEntry
<1>4. CASE GetPendingApiRequests
  BY <1>4 DEF GetPendingApiRequests
<1>5. CASE Decode
  BY <1>5 DEF Decode, NoEntry
<1>6. CASE EndType
  BY <1>6 DEF EndType, NoEntry
<1>7. ASSUME NEW p \in SendPhases, StoreOk(p) PROVE HeldStored'
  BY <1>7 DEF StoreOk, Transaction, DeletePendingAPIRequestEntries, IdsToBeRemoved, NoEntry
<1>8. ASSUME NEW p \in SendPhases, StoreErr(p) PROVE HeldStored'
  BY <1>8 DEF StoreErr, Transaction, AddContents
<1>9. CASE Requeue
  BY <1>9 DEF Requeue, Transaction, AddContents, NoEntry
<1>10. CASE DeleteCompleted
  BY <1>10 DEF DeleteCompleted, Transaction, DeletePendingAPIRequestEntries, NoEntry
<1>11. CASE UNCHANGED <<pending, mem>>
  BY <1>11
<1> QED
  BY <1>1, <1>2, <1>3, <1>4, <1>5, <1>6, <1>7, <1>8, <1>9, <1>10, <1>11
  DEF Next, Boot, HandleApiRequests, vars, Start, ProcessRequests, EndRound, AppendItem,
      LoopDone, Skip, SendBatch, SendCommand

(* So this holds always. *)
LEMMA HeldStoredInvariant == Spec => []HeldStored
<1>1. Init => HeldStored
  BY DEF Init, HeldStored, Held, Nothing, NoEntry
<1>2. IInv /\ HeldStored /\ [Next]_vars => HeldStored'
  BY HeldStoredStep DEF IInv
<1> QED
  BY <1>1, <1>2, IInvInvariant, PTL DEF Spec

(* The step of NoResurrection: a key that is not in the bucket enters it     *)
(* with a new version.                                                       *)
EntersAsNew == \A k \in Keys : ~Stored(k) /\ Stored(k)' => pending'[k].ver = top[k] + 1

(* No step puts an old version back. *)
LEMMA EntersAsNewHolds ==
  ASSUME TypeOK, BatchInv, HeldStored, [Next]_vars
  PROVE  EntersAsNew
<1> USE DEF storeVars, TypeOK, BatchInv, HeldStored, Held, EntersAsNew, Stored,
           LoopPhases, SendPhases, Channels, Channel, NoEntry
<1>1. CASE Provision
  BY <1>1 DEF Provision, Put, Keys
<1>2. ASSUME NEW k \in ContentKeys \cup CommandKeys, Enqueue(k) PROVE EntersAsNew
  BY <1>2 DEF Enqueue, Put, Keys
<1>3. ASSUME NEW p \in SendPhases, StoreOk(p) PROVE EntersAsNew
  BY <1>3 DEF StoreOk, Transaction, DeletePendingAPIRequestEntries
<1>4. ASSUME NEW p \in SendPhases, StoreErr(p) PROVE EntersAsNew
  BY <1>4 DEF StoreErr, Transaction, AddContents
<1>5. CASE Requeue
  BY <1>5 DEF Requeue, Transaction, AddContents
<1>6. CASE DeleteCompleted
  BY <1>6 DEF DeleteCompleted, Transaction, DeletePendingAPIRequestEntries
<1>7. CASE UNCHANGED pending
  BY <1>7
<1> QED
  BY <1>1, <1>2, <1>3, <1>4, <1>5, <1>6, <1>7
  DEF Next, Boot, HandleApiRequests, vars, Start, Crash, GetPendingApiRequests, Decode,
      ProcessRequests, EndRound, EndType, AppendItem, LoopDone, Skip, SendBatch,
      SendCommand

(* A deleted record never comes back, not even for a key that was stored     *)
(* again while the handler held an older copy: what AddContents puts back    *)
(* after a failed send is still in the bucket.                               *)
THEOREM NothingResurrected == Spec => NoResurrection
<1>1. IInv /\ HeldStored /\ [Next]_vars => [EntersAsNew]_vars
  BY EntersAsNewHolds DEF IInv
<1> QED
  BY IInvInvariant, HeldStoredInvariant, <1>1, PTL DEF Spec, NoResurrection, EntersAsNew
=============================================================================
