--------------------------- MODULE KeyManagerProofs ---------------------------
(***************************************************************************)
(* Proofs about KeyManager for any cache size, any number of concurrent    *)
(* AddNewPublicKey calls and any blobs.                                    *)
(*                                                                         *)
(* The argument.  Outside the files that two calls of one second shared,   *)
(* every good file of the directory has exactly one owner: an entry of the *)
(* cache, a call on its way into it, or the list that main still has to    *)
(* load.  Eviction therefore removes the file of the entry it forgets and  *)
(* no other.  A reader without the lock lags behind the slice by what it   *)
(* has overlooked, and the slice moves only once in an eviction.           *)
(***************************************************************************)
EXTENDS KeyManager, FiniteSetTheorems, TLAPS

Phases == {"idle", "create", "write", "read", "lock", "shift", "append"}
Answers == {"idle", "scan", "ok", "unauthorized", "panic"}
Hubs == {"down", "store", "load", "up"}
Reading == {"read", "lock", "shift", "append"}
Texts == Keys \cup {Empty, Bad}
ProcType == [pc : Phases, file : Times, key : Keys \cup {Bad}]
Shifting == \E p \in Procs : proc[p].pc = "shift"

(* Types.                                                                    *)
DataInv ==
    /\ DOMAIN files \subseteq Times /\ files \in [DOMAIN files -> Texts]
    /\ clock \in Times /\ collided \subseteq Times
    /\ DOMAIN offered \subseteq Times /\ offered \in [DOMAIN offered -> Keys]
    /\ log \in Seq([file : Times, key : Keys]) /\ base \in 0..Len(log)
    /\ todo \subseteq [file : Times, key : Keys \cup {Bad}]
    /\ proc \in [Procs -> ProcType]
    /\ hub \in Hubs /\ loaded \in BOOLEAN /\ fresh \in BOOLEAN
    /\ adds \in 0..MaxAdds /\ faults \in 0..MaxFaults

(* What is under way in each phase of the hub. *)
PhaseInv ==
    /\ \A p \in Procs : proc[p].pc \in Phases \ {"idle", "read"} => proc[p].key \in Keys
    /\ \A p \in Adders : proc[p].pc = "read" => proc[p].key \in Keys
    /\ \A p \in Adders : proc[p].pc # "idle" => hub = "up"
    /\ proc[Main].pc \in {"create", "write"} => hub = "store"
    /\ proc[Main].pc \in Reading => hub = "load"
    /\ hub \in {"down", "store"} => log = <<>> /\ base = 0
    /\ hub \in {"down", "up"} => todo = {}
    /\ hub = "store" => \A e \in todo : e.key \in Keys
    /\ hub = "load" => collided = {} /\ \A e \in todo : e.key = Bad
    /\ loaded => hub = "up"
    /\ fresh => loaded /\ collided = {} /\ \A p \in Procs : proc[p].pc = "idle"
    /\ request.pc # "idle" => hub = "up"

(* The lock: one call evicts at a time, and the slice is full meanwhile. *)
EvictInv ==
    /\ \A p, q \in Procs : Evicting(p) /\ Evicting(q) => p = q
    /\ Len(log) <= base + MaxLength
    /\ \A p \in Procs : proc[p].pc = "shift" => Len(log) = base + MaxLength
    /\ \A p \in Procs : proc[p].pc = "append" => Len(log) + 1 = base + MaxLength

(* The entries whose file has not been removed. *)
Live == IF Shifting THEN base + 2..Len(log) ELSE base + 1..Len(log)
Managed == loaded \/ hub = "load"
Holds(p) == proc[p].pc \in Reading \cup {"write"}

(* A file belongs to one call, entry or file to load, unless the clock gave  *)
(* its name out twice.                                                       *)
OwnInv ==
    Managed =>
      /\ \A p, q \in Procs : Holds(p) /\ Holds(q) /\ proc[p].file = proc[q].file
                               => p = q \/ proc[p].file \in collided
      /\ \A p \in Procs, i \in Live : Holds(p) /\ proc[p].file = log[i].file
                                        => log[i].file \in collided
      /\ \A i, j \in Live : log[i].file = log[j].file => i = j \/ log[i].file \in collided
      /\ \A e \in todo, p \in Procs : Holds(p) => proc[p].file # e.file
      /\ \A e \in todo, i \in Live : log[i].file # e.file

(* And it holds the key of whom it belongs to.                               *)
TextInv ==
    Managed =>
      /\ \A p \in Procs : proc[p].pc = "write" /\ proc[p].file \notin collided
           => proc[p].file \in DOMAIN files /\ files[proc[p].file] = Empty
      /\ \A p \in Procs : Holds(p) /\ proc[p].file \notin collided => proc[p].file \in DOMAIN files
      /\ \A p \in Procs : /\ proc[p].pc \in Reading /\ proc[p].file \notin collided
                          /\ proc[p].key # Bad
           => files[proc[p].file] = proc[p].key
      /\ \A i \in Live : log[i].file \notin collided
           => log[i].file \in DOMAIN files /\ files[log[i].file] = log[i].key
      /\ \A e \in todo : e.file \in DOMAIN files

(* Every readable file belongs to somebody.                                  *)
OwnerInv ==
    Managed =>
      \A t \in Good(files) \ collided :
         \/ \E e \in todo : e.file = t
         \/ \E p \in Procs : proc[p].pc \in Reading /\ proc[p].file = t
         \/ \E i \in Live : log[i].file = t

(* t was evicted in the load: the cache has filled up with newer files. *)
Evicted(t) ==
    /\ Len(log) = base + MaxLength \/ proc[Main].pc = "append"
    /\ \A i \in Live : t < log[i].file
    /\ proc[Main].pc \in Reading => t < proc[Main].file
    /\ \A e \in todo : t < e.file

(* The cache, what main holds and what it has still to load are sorted. *)
Sorted ==
    /\ \A i, j \in Cached : i < j => log[i].file < log[j].file
    /\ \A i \in Cached, e \in todo : log[i].file < e.file
    /\ proc[Main].pc \in Reading => /\ \A i \in Cached : log[i].file < proc[Main].file
                                    /\ \A e \in todo : proc[Main].file < e.file

(* What is loaded is what was offered.                                       *)
FromOffer ==
    /\ \A i \in Cached : log[i].file \in DOMAIN offered /\ log[i].key = offered[log[i].file]
    /\ proc[Main].pc \in Reading \ {"read"} =>
          proc[Main].file \in DOMAIN offered /\ proc[Main].key = offered[proc[Main].file]
    /\ \A t \in Good(files) : t \in DOMAIN offered /\ files[t] = offered[t]

(* What was offered is still there or was evicted.                           *)
Accounted == \A t \in DOMAIN offered : t \in Good(files) \/ Evicted(t)

LoadInv == (hub = "load" \/ fresh) => Sorted /\ FromOffer /\ Accounted

One == IF Shifting THEN 1 ELSE 0
Clean == Len(request.list) > 0 /\ Seen # Junk
Listed == {request.list[j] : j \in 1..Len(request.list)}
Missed == {a \in request.always : a <= Seen /\ a \notin Listed}

Requests == [pc : Answers, token : Keys \cup {Bad}, list : Seq(Nat), always : SUBSET Nat,
             ever : SUBSET Nat, windows : Nat]
RequestType ==
    /\ request \in Requests
    /\ request.always \subseteq 1..Len(log) /\ request.ever \subseteq 1..Len(log)

(* What a reader has read was in the slice while it read; junk only at the   *)
(* end of a full slice that was being shifted.                               *)
InWindow ==
    /\ request.always \subseteq Cached /\ Cached \subseteq request.ever
    /\ Len(request.list) <= MaxLength
    /\ Locked => request.windows >= 1
    /\ \A j \in 1..Len(request.list) :
         /\ request.list[j] # Junk => request.list[j] \in request.ever
         /\ request.list[j] = Junk => j = MaxLength /\ request.windows >= 1

(* How far behind a reader is.  Seen - Len(list) is the start of the slice   *)
(* as the reader last saw it.                                                *)
Start == Seen - Len(request.list)
Behind ==
    /\ 0 <= Start /\ Start <= base + One
    /\ Cardinality(Missed) + base + One - Start <= request.windows
    /\ \A a \in request.always : a <= Start + CurrentLength

(* Junk is the last that a reader reads. *)
Torn == Cardinality(request.always \ Listed) <= request.windows

ScanInv ==
    request.pc = "scan" =>
      /\ InWindow
      /\ Clean => Behind
      /\ (Len(request.list) > 0 /\ ~Clean) => Torn

IInv ==
    /\ DataInv /\ PhaseInv /\ EvictInv
    /\ OwnInv /\ TextInv /\ OwnerInv /\ LoadInv
    /\ RequestType /\ ScanInv /\ AuthSound

-----------------------------------------------------------------------------
(* The bounds are numbers, and the slice holds one key at least. *)
LEMMA Bounds == MaxLength \in Nat \ {0} /\ MaxTime \in Nat /\ MaxAdds \in Nat /\ MaxFaults \in Nat
  BY KeysAssumption

(* An empty or an unreadable file is not a key. *)
LEMMA Texted == Empty \notin Keys /\ Bad \notin Keys /\ Empty # Bad
  BY KeysAssumption DEF Empty, Bad

(* The number of entries in the slice. *)
LEMMA CachedSize ==
    ASSUME log \in Seq([file : Times, key : Keys]), base \in 0..Len(log)
    PROVE  IsFiniteSet(Cached) /\ Cardinality(Cached) = Len(log) - base
<1> base \in Nat /\ Len(log) \in Nat /\ base <= Len(log) /\ base + 1 \in Int /\ Len(log) \in Int
  OBVIOUS
<1>1. /\ IsFiniteSet(base + 1..Len(log))
      /\ Cardinality(base + 1..Len(log)) = IF base + 1 > Len(log) THEN 0 ELSE Len(log) - (base + 1) + 1
  BY FS_Interval
<1> QED
  BY <1>1 DEF Cached

(* The file t is written with v, or removed, and no other. *)
Stores(t, v) ==
    /\ files' \in [DOMAIN files' -> Texts] /\ DOMAIN files' = DOMAIN files \cup {t}
    /\ files'[t] = v /\ \A x \in DOMAIN files : x # t => files'[x] = files[x]
Removes(t) ==
    /\ files' \in [DOMAIN files' -> Texts] /\ DOMAIN files' = DOMAIN files \ {t}
    /\ \A x \in DOMAIN files' : files'[x] = files[x]

(* A file is written. *)
LEMMA PutStores ==
    ASSUME files \in [DOMAIN files -> Texts], NEW t, NEW v \in Texts, files' = Put(files, t, v)
    PROVE  Stores(t, v)
  BY DEF Put, Stores

(* A file is removed. *)
LEMMA DropRemoves ==
    ASSUME files \in [DOMAIN files -> Texts], NEW t, files' = Drop(files, t)
    PROVE  Removes(t)
  BY DEF Drop, Removes

(* What each step does to the directory. *)
LEMMA FileSteps ==
    ASSUME DataInv, PhaseInv, NEW p \in Procs
    PROVE  /\ Create(p) => IF proc[p].file \in DOMAIN files THEN files' = files
                           ELSE Stores(proc[p].file, Empty)
           /\ Write(p) => IF proc[p].file \notin DOMAIN files THEN files' = files
                          ELSE \/ Stores(proc[p].file, proc[p].key)
                               \/ /\ Stores(proc[p].file, Bad)
                                  /\ files[proc[p].file] \notin {Empty, proc[p].key}
           /\ WriteFails(p) => IF proc[p].file \in DOMAIN files THEN Stores(proc[p].file, Bad)
                               ELSE files' = files
           /\ Evict(p) => Removes(log[base + 1].file)
<1>0. files \in [DOMAIN files -> Texts] /\ Empty \in Texts /\ Bad \in Texts
  BY DEF DataInv, Texts
<1>1. Write(p) => proc[p].key \in Texts
  BY DEF DataInv, PhaseInv, Texts, Write, Phases
<1>2. Create(p) => IF proc[p].file \in DOMAIN files THEN files' = files
                   ELSE Stores(proc[p].file, Empty)
  BY <1>0, PutStores DEF Create
<1>3. Write(p) => IF proc[p].file \notin DOMAIN files THEN files' = files
                  ELSE \/ Stores(proc[p].file, proc[p].key)
                       \/ /\ Stores(proc[p].file, Bad)
                          /\ files[proc[p].file] \notin {Empty, proc[p].key}
  BY <1>0, <1>1, PutStores DEF Write
<1>4. WriteFails(p) => IF proc[p].file \in DOMAIN files THEN Stores(proc[p].file, Bad)
                       ELSE files' = files
  BY <1>0, PutStores DEF WriteFails
<1>5. Evict(p) => Removes(log[base + 1].file)
  BY <1>0, DropRemoves DEF Evict
<1> QED
  BY <1>2, <1>3, <1>4, <1>5

(* p goes on as r, and nobody else moves. *)
Moves(p, r) ==
    /\ proc' \in [Procs -> ProcType] /\ proc'[p] = r
    /\ \A q \in Procs : q # p => proc'[q] = proc[q]

(* A goroutine between two calls. *)
LEMMA FreeType == Free \in ProcType /\ Free.pc = "idle" /\ Free.file = 0 /\ Free.key = Bad
  BY KeysAssumption DEF Free, ProcType, Phases, Times

(* A goroutine takes a new record. *)
LEMMA BecomesMoves ==
    ASSUME proc \in [Procs -> ProcType], NEW p \in Procs, NEW r \in ProcType, Becomes(p, r)
    PROVE  Moves(p, r)
  BY DEF Becomes, Moves

(* A goroutine goes on and keeps its file and its key. *)
LEMMA GotoMoves ==
    ASSUME proc \in [Procs -> ProcType], NEW p \in Procs, NEW pc \in Phases, Goto(p, pc)
    PROVE  Moves(p, [pc |-> pc, file |-> proc[p].file, key |-> proc[p].key])
  BY DEF Goto, Moves, ProcType

(* Where each step of a call takes it. *)
LEMMA Steps ==
    ASSUME DataInv, PhaseInv, NEW p \in Procs
    PROVE  /\ \A k \in Keys : AddNewPublicKey(p, k) => Moves(p, [pc |-> "create", file |-> clock, key |-> k])
           /\ \A e \in todo : StoreNext(e) => Moves(Main, [pc |-> "create", file |-> e.file, key |-> e.key])
           /\ \A e \in todo : LoadNext(e) => Moves(Main, [pc |-> "read", file |-> e.file, key |-> Bad])
           /\ Create(p) => Moves(p, [pc |-> "write", file |-> proc[p].file, key |-> proc[p].key])
           /\ Write(p) => IF p = Main THEN Moves(p, Free)
                          ELSE Moves(p, [pc |-> "read", file |-> proc[p].file, key |-> proc[p].key])
           /\ WriteFails(p) => Moves(p, Free)
           /\ ReadKey(p) => IF proc[p].file \in Good(files)
                            THEN Moves(p, [pc |-> "lock", file |-> proc[p].file, key |-> files[proc[p].file]])
                            ELSE Moves(p, Free)
           /\ Fill(p) => Moves(p, Free)
           /\ Evict(p) => Moves(p, [pc |-> "shift", file |-> proc[p].file, key |-> proc[p].key])
           /\ Shift(p) => Moves(p, [pc |-> "append", file |-> proc[p].file, key |-> proc[p].key])
           /\ AppendEntry(p) => Moves(p, Free)
<1>0. proc \in [Procs -> ProcType] /\ proc[p] \in ProcType /\ Main \in Procs /\ Free \in ProcType
  BY FreeType DEF DataInv, ProcType, Procs
<1>1. ASSUME NEW k \in Keys, AddNewPublicKey(p, k)
      PROVE  Moves(p, [pc |-> "create", file |-> clock, key |-> k])
  <2>1. [pc |-> "create", file |-> clock, key |-> k] \in ProcType
    BY DEF DataInv, ProcType, Phases
  <2> QED
    BY <1>0, <1>1, <2>1, BecomesMoves DEF AddNewPublicKey
<1>2. ASSUME NEW e \in todo, StoreNext(e)
      PROVE  Moves(Main, [pc |-> "create", file |-> e.file, key |-> e.key])
  <2>1. [pc |-> "create", file |-> e.file, key |-> e.key] \in ProcType
    BY DEF DataInv, ProcType, Phases
  <2> QED
    BY <1>0, <1>2, <2>1, BecomesMoves DEF StoreNext
<1>3. ASSUME NEW e \in todo, LoadNext(e)
      PROVE  Moves(Main, [pc |-> "read", file |-> e.file, key |-> Bad])
  <2>1. [pc |-> "read", file |-> e.file, key |-> Bad] \in ProcType
    BY DEF DataInv, ProcType, Phases
  <2> QED
    BY <1>0, <1>3, <2>1, BecomesMoves DEF LoadNext
<1>4. Create(p) => Moves(p, [pc |-> "write", file |-> proc[p].file, key |-> proc[p].key])
  BY <1>0, GotoMoves DEF Create, Phases
<1>5. Write(p) => IF p = Main THEN Moves(p, Free)
                  ELSE Moves(p, [pc |-> "read", file |-> proc[p].file, key |-> proc[p].key])
  BY <1>0, GotoMoves, BecomesMoves DEF Write, Phases, Done
<1>6. WriteFails(p) => Moves(p, Free)
  BY <1>0, BecomesMoves DEF WriteFails, Done
<1>7. ReadKey(p) => IF proc[p].file \in Good(files)
                    THEN Moves(p, [pc |-> "lock", file |-> proc[p].file, key |-> files[proc[p].file]])
                    ELSE Moves(p, Free)
  <2>1. CASE proc[p].file \in Good(files)
    <3>1. [pc |-> "lock", file |-> proc[p].file, key |-> files[proc[p].file]] \in ProcType
      BY <1>0, <2>1 DEF ProcType, Good, Phases
    <3> QED
      BY <1>0, <2>1, <3>1, BecomesMoves DEF ReadKey
  <2>2. CASE proc[p].file \notin Good(files)
    BY <1>0, <2>2, BecomesMoves DEF ReadKey, Done
  <2> QED
    BY <2>1, <2>2
<1>8. Fill(p) => Moves(p, Free)
  BY <1>0, BecomesMoves DEF Fill, Done
<1>9. Evict(p) => Moves(p, [pc |-> "shift", file |-> proc[p].file, key |-> proc[p].key])
  BY <1>0, GotoMoves DEF Evict, Phases
<1>10. Shift(p) => Moves(p, [pc |-> "append", file |-> proc[p].file, key |-> proc[p].key])
  BY <1>0, GotoMoves DEF Shift, Phases
<1>11. AppendEntry(p) => Moves(p, Free)
  BY <1>0, BecomesMoves DEF AppendEntry, Done
<1> QED
  BY <1>1, <1>2, <1>3, <1>4, <1>5, <1>6, <1>7, <1>8, <1>9, <1>10, <1>11

(* Types. *)
LEMMA DataNext == ASSUME IInv, [KeysNext]_vars PROVE DataInv'
<1>0. DataInv /\ PhaseInv /\ EvictInv
  BY DEF IInv
<1>1. CASE \/ \E k \in Keys : BeginRequest(k)
           \/ GetKeyList
           \/ VerifyToken
           \/ UNCHANGED vars
  BY <1>0, <1>1 DEF DataInv, vars, diskVars, cacheVars, bootVars, countVars, BeginRequest,
       GetKeyList, VerifyToken
<1>2. CASE Tick
  BY <1>0, KeysAssumption, <1>2 DEF DataInv, Tick, diskVars, cacheVars, bootVars, countVars, Times
<1>3. CASE Crash
  <2>1. proc' \in [Procs -> ProcType]
    BY <1>3, FreeType DEF Crash
  <2>2. log' \in Seq([file : Times, key : Keys]) /\ base' \in 0..Len(log')
    BY <1>3 DEF Crash
  <2>3. faults' \in 0..MaxFaults
    BY <1>0, <1>3, Bounds DEF DataInv, Crash
  <2>4. hub' = "down" /\ todo' = {} /\ loaded' = FALSE /\ fresh' = FALSE
    BY <1>3 DEF Crash
  <2> QED
    BY <1>0, <2>1, <2>2, <2>3, <2>4, <1>3 DEF DataInv, Crash, diskVars, cacheVars, bootVars,
         countVars, Hubs
<1>4. CASE FetchFails
  BY <1>0, <1>4 DEF DataInv, FetchFails, diskVars, cacheVars, bootVars, countVars, Hubs
<1>5. ASSUME NEW blob \in Blobs, Fetch(blob)
     PROVE  DataInv'
  BY <1>0, KeysAssumption, <1>5 DEF DataInv, Fetch, diskVars, cacheVars, bootVars, countVars, Hubs
<1>6. ASSUME NEW e \in todo, StoreNext(e)
     PROVE  DataInv'
  BY <1>0, <1>6, Steps DEF DataInv, ProcType, Moves, StoreNext, diskVars, cacheVars, bootVars,
       countVars, Procs
<1>7. CASE ListKeys
  BY <1>0, <1>7 DEF DataInv, ListKeys, diskVars, cacheVars, bootVars, countVars, Good, Hubs
<1>8. ASSUME NEW e \in todo, LoadNext(e)
     PROVE  DataInv'
  BY <1>0, <1>8, Steps DEF DataInv, ProcType, Moves, LoadNext, diskVars, cacheVars, bootVars,
       countVars, Procs
<1>9. CASE LoadDone
  BY <1>0, <1>9 DEF DataInv, LoadDone, diskVars, cacheVars, bootVars, countVars, Hubs
<1>10. ASSUME NEW p \in Adders, NEW k \in Keys, AddNewPublicKey(p, k)
     PROVE  DataInv'
  <2>1. proc' \in [Procs -> ProcType]
    BY <1>0, <1>10, Steps DEF Moves, Procs
  <2>2. adds' \in 0..MaxAdds /\ fresh' = FALSE
    BY <1>0, <1>10, Bounds DEF DataInv, AddNewPublicKey
  <2> QED
    BY <1>0, <2>1, <2>2, <1>10 DEF DataInv, AddNewPublicKey, diskVars, cacheVars, bootVars,
         countVars
<1>11. ASSUME NEW p \in Procs, Create(p)
     PROVE  DataInv'
  <2>0. proc[p].file \in Times
    BY <1>0 DEF DataInv, ProcType
  <2>1. DOMAIN files' \subseteq Times /\ files' \in [DOMAIN files' -> Texts]
    BY <1>0, <1>11, <2>0, FileSteps DEF DataInv, Stores
  <2>2. proc' \in [Procs -> ProcType]
    BY <1>0, <1>11, Steps DEF Moves
  <2> QED
    BY <1>0, <1>11, <2>0, <2>1, <2>2 DEF DataInv, Create, diskVars, cacheVars, bootVars, countVars
<1>12. ASSUME NEW p \in Procs, Write(p)
     PROVE  DataInv'
  <2>1. DOMAIN files' \subseteq Times /\ files' \in [DOMAIN files' -> Texts]
    BY <1>0, <1>12, FileSteps DEF DataInv, ProcType, Stores
  <2>2. proc' \in [Procs -> ProcType]
    BY <1>0, <1>12, Steps DEF Moves
  <2> QED
    BY <1>0, <1>12, <2>1, <2>2 DEF DataInv, Write, diskVars, cacheVars, bootVars, countVars
<1>13. ASSUME NEW p \in Procs, WriteFails(p)
     PROVE  DataInv'
  <2>1. DOMAIN files' \subseteq Times /\ files' \in [DOMAIN files' -> Texts]
    BY <1>0, <1>13, FileSteps DEF DataInv, ProcType, Stores
  <2>2. proc' \in [Procs -> ProcType]
    BY <1>0, <1>13, Steps DEF Moves
  <2> QED
    BY <1>0, KeysAssumption, <1>13, <2>1, <2>2 DEF DataInv, WriteFails, diskVars, cacheVars,
         bootVars, countVars
<1>14. ASSUME NEW p \in Procs, ReadKey(p)
     PROVE  DataInv'
  <2>2. proc' \in [Procs -> ProcType]
    BY <1>0, <1>14, Steps DEF Moves
  <2> QED
    BY <1>0, <1>14, <2>2 DEF DataInv, ReadKey, diskVars, cacheVars, bootVars, countVars
<1>15. ASSUME NEW p \in Procs, Fill(p)
     PROVE  DataInv'
  <2>1. Entry(p) \in [file : Times, key : Keys]
    BY <1>0, <1>15 DEF Fill, Entry, DataInv, PhaseInv, Phases, ProcType
  <2>2. proc' \in [Procs -> ProcType]
    BY <1>0, <1>15, Steps DEF Moves
  <2> QED
    BY <1>0, <1>15, <2>1, <2>2 DEF DataInv, Fill, diskVars, cacheVars, bootVars, countVars
<1>16. ASSUME NEW p \in Procs, Evict(p)
     PROVE  DataInv'
  <2>1. DOMAIN files' \subseteq Times /\ files' \in [DOMAIN files' -> Texts]
    BY <1>0, <1>16, FileSteps DEF DataInv, Removes
  <2>2. proc' \in [Procs -> ProcType]
    BY <1>0, <1>16, Steps DEF Moves
  <2> QED
    BY <1>0, <1>16, <2>1, <2>2 DEF DataInv, Evict, diskVars, cacheVars, bootVars, countVars
<1>17. ASSUME NEW p \in Procs, Shift(p)
     PROVE  DataInv'
  <2>2. proc' \in [Procs -> ProcType]
    BY <1>0, <1>17, Steps DEF Moves
  <2> QED
    BY <1>0, <1>17, <2>2, KeysAssumption DEF DataInv, EvictInv, Shift, diskVars, cacheVars,
         bootVars, countVars
<1>18. ASSUME NEW p \in Procs, AppendEntry(p)
     PROVE  DataInv'
  <2>1. Entry(p) \in [file : Times, key : Keys]
    BY <1>0, <1>18 DEF AppendEntry, Entry, DataInv, PhaseInv, Phases, ProcType
  <2>2. proc' \in [Procs -> ProcType]
    BY <1>0, <1>18, Steps DEF Moves
  <2> QED
    BY <1>0, <1>18, <2>1, <2>2 DEF DataInv, AppendEntry, diskVars, cacheVars, bootVars, countVars
<1>q. QED
  BY <1>1, <1>2, <1>3, <1>4, <1>5, <1>6, <1>7, <1>8, <1>9, <1>10, <1>11, <1>12, <1>13, <1>14,
       <1>15, <1>16, <1>17, <1>18 DEF KeysNext, AddKey

(* The phases of the hub. *)
LEMMA PhaseNext == ASSUME IInv, [KeysNext]_vars PROVE PhaseInv'
<1>0. DataInv /\ PhaseInv /\ EvictInv /\ RequestType
  BY DEF IInv
<1>1. CASE \/ Tick
           \/ UNCHANGED vars
  BY <1>0, <1>1 DEF DataInv, PhaseInv, Procs, Phases, Reading, vars, diskVars, cacheVars,
       bootVars, countVars, Tick
<1>2. CASE Crash
  BY <1>0, <1>2, FreeType DEF DataInv, PhaseInv, Procs, Phases, Reading, Crash, NoRequest,
       diskVars, cacheVars, bootVars, countVars
<1>3. CASE FetchFails
  BY <1>0, <1>3 DEF DataInv, PhaseInv, Procs, Phases, Reading, FetchFails, diskVars, cacheVars,
       bootVars, countVars
<1>4. ASSUME NEW blob \in Blobs, Fetch(blob)
     PROVE  PhaseInv'
  BY <1>0, <1>4, KeysAssumption DEF DataInv, PhaseInv, Procs, Phases, Reading, Fetch, diskVars,
       cacheVars, bootVars, countVars
<1>5. ASSUME NEW e \in todo, StoreNext(e)
     PROVE  PhaseInv'
  <2>1. Moves(Main, [pc |-> "create", file |-> e.file, key |-> e.key])
    BY <1>0, <1>5, Steps DEF Procs
  <2> QED
    BY <1>0, <1>5, <2>1, FreeType, KeysAssumption DEF DataInv, PhaseInv, Procs, Phases, Reading,
         StoreNext, Moves, diskVars, cacheVars, bootVars, countVars
<1>6. CASE ListKeys
  BY <1>0, <1>6 DEF DataInv, PhaseInv, Procs, Phases, Reading, ListKeys, diskVars, cacheVars,
       bootVars, countVars
<1>7. ASSUME NEW e \in todo, LoadNext(e)
     PROVE  PhaseInv'
  <2>1. Moves(Main, [pc |-> "read", file |-> e.file, key |-> Bad])
    BY <1>0, <1>7, Steps DEF Procs
  <2> QED
    BY <1>0, <1>7, <2>1, FreeType, KeysAssumption DEF DataInv, PhaseInv, Procs, Phases, Reading,
         LoadNext, Moves, diskVars, cacheVars, bootVars, countVars
<1>8. CASE LoadDone
  BY <1>0, <1>8 DEF DataInv, PhaseInv, Procs, Phases, Reading, LoadDone, diskVars, cacheVars,
       bootVars, countVars
<1>9. ASSUME NEW p \in Adders, NEW k \in Keys, AddNewPublicKey(p, k)
     PROVE  PhaseInv'
  <2>1. Moves(p, [pc |-> "create", file |-> clock, key |-> k])
    BY <1>0, <1>9, Steps DEF Procs
  <2> QED
    BY <1>0, <1>9, <2>1, FreeType, KeysAssumption DEF DataInv, PhaseInv, Procs, Phases, Reading,
         AddNewPublicKey, Moves, diskVars, cacheVars, bootVars, countVars
<1>10. ASSUME NEW p \in Procs, Create(p)
     PROVE  PhaseInv'
  <2>1. Moves(p, [pc |-> "write", file |-> proc[p].file, key |-> proc[p].key])
    BY <1>0, <1>10, Steps
  <2> QED
    BY <1>0, <1>10, <2>1, FreeType, KeysAssumption DEF DataInv, PhaseInv, Procs, Phases, Reading,
         Create, Moves, diskVars, cacheVars, bootVars, countVars
<1>11. ASSUME NEW p \in Procs, Write(p)
     PROVE  PhaseInv'
  <2>1. IF p = Main THEN Moves(p, Free) ELSE Moves(p, [pc |-> "read", file |-> proc[p].file, key |-> proc[p].key])
    BY <1>0, <1>11, Steps
  <2> QED
    BY <1>0, <1>11, <2>1, FreeType, KeysAssumption DEF DataInv, PhaseInv, Procs, Phases, Reading,
         Write, Moves, diskVars, cacheVars, bootVars, countVars
<1>12. ASSUME NEW p \in Procs, WriteFails(p)
     PROVE  PhaseInv'
  <2>1. Moves(p, Free)
    BY <1>0, <1>12, Steps
  <2> QED
    BY <1>0, <1>12, <2>1, FreeType, KeysAssumption DEF DataInv, PhaseInv, Procs, Phases, Reading,
         WriteFails, Moves, diskVars, cacheVars, bootVars, countVars
<1>13. ASSUME NEW p \in Procs, ReadKey(p)
     PROVE  PhaseInv'
  <2>1. IF proc[p].file \in Good(files)
        THEN Moves(p, [pc |-> "lock", file |-> proc[p].file, key |-> files[proc[p].file]])
        ELSE Moves(p, Free)
    BY <1>0, <1>13, Steps
  <2>2. request'.pc = request.pc
    BY <1>0, <1>13 DEF ReadKey, RequestType
  <2>3. /\ proc[p].pc = "read" /\ UNCHANGED <<bootVars, fresh, collided>>
        /\ hub \in {"load", "up"} /\ (files[proc[p].file] \in Keys
            \/ proc[p].file \notin Good(files))
    BY <1>0, <1>13 DEF ReadKey, PhaseInv, Procs, Reading, Good
  <2> QED
    BY <1>0, <2>1, <2>2, <2>3, FreeType, KeysAssumption DEF PhaseInv, Procs, Phases, Reading,
         Moves, bootVars
<1>14. ASSUME NEW p \in Procs, Fill(p)
     PROVE  PhaseInv'
  <2>1. Moves(p, Free)
    BY <1>0, <1>14, Steps
  <2>2. request'.pc = request.pc
    BY <1>0, <1>14 DEF Fill, RequestType
  <2>3. /\ proc[p].pc = "lock" /\ UNCHANGED <<bootVars, fresh, collided>>
        /\ hub \in {"load", "up"} /\ (files[proc[p].file] \in Keys
            \/ proc[p].file \notin Good(files))
    BY <1>0, <1>14 DEF Fill, PhaseInv, Procs, Reading, Good
  <2> QED
    BY <1>0, <2>1, <2>2, <2>3, FreeType, KeysAssumption DEF PhaseInv, Procs, Phases, Reading,
         Moves, bootVars
<1>15. ASSUME NEW p \in Procs, Evict(p)
     PROVE  PhaseInv'
  <2>1. Moves(p, [pc |-> "shift", file |-> proc[p].file, key |-> proc[p].key])
    BY <1>0, <1>15, Steps
  <2>2. request'.pc = request.pc
    BY <1>0, <1>15 DEF Evict, RequestType
  <2>3. /\ proc[p].pc = "lock" /\ UNCHANGED <<bootVars, fresh, collided>>
        /\ hub \in {"load", "up"} /\ (files[proc[p].file] \in Keys
            \/ proc[p].file \notin Good(files))
    BY <1>0, <1>15 DEF Evict, PhaseInv, Procs, Reading, Good
  <2> QED
    BY <1>0, <2>1, <2>2, <2>3, FreeType, KeysAssumption DEF PhaseInv, Procs, Phases, Reading,
         Moves, bootVars
<1>16. ASSUME NEW p \in Procs, Shift(p)
     PROVE  PhaseInv'
  <2>1. Moves(p, [pc |-> "append", file |-> proc[p].file, key |-> proc[p].key])
    BY <1>0, <1>16, Steps
  <2> QED
    BY SMTT(30), <1>0, <1>16, <2>1, FreeType, KeysAssumption DEF DataInv, PhaseInv, Procs, Phases, Reading,
         Shift, Moves, diskVars, cacheVars, bootVars, countVars
<1>17. ASSUME NEW p \in Procs, AppendEntry(p)
     PROVE  PhaseInv'
  <2>1. Moves(p, Free)
    BY <1>0, <1>17, Steps
  <2>2. request'.pc = request.pc
    BY <1>0, <1>17 DEF AppendEntry, RequestType
  <2>3. /\ proc[p].pc = "append" /\ UNCHANGED <<bootVars, fresh, collided>>
        /\ hub \in {"load", "up"} /\ (files[proc[p].file] \in Keys
            \/ proc[p].file \notin Good(files))
    BY <1>0, <1>17 DEF AppendEntry, PhaseInv, Procs, Reading, Good
  <2> QED
    BY <1>0, <2>1, <2>2, <2>3, FreeType, KeysAssumption DEF PhaseInv, Procs, Phases, Reading,
         Moves, bootVars
<1>18. ASSUME NEW k \in Keys, BeginRequest(k)
     PROVE  PhaseInv'
  BY <1>0, <1>18 DEF DataInv, PhaseInv, Procs, Phases, Reading, BeginRequest, diskVars, cacheVars,
       bootVars, countVars
<1>19. CASE GetKeyList
  BY <1>0, <1>19 DEF DataInv, PhaseInv, Procs, Phases, Reading, GetKeyList, diskVars, cacheVars,
       bootVars, countVars
<1>20. CASE VerifyToken
  BY <1>0, <1>20 DEF DataInv, PhaseInv, Procs, Phases, Reading, VerifyToken, diskVars, cacheVars,
       bootVars, countVars
<1>q. QED
  BY <1>1, <1>2, <1>3, <1>4, <1>5, <1>6, <1>7, <1>8, <1>9, <1>10, <1>11, <1>12, <1>13, <1>14,
       <1>15, <1>16, <1>17, <1>18, <1>19, <1>20 DEF KeysNext, AddKey

(* The lock. *)
LEMMA EvictNext == ASSUME IInv, [KeysNext]_vars PROVE EvictInv'
<1>0. DataInv /\ PhaseInv /\ EvictInv
  BY DEF IInv
<1>1. CASE \/ Tick
           \/ FetchFails
           \/ \E blob \in Blobs : Fetch(blob)
           \/ ListKeys
           \/ LoadDone
           \/ \E k \in Keys : BeginRequest(k)
           \/ GetKeyList
           \/ VerifyToken
           \/ UNCHANGED vars
  BY <1>0, <1>1 DEF DataInv, EvictInv, Evicting, vars, diskVars, cacheVars, bootVars, countVars,
       Tick, FetchFails, Fetch, ListKeys, LoadDone, BeginRequest, GetKeyList, VerifyToken
<1>2. CASE Crash
  BY <1>0, <1>2, FreeType, Bounds DEF DataInv, EvictInv, Evicting, Crash, diskVars, cacheVars,
       bootVars, countVars
<1>3. ASSUME NEW e \in todo, StoreNext(e)
     PROVE  EvictInv'
  <2>1. Moves(Main, [pc |-> "create", file |-> e.file, key |-> e.key])
    BY <1>0, <1>3, Steps DEF Procs
  <2>2. Len(log) \in Nat /\ base \in Nat /\ MaxLength \in Nat /\ Cardinality(Cached) = Len(log) - base
    BY <1>0, CachedSize, Bounds DEF DataInv
  <2>3. proc[Main].pc = "idle" /\ log' = log /\ base' = base
    BY <1>0, <1>3, <2>2 DEF StoreNext, diskVars, cacheVars, bootVars, countVars, DataInv
  <2> QED
    BY <1>0, <2>1, <2>2, <2>3, FreeType DEF EvictInv, Evicting, Locked, Moves, Procs
<1>4. ASSUME NEW e \in todo, LoadNext(e)
     PROVE  EvictInv'
  <2>1. Moves(Main, [pc |-> "read", file |-> e.file, key |-> Bad])
    BY <1>0, <1>4, Steps DEF Procs
  <2>2. Len(log) \in Nat /\ base \in Nat /\ MaxLength \in Nat /\ Cardinality(Cached) = Len(log) - base
    BY <1>0, CachedSize, Bounds DEF DataInv
  <2>3. proc[Main].pc = "idle" /\ log' = log /\ base' = base
    BY <1>0, <1>4, <2>2 DEF LoadNext, diskVars, cacheVars, bootVars, countVars, DataInv
  <2> QED
    BY <1>0, <2>1, <2>2, <2>3, FreeType DEF EvictInv, Evicting, Locked, Moves, Procs
<1>5. ASSUME NEW p \in Adders, NEW k \in Keys, AddNewPublicKey(p, k)
     PROVE  EvictInv'
  <2>1. Moves(p, [pc |-> "create", file |-> clock, key |-> k])
    BY <1>0, <1>5, Steps DEF Procs
  <2>2. Len(log) \in Nat /\ base \in Nat /\ MaxLength \in Nat /\ Cardinality(Cached) = Len(log) - base
    BY <1>0, CachedSize, Bounds DEF DataInv
  <2>3. proc[p].pc = "idle" /\ log' = log /\ base' = base
    BY <1>0, <1>5, <2>2 DEF AddNewPublicKey, diskVars, cacheVars, bootVars, countVars, DataInv
  <2> QED
    BY <1>0, <2>1, <2>2, <2>3, FreeType DEF EvictInv, Evicting, Locked, Moves, Procs
<1>6. ASSUME NEW p \in Procs, Create(p)
     PROVE  EvictInv'
  <2>1. Moves(p, [pc |-> "write", file |-> proc[p].file, key |-> proc[p].key])
    BY <1>0, <1>6, Steps
  <2>2. Len(log) \in Nat /\ base \in Nat /\ MaxLength \in Nat /\ Cardinality(Cached) = Len(log) - base
    BY <1>0, CachedSize, Bounds DEF DataInv
  <2>3. proc[p].pc = "create" /\ log' = log /\ base' = base
    BY <1>0, <1>6, <2>2 DEF Create, diskVars, cacheVars, bootVars, countVars, DataInv
  <2> QED
    BY <1>0, <2>1, <2>2, <2>3, FreeType DEF EvictInv, Evicting, Locked, Moves, Procs
<1>7. ASSUME NEW p \in Procs, Write(p)
     PROVE  EvictInv'
  <2>1. IF p = Main THEN Moves(p, Free) ELSE Moves(p, [pc |-> "read", file |-> proc[p].file, key |-> proc[p].key])
    BY <1>0, <1>7, Steps
  <2>2. Len(log) \in Nat /\ base \in Nat /\ MaxLength \in Nat /\ Cardinality(Cached) = Len(log) - base
    BY <1>0, CachedSize, Bounds DEF DataInv
  <2>3. proc[p].pc = "write" /\ log' = log /\ base' = base
    BY <1>0, <1>7, <2>2 DEF Write, diskVars, cacheVars, bootVars, countVars, DataInv
  <2> QED
    BY <1>0, <2>1, <2>2, <2>3, FreeType DEF EvictInv, Evicting, Locked, Moves, Procs
<1>8. ASSUME NEW p \in Procs, WriteFails(p)
     PROVE  EvictInv'
  <2>1. Moves(p, Free)
    BY <1>0, <1>8, Steps
  <2>2. Len(log) \in Nat /\ base \in Nat /\ MaxLength \in Nat /\ Cardinality(Cached) = Len(log) - base
    BY <1>0, CachedSize, Bounds DEF DataInv
  <2>3. proc[p].pc = "write" /\ log' = log /\ base' = base
    BY <1>0, <1>8, <2>2 DEF WriteFails, diskVars, cacheVars, bootVars, countVars, DataInv
  <2> QED
    BY <1>0, <2>1, <2>2, <2>3, FreeType DEF EvictInv, Evicting, Locked, Moves, Procs
<1>9. ASSUME NEW p \in Procs, ReadKey(p)
     PROVE  EvictInv'
  <2>1. IF proc[p].file \in Good(files)
        THEN Moves(p, [pc |-> "lock", file |-> proc[p].file, key |-> files[proc[p].file]])
        ELSE Moves(p, Free)
    BY <1>0, <1>9, Steps
  <2>2. Len(log) \in Nat /\ base \in Nat /\ MaxLength \in Nat /\ Cardinality(Cached) = Len(log) - base
    BY <1>0, CachedSize, Bounds DEF DataInv
  <2>3. proc[p].pc = "read" /\ log' = log /\ base' = base
    BY <1>0, <1>9, <2>2 DEF ReadKey, diskVars, cacheVars, bootVars, countVars, DataInv
  <2> QED
    BY <1>0, <2>1, <2>2, <2>3, FreeType DEF EvictInv, Evicting, Locked, Moves, Procs
<1>10. ASSUME NEW p \in Procs, Fill(p)
     PROVE  EvictInv'
  <2>1. Moves(p, Free)
    BY <1>0, <1>10, Steps
  <2>2. Len(log) \in Nat /\ base \in Nat /\ MaxLength \in Nat /\ Cardinality(Cached) = Len(log) - base
    BY <1>0, CachedSize, Bounds DEF DataInv
  <2>3. proc[p].pc = "lock" /\ Len(log') = Len(log) + 1 /\ base' = base /\ ~Locked /\ Len(log) < base + MaxLength
    BY <1>0, <1>10, <2>2 DEF Fill, diskVars, cacheVars, bootVars, countVars, DataInv
  <2> QED
    BY <1>0, <2>1, <2>2, <2>3, FreeType DEF EvictInv, Evicting, Locked, Moves, Procs
<1>11. ASSUME NEW p \in Procs, Evict(p)
     PROVE  EvictInv'
  <2>1. Moves(p, [pc |-> "shift", file |-> proc[p].file, key |-> proc[p].key])
    BY <1>0, <1>11, Steps
  <2>2. Len(log) \in Nat /\ base \in Nat /\ MaxLength \in Nat /\ Cardinality(Cached) = Len(log) - base
    BY <1>0, CachedSize, Bounds DEF DataInv
  <2>3. proc[p].pc = "lock" /\ log' = log /\ base' = base /\ ~Locked /\ Len(log) = base + MaxLength
    BY <1>0, <1>11, <2>2 DEF Evict, diskVars, cacheVars, bootVars, countVars, DataInv
  <2> QED
    BY <1>0, <2>1, <2>2, <2>3, FreeType DEF EvictInv, Evicting, Locked, Moves, Procs
<1>12. ASSUME NEW p \in Procs, Shift(p)
     PROVE  EvictInv'
  <2>1. Moves(p, [pc |-> "append", file |-> proc[p].file, key |-> proc[p].key])
    BY <1>0, <1>12, Steps
  <2>2. Len(log) \in Nat /\ base \in Nat /\ MaxLength \in Nat /\ Cardinality(Cached) = Len(log) - base
    BY <1>0, CachedSize, Bounds DEF DataInv
  <2>3. proc[p].pc = "shift" /\ log' = log /\ base' = base + 1
    BY <1>0, <1>12, <2>2 DEF Shift, diskVars, cacheVars, bootVars, countVars, DataInv
  <2> QED
    BY <1>0, <2>1, <2>2, <2>3, FreeType DEF EvictInv, Evicting, Locked, Moves, Procs
<1>13. ASSUME NEW p \in Procs, AppendEntry(p)
     PROVE  EvictInv'
  <2>1. Moves(p, Free)
    BY <1>0, <1>13, Steps
  <2>2. Len(log) \in Nat /\ base \in Nat /\ MaxLength \in Nat /\ Cardinality(Cached) = Len(log) - base
    BY <1>0, CachedSize, Bounds DEF DataInv
  <2>3. proc[p].pc = "append" /\ Len(log') = Len(log) + 1 /\ base' = base
    BY <1>0, <1>13, <2>2 DEF AppendEntry, diskVars, cacheVars, bootVars, countVars, DataInv
  <2> QED
    BY <1>0, <2>1, <2>2, <2>3, FreeType DEF EvictInv, Evicting, Locked, Moves, Procs
<1>q. QED
  BY <1>1, <1>2, <1>3, <1>4, <1>5, <1>6, <1>7, <1>8, <1>9, <1>10, <1>11, <1>12, <1>13
       DEF KeysNext, AddKey

(* A member of a sequence. *)
LEMMA Element ==
    ASSUME NEW R, NEW s \in Seq(R), NEW i \in 1..Len(s)
    PROVE  s[i] \in R
  OBVIOUS

(* The live entries are entries of the history. *)
LEMMA LiveType ==
    ASSUME DataInv
    PROVE  Live \subseteq 1..Len(log) /\ Len(log) \in Nat /\ \A i \in Live : log[i].file \in Times /\ log[i].key \in Keys
<1>1. Live \subseteq 1..Len(log) /\ Len(log) \in Nat
  BY DEF DataInv, Live
<1>2. ASSUME NEW i \in Live PROVE log[i].file \in Times /\ log[i].key \in Keys
  <2>1. i \in 1..Len(log) /\ log \in Seq([file : Times, key : Keys])
    BY <1>1 DEF DataInv
  <2>2. log[i] \in [file : Times, key : Keys]
    BY <2>1, Element
  <2> QED
    BY <2>2
<1> QED
  BY <1>1, <1>2

(* How the entries that have a file change. *)
LEMMA LiveGrows ==
    ASSUME DataInv, PhaseInv, EvictInv, NEW p \in Procs, Fill(p) \/ AppendEntry(p)
    PROVE  /\ Len(log) + 1 \notin Live /\ Live' = Live \cup {Len(log) + 1}
           /\ log'[Len(log) + 1] = Entry(p) /\ \A i \in Live : log'[i] = log[i]
           /\ proc[p].pc \in {"lock", "append"} /\ Moves(p, Free) /\ ~Shifting /\ ~Shifting' /\ ~Locked'
<1>0. Len(log) \in Nat /\ base \in Nat /\ base <= Len(log) /\ MaxLength \in Nat /\ log \in Seq([file : Times, key : Keys])
  BY Bounds DEF DataInv
<1>1. Moves(p, Free) /\ proc[p].pc \in {"lock", "append"}
  BY Steps DEF Fill, AppendEntry
<1>2. ~Shifting /\ ~Shifting'
  BY <1>1, FreeType DEF Fill, AppendEntry, Locked, Evicting, EvictInv, Shifting, Moves
<1>5. ~Locked'
  BY <1>1, FreeType DEF Fill, AppendEntry, Locked, Evicting, EvictInv, Moves
<1>3. log' = Append(log, Entry(p)) /\ base' = base
  BY DEF Fill, AppendEntry
<1>4. Len(log') = Len(log) + 1 /\ log'[Len(log) + 1] = Entry(p) /\ \A i \in 1..Len(log) : log'[i] = log[i]
  BY <1>0, <1>3
<1> QED
  BY <1>0, <1>1, <1>2, <1>3, <1>4, <1>5 DEF Live

(* Evict removes the file of the oldest live entry. *)
LEMMA LiveEvicts ==
    ASSUME DataInv, PhaseInv, EvictInv, NEW p \in Procs, Evict(p)
    PROVE  base + 1 \in Live /\ Live' = Live \ {base + 1} /\ log' = log /\ ~Shifting /\ Shifting'
<1>0. Len(log) \in Nat /\ base \in Nat /\ MaxLength \in Nat \ {0} /\ Cardinality(Cached) = Len(log) - base
  BY Bounds, CachedSize DEF DataInv
<1>1. Moves(p, [pc |-> "shift", file |-> proc[p].file, key |-> proc[p].key])
  BY Steps
<1>2. ~Shifting /\ Shifting'
  BY <1>1 DEF Evict, Locked, Evicting, Shifting, Moves
<1>3. log' = log /\ base' = base /\ Len(log) = base + MaxLength
  BY <1>0 DEF Evict, cacheVars
<1> QED
  BY <1>0, <1>2, <1>3 DEF Live

(* Shift takes the dead entry out of the slice. *)
LEMMA LiveShifts ==
    ASSUME DataInv, PhaseInv, EvictInv, NEW p \in Procs, Shift(p)
    PROVE  Live' = Live /\ log' = log /\ Shifting /\ ~Shifting'
<1>0. Len(log) \in Nat /\ base \in Nat
  BY DEF DataInv
<1>1. Moves(p, [pc |-> "append", file |-> proc[p].file, key |-> proc[p].key]) /\ proc[p].pc = "shift"
  BY Steps DEF Shift
<1>2. Shifting /\ ~Shifting'
  BY <1>1 DEF Evicting, EvictInv, Shifting, Moves
<1>3. log' = log /\ base' = base + 1
  BY DEF Shift
<1> QED
  BY <1>0, <1>2, <1>3 DEF Live

(* Other steps leave the live entries alone. *)
LEMMA LiveStays ==
    ASSUME DataInv, PhaseInv, EvictInv, NEW p \in Procs, NEW r, Moves(p, r),
           proc[p].pc # "shift", r.pc # "shift", UNCHANGED cacheVars
    PROVE  Live' = Live /\ log' = log /\ (Shifting' <=> Shifting)
<1>1. Shifting' <=> Shifting
  BY DEF Shifting, Moves
<1> QED
  BY <1>1 DEF Live, cacheVars

(* No two hold one file, unless the clock has given it out twice. *)
LEMMA OwnNext == ASSUME IInv, [KeysNext]_vars PROVE OwnInv'
<1>0. DataInv /\ PhaseInv /\ EvictInv /\ OwnInv /\ TextInv /\ OwnerInv
  BY DEF IInv
<1>1. CASE \/ Tick
           \/ \E k \in Keys : BeginRequest(k)
           \/ GetKeyList
           \/ VerifyToken
           \/ UNCHANGED vars
  BY <1>0, <1>1 DEF OwnInv, Managed, Holds, Live, Shifting, vars, diskVars, cacheVars, bootVars,
       countVars, Tick, BeginRequest, GetKeyList, VerifyToken
<1>2. CASE Crash
  BY <1>0, <1>2 DEF OwnInv, Managed, PhaseInv, Crash, diskVars, cacheVars, bootVars, countVars
<1>3. CASE FetchFails
  BY <1>0, <1>3 DEF OwnInv, Managed, PhaseInv, FetchFails, diskVars, cacheVars, bootVars, countVars
<1>4. ASSUME NEW blob \in Blobs, Fetch(blob)
     PROVE  OwnInv'
  BY <1>0, <1>4 DEF OwnInv, Managed, PhaseInv, Fetch, diskVars, cacheVars, bootVars, countVars
<1>5. ASSUME NEW e \in todo, StoreNext(e)
     PROVE  OwnInv'
  BY <1>0, <1>5 DEF OwnInv, Managed, PhaseInv, StoreNext, diskVars, cacheVars, bootVars, countVars
<1>6. CASE ListKeys
  <2>1. Live' = {} /\ \A p \in Procs : proc'[p].pc = "idle"
    BY <1>0, <1>6 DEF ListKeys, PhaseInv, Live, diskVars, cacheVars, bootVars, countVars, Procs
  <2>2. /\ \A e \in todo' : e.file \in DOMAIN files /\ e.key = Bad
        /\ \A t \in DOMAIN files : [file |-> t, key |-> Bad] \in todo'
    BY <1>6 DEF ListKeys
  <2> QED
    BY <1>0, <2>1, <2>2, <1>6 DEF OwnInv, Managed, Holds, Reading, ListKeys, diskVars, cacheVars,
         bootVars, countVars
<1>7. ASSUME NEW e \in todo, LoadNext(e)
     PROVE  OwnInv'
  <2>1. Moves(Main, [pc |-> "read", file |-> e.file, key |-> Bad])
    BY <1>0, <1>7, Steps DEF Procs
  <2>2. Live' = Live /\ log' = log
    BY <1>0, <1>7, <2>1, FreeType, LiveStays DEF LoadNext, diskVars, cacheVars, bootVars,
         countVars, Procs
  <2>3. /\ proc[Main].pc = "idle" /\ hub = "load" /\ collided' = collided /\ todo' = todo \ {e} /\ UNCHANGED <<hub, loaded>>
        /\ e.key = Bad
    BY <1>0, <1>7 DEF LoadNext, diskVars, cacheVars, bootVars, countVars, PhaseInv, Managed,
         Phases, Procs
  <2> QED
    BY <1>0, <2>1, <2>2, <2>3, FreeType, LiveType DEF OwnInv, Managed, Holds, Reading, Procs,
         PhaseInv, DataInv, Moves
<1>8. CASE LoadDone
  BY <1>0, <1>8 DEF OwnInv, Managed, Holds, Reading, Live, Shifting, LoadDone, diskVars,
       cacheVars, bootVars, countVars, PhaseInv
<1>9. ASSUME NEW p \in Adders, NEW k \in Keys, AddNewPublicKey(p, k)
     PROVE  OwnInv'
  <2>1. Moves(p, [pc |-> "create", file |-> clock, key |-> k])
    BY <1>0, <1>9, Steps DEF Procs
  <2>2. Live' = Live /\ log' = log
    BY <1>0, <1>9, <2>1, FreeType, LiveStays DEF AddNewPublicKey, diskVars, cacheVars, bootVars,
         countVars, Procs
  <2>3. /\ proc[p].pc = "idle" /\ hub = "up" /\ collided' = collided /\ UNCHANGED <<hub, loaded, todo>>
    BY <1>9 DEF AddNewPublicKey, diskVars, cacheVars, bootVars, countVars
  <2> QED
    BY <1>0, <2>1, <2>2, <2>3, FreeType, LiveType DEF OwnInv, Managed, Holds, Reading, Entry, Moves
<1>10. ASSUME NEW p \in Procs, Create(p)
     PROVE  OwnInv'
  <2>1. Moves(p, [pc |-> "write", file |-> proc[p].file, key |-> proc[p].key])
    BY <1>0, <1>10, Steps
  <2>2. Live' = Live /\ log' = log
    BY <1>0, <1>10, <2>1, FreeType, LiveStays DEF Create, diskVars, cacheVars, bootVars,
         countVars, Procs
  <2>3. /\ proc[p].pc = "create" /\ collided' = (IF proc[p].file \in DOMAIN files THEN collided \cup {proc[p].file} ELSE collided) /\ UNCHANGED <<hub, loaded, todo>>
        /\ Managed => todo = {} /\ p # Main
    BY <1>0, <1>10 DEF Create, diskVars, cacheVars, bootVars, countVars, PhaseInv, Managed,
         Phases, Procs
  <2> QED
    BY <1>0, <2>1, <2>2, <2>3, FreeType, LiveType DEF OwnInv, Managed, Holds, Reading, TextInv,
         Moves
<1>11. ASSUME NEW p \in Procs, Write(p)
     PROVE  OwnInv'
  <2>1. IF p = Main THEN Moves(p, Free) ELSE Moves(p, [pc |-> "read", file |-> proc[p].file, key |-> proc[p].key])
    BY <1>0, <1>11, Steps
  <2>2. Live' = Live /\ log' = log
    BY <1>0, <1>11, <2>1, FreeType, LiveStays DEF Write, diskVars, cacheVars, bootVars, countVars,
         Procs
  <2>3. /\ proc[p].pc = "write" /\ collided' = collided /\ UNCHANGED <<hub, loaded, todo>>
        /\ Managed => todo = {} /\ p # Main
    BY <1>0, <1>11 DEF Write, diskVars, cacheVars, bootVars, countVars, PhaseInv, Managed, Phases,
         Procs
  <2> QED
    BY <1>0, <2>1, <2>2, <2>3, FreeType, LiveType DEF OwnInv, Managed, Holds, Reading, Entry, Moves
<1>12. ASSUME NEW p \in Procs, WriteFails(p)
     PROVE  OwnInv'
  <2>1. Moves(p, Free)
    BY <1>0, <1>12, Steps
  <2>2. Live' = Live /\ log' = log
    BY <1>0, <1>12, <2>1, FreeType, LiveStays DEF WriteFails, diskVars, cacheVars, bootVars,
         countVars, Procs
  <2>3. /\ proc[p].pc = "write" /\ collided' = collided /\ UNCHANGED <<hub, loaded, todo>>
        /\ Managed => todo = {} /\ p # Main
    BY <1>0, <1>12 DEF WriteFails, diskVars, cacheVars, bootVars, countVars, PhaseInv, Managed,
         Phases, Procs
  <2> QED
    BY <1>0, <2>1, <2>2, <2>3, FreeType, LiveType DEF OwnInv, Managed, Holds, Reading, Entry, Moves
<1>13. ASSUME NEW p \in Procs, ReadKey(p)
     PROVE  OwnInv'
  <2>1. IF proc[p].file \in Good(files)
        THEN Moves(p, [pc |-> "lock", file |-> proc[p].file, key |-> files[proc[p].file]])
        ELSE Moves(p, Free)
    BY <1>0, <1>13, Steps
  <2>2. Live' = Live /\ log' = log
    BY <1>0, <1>13, <2>1, FreeType, LiveStays DEF ReadKey, diskVars, cacheVars, bootVars,
         countVars, Procs
  <2>3. /\ proc[p].pc = "read" /\ collided' = collided /\ UNCHANGED <<hub, loaded, todo>>
    BY <1>13 DEF ReadKey, diskVars, cacheVars, bootVars, countVars
  <2> QED
    BY <1>0, <2>1, <2>2, <2>3, FreeType, LiveType DEF OwnInv, Managed, Holds, Reading, Entry, Moves
<1>14. ASSUME NEW p \in Procs, Fill(p)
     PROVE  OwnInv'
  <2>1. Moves(p, Free)
    BY <1>0, <1>14, Steps
  <2>2. /\ Len(log) + 1 \notin Live /\ Live' = Live \cup {Len(log) + 1}
        /\ log'[Len(log) + 1] = Entry(p) /\ \A i \in Live : log'[i] = log[i]
    BY <1>0, <1>14, LiveGrows
  <2>3. /\ proc[p].pc = "lock" /\ collided' = collided /\ UNCHANGED <<hub, loaded, todo>>
        /\ proc[p].key \in Keys
    BY <1>0, <1>14 DEF Fill, diskVars, cacheVars, bootVars, countVars, PhaseInv, Managed, Phases,
         Procs
  <2> QED
    BY <1>0, <2>1, <2>2, <2>3, FreeType, LiveType DEF OwnInv, Managed, Holds, Reading, Entry, Moves
<1>15. ASSUME NEW p \in Procs, Evict(p)
     PROVE  OwnInv'
  <2>1. Moves(p, [pc |-> "shift", file |-> proc[p].file, key |-> proc[p].key])
    BY <1>0, <1>15, Steps
  <2>2. base + 1 \in Live /\ Live' = Live \ {base + 1} /\ log' = log
    BY <1>0, <1>15, LiveEvicts
  <2>3. /\ proc[p].pc = "lock" /\ collided' = collided /\ UNCHANGED <<hub, loaded, todo>>
        /\ proc[p].key \in Keys
    BY <1>0, <1>15 DEF Evict, diskVars, cacheVars, bootVars, countVars, PhaseInv, Managed, Phases,
         Procs
  <2> QED
    BY <1>0, <2>1, <2>2, <2>3, FreeType, LiveType DEF OwnInv, Managed, Holds, Reading, Entry, Moves
<1>16. ASSUME NEW p \in Procs, Shift(p)
     PROVE  OwnInv'
  <2>1. Moves(p, [pc |-> "append", file |-> proc[p].file, key |-> proc[p].key])
    BY <1>0, <1>16, Steps
  <2>2. Live' = Live /\ log' = log
    BY <1>0, <1>16, LiveShifts
  <2>3. /\ proc[p].pc = "shift" /\ collided' = collided /\ UNCHANGED <<hub, loaded, todo>>
        /\ proc[p].key \in Keys
    BY <1>0, <1>16 DEF Shift, diskVars, cacheVars, bootVars, countVars, PhaseInv, Managed, Phases,
         Procs
  <2> QED
    BY <1>0, <2>1, <2>2, <2>3, FreeType, LiveType DEF OwnInv, Managed, Holds, Reading, Entry, Moves
<1>17. ASSUME NEW p \in Procs, AppendEntry(p)
     PROVE  OwnInv'
  <2>1. Moves(p, Free)
    BY <1>0, <1>17, Steps
  <2>2. /\ Len(log) + 1 \notin Live /\ Live' = Live \cup {Len(log) + 1}
        /\ log'[Len(log) + 1] = Entry(p) /\ \A i \in Live : log'[i] = log[i]
    BY <1>0, <1>17, LiveGrows
  <2>3. /\ proc[p].pc = "append" /\ collided' = collided /\ UNCHANGED <<hub, loaded, todo>>
        /\ proc[p].key \in Keys
    BY <1>0, <1>17 DEF AppendEntry, diskVars, cacheVars, bootVars, countVars, PhaseInv, Managed,
         Phases, Procs
  <2> QED
    BY <1>0, <2>1, <2>2, <2>3, FreeType, LiveType DEF OwnInv, Managed, Holds, Reading, Entry, Moves
<1>q. QED
  BY <1>1, <1>2, <1>3, <1>4, <1>5, <1>6, <1>7, <1>8, <1>9, <1>10, <1>11, <1>12, <1>13, <1>14,
       <1>15, <1>16, <1>17 DEF KeysNext, AddKey

(* A file holds the key of the call or entry it belongs to. *)
LEMMA TextNext == ASSUME IInv, [KeysNext]_vars PROVE TextInv'
<1>0. DataInv /\ PhaseInv /\ EvictInv /\ OwnInv /\ TextInv /\ OwnerInv
  BY DEF IInv
<1>1. CASE \/ Tick
           \/ \E k \in Keys : BeginRequest(k)
           \/ GetKeyList
           \/ VerifyToken
           \/ UNCHANGED vars
  BY <1>0, <1>1 DEF TextInv, Managed, Holds, Live, Shifting, vars, diskVars, cacheVars, bootVars,
       countVars, Tick, BeginRequest, GetKeyList, VerifyToken
<1>2. CASE Crash
  BY <1>0, <1>2 DEF TextInv, Managed, PhaseInv, Crash, diskVars, cacheVars, bootVars, countVars
<1>3. CASE FetchFails
  BY <1>0, <1>3 DEF TextInv, Managed, PhaseInv, FetchFails, diskVars, cacheVars, bootVars, countVars
<1>4. ASSUME NEW blob \in Blobs, Fetch(blob)
     PROVE  TextInv'
  BY <1>0, <1>4 DEF TextInv, Managed, PhaseInv, Fetch, diskVars, cacheVars, bootVars, countVars
<1>5. ASSUME NEW e \in todo, StoreNext(e)
     PROVE  TextInv'
  BY <1>0, <1>5 DEF TextInv, Managed, PhaseInv, StoreNext, diskVars, cacheVars, bootVars, countVars
<1>6. CASE ListKeys
  <2>1. Live' = {} /\ \A p \in Procs : proc'[p].pc = "idle"
    BY <1>0, <1>6 DEF ListKeys, PhaseInv, Live, diskVars, cacheVars, bootVars, countVars, Procs
  <2>2. /\ \A e \in todo' : e.file \in DOMAIN files /\ e.key = Bad
        /\ \A t \in DOMAIN files : [file |-> t, key |-> Bad] \in todo'
    BY <1>6 DEF ListKeys
  <2> QED
    BY <1>0, <2>1, <2>2, <1>6 DEF TextInv, Managed, Holds, Reading, ListKeys, diskVars, cacheVars,
         bootVars, countVars
<1>7. ASSUME NEW e \in todo, LoadNext(e)
     PROVE  TextInv'
  <2>1. Moves(Main, [pc |-> "read", file |-> e.file, key |-> Bad])
    BY <1>0, <1>7, Steps DEF Procs
  <2>2. Live' = Live /\ log' = log
    BY <1>0, <1>7, <2>1, FreeType, LiveStays DEF LoadNext, diskVars, cacheVars, bootVars,
         countVars, Procs
  <2>3. /\ proc[Main].pc = "idle" /\ hub = "load" /\ collided' = collided /\ todo' = todo \ {e} /\ UNCHANGED <<hub, loaded, files>>
        /\ e.key = Bad
    BY <1>0, <1>7 DEF LoadNext, diskVars, cacheVars, bootVars, countVars, PhaseInv, Managed,
         Phases, Procs
  <2> QED
    BY <1>0, <2>1, <2>2, <2>3, FreeType, LiveType, Texted DEF TextInv, Managed, Holds, Reading,
         Procs, Moves
<1>8. CASE LoadDone
  BY <1>0, <1>8 DEF TextInv, Managed, Holds, Reading, Live, Shifting, LoadDone, diskVars,
       cacheVars, bootVars, countVars, PhaseInv
<1>9. ASSUME NEW p \in Adders, NEW k \in Keys, AddNewPublicKey(p, k)
     PROVE  TextInv'
  <2>1. Moves(p, [pc |-> "create", file |-> clock, key |-> k])
    BY <1>0, <1>9, Steps DEF Procs
  <2>2. Live' = Live /\ log' = log
    BY <1>0, <1>9, <2>1, FreeType, LiveStays DEF AddNewPublicKey, diskVars, cacheVars, bootVars,
         countVars, Procs
  <2>3. /\ proc[p].pc = "idle" /\ hub = "up" /\ collided' = collided /\ UNCHANGED <<hub, loaded, todo, files>>
    BY <1>9 DEF AddNewPublicKey, diskVars, cacheVars, bootVars, countVars
  <2> QED
    BY <1>0, <2>1, <2>2, <2>3, FreeType, LiveType, Texted DEF TextInv, Managed, Holds, Reading,
         Entry, Moves
<1>10. ASSUME NEW p \in Procs, Create(p)
     PROVE  TextInv'
  <2>1. Moves(p, [pc |-> "write", file |-> proc[p].file, key |-> proc[p].key])
    BY <1>0, <1>10, Steps
  <2>2. Live' = Live /\ log' = log
    BY <1>0, <1>10, <2>1, FreeType, LiveStays DEF Create, diskVars, cacheVars, bootVars,
         countVars, Procs
  <2>3. /\ proc[p].pc = "create" /\ collided' = (IF proc[p].file \in DOMAIN files THEN collided \cup {proc[p].file} ELSE collided) /\ UNCHANGED <<hub, loaded, todo>>
        /\ Managed => todo = {} /\ p # Main
    BY <1>0, <1>10 DEF Create, diskVars, cacheVars, bootVars, countVars, PhaseInv, Managed,
         Phases, Procs
  <2>4. IF proc[p].file \in DOMAIN files THEN files' = files ELSE Stores(proc[p].file, Empty)
    BY <1>0, <1>10, FileSteps
  <2> QED
    BY <1>0, <2>1, <2>2, <2>3, <2>4, FreeType, LiveType, Texted DEF TextInv, Managed, Holds,
         Reading, Stores, Moves
<1>11. ASSUME NEW p \in Procs, Write(p)
     PROVE  TextInv'
  <2>1. IF p = Main THEN Moves(p, Free) ELSE Moves(p, [pc |-> "read", file |-> proc[p].file, key |-> proc[p].key])
    BY <1>0, <1>11, Steps
  <2>2. Live' = Live /\ log' = log
    BY <1>0, <1>11, <2>1, FreeType, LiveStays DEF Write, diskVars, cacheVars, bootVars, countVars,
         Procs
  <2>3. /\ proc[p].pc = "write" /\ collided' = collided /\ UNCHANGED <<hub, loaded, todo>>
        /\ Managed => todo = {} /\ p # Main
    BY <1>0, <1>11 DEF Write, diskVars, cacheVars, bootVars, countVars, PhaseInv, Managed, Phases,
         Procs
  <2>4. IF proc[p].file \notin DOMAIN files THEN files' = files
        ELSE \/ Stores(proc[p].file, proc[p].key)
             \/ Stores(proc[p].file, Bad) /\ files[proc[p].file] \notin {Empty, proc[p].key}
    BY <1>0, <1>11, FileSteps
  <2> QED
    BY <1>0, <2>1, <2>2, <2>3, <2>4, FreeType, LiveType, Texted DEF TextInv, Managed, Holds,
         Reading, OwnInv, Stores, Moves
<1>12. ASSUME NEW p \in Procs, WriteFails(p)
     PROVE  TextInv'
  <2>1. Moves(p, Free)
    BY <1>0, <1>12, Steps
  <2>2. Live' = Live /\ log' = log
    BY <1>0, <1>12, <2>1, FreeType, LiveStays DEF WriteFails, diskVars, cacheVars, bootVars,
         countVars, Procs
  <2>3. /\ proc[p].pc = "write" /\ collided' = collided /\ UNCHANGED <<hub, loaded, todo>>
        /\ Managed => todo = {} /\ p # Main
    BY <1>0, <1>12 DEF WriteFails, diskVars, cacheVars, bootVars, countVars, PhaseInv, Managed,
         Phases, Procs
  <2>4. IF proc[p].file \in DOMAIN files THEN Stores(proc[p].file, Bad) ELSE files' = files
    BY <1>0, <1>12, FileSteps
  <2> QED
    BY <1>0, <2>1, <2>2, <2>3, <2>4, FreeType, LiveType, Texted DEF TextInv, Managed, Holds,
         Reading, OwnInv, Stores, Moves
<1>13. ASSUME NEW p \in Procs, ReadKey(p)
     PROVE  TextInv'
  <2>1. IF proc[p].file \in Good(files)
        THEN Moves(p, [pc |-> "lock", file |-> proc[p].file, key |-> files[proc[p].file]])
        ELSE Moves(p, Free)
    BY <1>0, <1>13, Steps
  <2>2. Live' = Live /\ log' = log
    BY <1>0, <1>13, <2>1, FreeType, LiveStays DEF ReadKey, diskVars, cacheVars, bootVars,
         countVars, Procs
  <2>3. /\ proc[p].pc = "read" /\ collided' = collided /\ UNCHANGED <<hub, loaded, todo, files>>
    BY <1>13 DEF ReadKey, diskVars, cacheVars, bootVars, countVars
  <2> QED
    BY <1>0, <2>1, <2>2, <2>3, FreeType, LiveType, Texted DEF TextInv, Managed, Holds, Reading,
         Good, Moves
<1>14. ASSUME NEW p \in Procs, Fill(p)
     PROVE  TextInv'
  <2>1. Moves(p, Free)
    BY <1>0, <1>14, Steps
  <2>2. /\ Len(log) + 1 \notin Live /\ Live' = Live \cup {Len(log) + 1}
        /\ log'[Len(log) + 1] = Entry(p) /\ \A i \in Live : log'[i] = log[i]
    BY <1>0, <1>14, LiveGrows
  <2>3. /\ proc[p].pc = "lock" /\ collided' = collided /\ UNCHANGED <<hub, loaded, todo, files>>
        /\ proc[p].key \in Keys
    BY <1>0, <1>14 DEF Fill, diskVars, cacheVars, bootVars, countVars, PhaseInv, Managed, Phases,
         Procs
  <2> QED
    BY <1>0, <2>1, <2>2, <2>3, FreeType, LiveType, Texted DEF TextInv, Managed, Holds, Reading,
         Entry, Moves
<1>15. ASSUME NEW p \in Procs, Evict(p)
     PROVE  TextInv'
  <2>1. Moves(p, [pc |-> "shift", file |-> proc[p].file, key |-> proc[p].key])
    BY <1>0, <1>15, Steps
  <2>2. base + 1 \in Live /\ Live' = Live \ {base + 1} /\ log' = log
    BY <1>0, <1>15, LiveEvicts
  <2>3. /\ proc[p].pc = "lock" /\ collided' = collided /\ UNCHANGED <<hub, loaded, todo>>
        /\ proc[p].key \in Keys
    BY <1>0, <1>15 DEF Evict, diskVars, cacheVars, bootVars, countVars, PhaseInv, Managed, Phases,
         Procs
  <2>4. Removes(log[base + 1].file)
    BY <1>0, <1>15, FileSteps
  <2> QED
    BY <1>0, <2>1, <2>2, <2>3, <2>4, FreeType, LiveType, Texted DEF TextInv, Managed, Holds,
         Reading, OwnInv, Removes, Moves
<1>16. ASSUME NEW p \in Procs, Shift(p)
     PROVE  TextInv'
  <2>1. Moves(p, [pc |-> "append", file |-> proc[p].file, key |-> proc[p].key])
    BY <1>0, <1>16, Steps
  <2>2. Live' = Live /\ log' = log
    BY <1>0, <1>16, LiveShifts
  <2>3. /\ proc[p].pc = "shift" /\ collided' = collided /\ UNCHANGED <<hub, loaded, todo, files>>
        /\ proc[p].key \in Keys
    BY <1>0, <1>16 DEF Shift, diskVars, cacheVars, bootVars, countVars, PhaseInv, Managed, Phases,
         Procs
  <2> QED
    BY <1>0, <2>1, <2>2, <2>3, FreeType, LiveType, Texted DEF TextInv, Managed, Holds, Reading,
         Entry, Moves
<1>17. ASSUME NEW p \in Procs, AppendEntry(p)
     PROVE  TextInv'
  <2>1. Moves(p, Free)
    BY <1>0, <1>17, Steps
  <2>2. /\ Len(log) + 1 \notin Live /\ Live' = Live \cup {Len(log) + 1}
        /\ log'[Len(log) + 1] = Entry(p) /\ \A i \in Live : log'[i] = log[i]
    BY <1>0, <1>17, LiveGrows
  <2>3. /\ proc[p].pc = "append" /\ collided' = collided /\ UNCHANGED <<hub, loaded, todo, files>>
        /\ proc[p].key \in Keys
    BY <1>0, <1>17 DEF AppendEntry, diskVars, cacheVars, bootVars, countVars, PhaseInv, Managed,
         Phases, Procs
  <2> QED
    BY <1>0, <2>1, <2>2, <2>3, FreeType, LiveType, Texted DEF TextInv, Managed, Holds, Reading,
         Entry, Moves
<1>q. QED
  BY <1>1, <1>2, <1>3, <1>4, <1>5, <1>6, <1>7, <1>8, <1>9, <1>10, <1>11, <1>12, <1>13, <1>14,
       <1>15, <1>16, <1>17 DEF KeysNext, AddKey

(* Every file belongs to a call or to a live entry. *)
LEMMA OwnerNext == ASSUME IInv, [KeysNext]_vars PROVE OwnerInv'
<1>0. DataInv /\ PhaseInv /\ EvictInv /\ OwnInv /\ TextInv /\ OwnerInv
  BY DEF IInv
<1>1. CASE \/ Tick
           \/ \E k \in Keys : BeginRequest(k)
           \/ GetKeyList
           \/ VerifyToken
           \/ UNCHANGED vars
  BY <1>0, <1>1 DEF OwnerInv, Managed, Holds, Live, Shifting, Good, vars, diskVars, cacheVars,
       bootVars, countVars, Tick, BeginRequest, GetKeyList, VerifyToken
<1>2. CASE Crash
  BY <1>0, <1>2 DEF OwnerInv, Managed, PhaseInv, Crash, diskVars, cacheVars, bootVars, countVars
<1>3. CASE FetchFails
  BY <1>0, <1>3 DEF OwnerInv, Managed, PhaseInv, FetchFails, diskVars, cacheVars, bootVars,
       countVars
<1>4. ASSUME NEW blob \in Blobs, Fetch(blob)
     PROVE  OwnerInv'
  BY <1>0, <1>4 DEF OwnerInv, Managed, PhaseInv, Fetch, diskVars, cacheVars, bootVars, countVars
<1>5. ASSUME NEW e \in todo, StoreNext(e)
     PROVE  OwnerInv'
  BY <1>0, <1>5 DEF OwnerInv, Managed, PhaseInv, StoreNext, diskVars, cacheVars, bootVars, countVars
<1>6. CASE ListKeys
  <2>1. Live' = {} /\ \A p \in Procs : proc'[p].pc = "idle"
    BY <1>0, <1>6 DEF ListKeys, PhaseInv, Live, diskVars, cacheVars, bootVars, countVars, Procs
  <2>2. /\ \A e \in todo' : e.file \in DOMAIN files /\ e.key = Bad
        /\ \A t \in DOMAIN files : [file |-> t, key |-> Bad] \in todo'
    BY <1>6 DEF ListKeys
  <2> QED
    BY <1>0, <2>1, <2>2, <1>6 DEF OwnerInv, Managed, Holds, Reading, ListKeys, diskVars,
         cacheVars, bootVars, countVars, Good
<1>7. ASSUME NEW e \in todo, LoadNext(e)
     PROVE  OwnerInv'
  <2>1. Moves(Main, [pc |-> "read", file |-> e.file, key |-> Bad])
    BY <1>0, <1>7, Steps DEF Procs
  <2>2. Live' = Live /\ log' = log
    BY <1>0, <1>7, <2>1, FreeType, LiveStays DEF LoadNext, diskVars, cacheVars, bootVars,
         countVars, Procs
  <2>3. /\ proc[Main].pc = "idle" /\ hub = "load" /\ collided' = collided /\ todo' = todo \ {e} /\ UNCHANGED <<hub, loaded, files>>
        /\ e.key = Bad
    BY <1>0, <1>7 DEF LoadNext, diskVars, cacheVars, bootVars, countVars, PhaseInv, Managed,
         Phases, Procs
  <2> QED
    BY <1>0, <2>1, <2>2, <2>3, FreeType, LiveType, Texted DEF OwnerInv, Managed, Holds, Reading,
         Procs, Good, Moves
<1>8. CASE LoadDone
  BY <1>0, <1>8 DEF OwnerInv, Managed, Holds, Reading, Live, Shifting, LoadDone, diskVars,
       cacheVars, bootVars, countVars, PhaseInv, Good
<1>9. ASSUME NEW p \in Adders, NEW k \in Keys, AddNewPublicKey(p, k)
     PROVE  OwnerInv'
  <2>1. Moves(p, [pc |-> "create", file |-> clock, key |-> k])
    BY <1>0, <1>9, Steps DEF Procs
  <2>2. Live' = Live /\ log' = log
    BY <1>0, <1>9, <2>1, FreeType, LiveStays DEF AddNewPublicKey, diskVars, cacheVars, bootVars,
         countVars, Procs
  <2>3. /\ proc[p].pc = "idle" /\ hub = "up" /\ collided' = collided /\ UNCHANGED <<hub, loaded, todo, files>>
    BY <1>9 DEF AddNewPublicKey, diskVars, cacheVars, bootVars, countVars
  <2> QED
    BY <1>0, <2>1, <2>2, <2>3, FreeType, LiveType, Texted DEF OwnerInv, Managed, Holds, Reading,
         Entry, Good, Moves
<1>10. ASSUME NEW p \in Procs, Create(p)
     PROVE  OwnerInv'
  <2>1. Moves(p, [pc |-> "write", file |-> proc[p].file, key |-> proc[p].key])
    BY <1>0, <1>10, Steps
  <2>2. Live' = Live /\ log' = log
    BY <1>0, <1>10, <2>1, FreeType, LiveStays DEF Create, diskVars, cacheVars, bootVars,
         countVars, Procs
  <2>3. /\ proc[p].pc = "create" /\ collided' = (IF proc[p].file \in DOMAIN files THEN collided \cup {proc[p].file} ELSE collided) /\ UNCHANGED <<hub, loaded, todo>>
        /\ Managed => todo = {} /\ p # Main
    BY <1>0, <1>10 DEF Create, diskVars, cacheVars, bootVars, countVars, PhaseInv, Managed,
         Phases, Procs
  <2>4. IF proc[p].file \in DOMAIN files THEN files' = files ELSE Stores(proc[p].file, Empty)
    BY <1>0, <1>10, FileSteps
  <2> QED
    BY <1>0, <2>1, <2>2, <2>3, <2>4, FreeType, LiveType, Texted DEF OwnerInv, Managed, Holds,
         Reading, Stores, Good, Moves
<1>11. ASSUME NEW p \in Procs, Write(p)
     PROVE  OwnerInv'
  <2>1. IF p = Main THEN Moves(p, Free) ELSE Moves(p, [pc |-> "read", file |-> proc[p].file, key |-> proc[p].key])
    BY <1>0, <1>11, Steps
  <2>2. Live' = Live /\ log' = log
    BY <1>0, <1>11, <2>1, FreeType, LiveStays DEF Write, diskVars, cacheVars, bootVars, countVars,
         Procs
  <2>3. /\ proc[p].pc = "write" /\ collided' = collided /\ UNCHANGED <<hub, loaded, todo>>
        /\ Managed => todo = {} /\ p # Main
    BY <1>0, <1>11 DEF Write, diskVars, cacheVars, bootVars, countVars, PhaseInv, Managed, Phases,
         Procs
  <2>4. IF proc[p].file \notin DOMAIN files THEN files' = files
        ELSE \/ Stores(proc[p].file, proc[p].key)
             \/ Stores(proc[p].file, Bad) /\ files[proc[p].file] \notin {Empty, proc[p].key}
    BY <1>0, <1>11, FileSteps
  <2> QED
    BY <1>0, <2>1, <2>2, <2>3, <2>4, FreeType, LiveType, Texted DEF OwnerInv, Managed, Holds,
         Reading, Stores, TextInv, Good, Moves
<1>12. ASSUME NEW p \in Procs, WriteFails(p)
     PROVE  OwnerInv'
  <2>1. Moves(p, Free)
    BY <1>0, <1>12, Steps
  <2>2. Live' = Live /\ log' = log
    BY <1>0, <1>12, <2>1, FreeType, LiveStays DEF WriteFails, diskVars, cacheVars, bootVars,
         countVars, Procs
  <2>3. /\ proc[p].pc = "write" /\ collided' = collided /\ UNCHANGED <<hub, loaded, todo>>
        /\ Managed => todo = {} /\ p # Main
    BY <1>0, <1>12 DEF WriteFails, diskVars, cacheVars, bootVars, countVars, PhaseInv, Managed,
         Phases, Procs
  <2>4. IF proc[p].file \in DOMAIN files THEN Stores(proc[p].file, Bad) ELSE files' = files
    BY <1>0, <1>12, FileSteps
  <2> QED
    BY <1>0, <2>1, <2>2, <2>3, <2>4, FreeType, LiveType, Texted DEF OwnerInv, Managed, Holds,
         Reading, Stores, Good, Moves
<1>13. ASSUME NEW p \in Procs, ReadKey(p)
     PROVE  OwnerInv'
  <2>1. IF proc[p].file \in Good(files)
        THEN Moves(p, [pc |-> "lock", file |-> proc[p].file, key |-> files[proc[p].file]])
        ELSE Moves(p, Free)
    BY <1>0, <1>13, Steps
  <2>2. Live' = Live /\ log' = log
    BY <1>0, <1>13, <2>1, FreeType, LiveStays DEF ReadKey, diskVars, cacheVars, bootVars,
         countVars, Procs
  <2>3. /\ proc[p].pc = "read" /\ collided' = collided /\ UNCHANGED <<hub, loaded, todo, files>>
    BY <1>13 DEF ReadKey, diskVars, cacheVars, bootVars, countVars
  <2> QED
    BY <1>0, <2>1, <2>2, <2>3, FreeType, LiveType, Texted DEF OwnerInv, Managed, Holds, Reading,
         Good, Moves
<1>14. ASSUME NEW p \in Procs, Fill(p)
     PROVE  OwnerInv'
  <2>1. Moves(p, Free)
    BY <1>0, <1>14, Steps
  <2>2. /\ Len(log) + 1 \notin Live /\ Live' = Live \cup {Len(log) + 1}
        /\ log'[Len(log) + 1] = Entry(p) /\ \A i \in Live : log'[i] = log[i]
    BY <1>0, <1>14, LiveGrows
  <2>3. /\ proc[p].pc = "lock" /\ collided' = collided /\ UNCHANGED <<hub, loaded, todo, files>>
        /\ proc[p].key \in Keys
    BY <1>0, <1>14 DEF Fill, diskVars, cacheVars, bootVars, countVars, PhaseInv, Managed, Phases,
         Procs
  <2> QED
    BY <1>0, <2>1, <2>2, <2>3, FreeType, LiveType, Texted DEF OwnerInv, Managed, Holds, Reading,
         Entry, Good, Moves
<1>15. ASSUME NEW p \in Procs, Evict(p)
     PROVE  OwnerInv'
  <2>1. Moves(p, [pc |-> "shift", file |-> proc[p].file, key |-> proc[p].key])
    BY <1>0, <1>15, Steps
  <2>2. base + 1 \in Live /\ Live' = Live \ {base + 1} /\ log' = log
    BY <1>0, <1>15, LiveEvicts
  <2>3. /\ proc[p].pc = "lock" /\ collided' = collided /\ UNCHANGED <<hub, loaded, todo>>
        /\ proc[p].key \in Keys
    BY <1>0, <1>15 DEF Evict, diskVars, cacheVars, bootVars, countVars, PhaseInv, Managed, Phases,
         Procs
  <2>4. Removes(log[base + 1].file)
    BY <1>0, <1>15, FileSteps
  <2> QED
    BY <1>0, <2>1, <2>2, <2>3, <2>4, FreeType, LiveType, Texted DEF OwnerInv, Managed, Holds,
         Reading, Removes, Good, Moves
<1>16. ASSUME NEW p \in Procs, Shift(p)
     PROVE  OwnerInv'
  <2>1. Moves(p, [pc |-> "append", file |-> proc[p].file, key |-> proc[p].key])
    BY <1>0, <1>16, Steps
  <2>2. Live' = Live /\ log' = log
    BY <1>0, <1>16, LiveShifts
  <2>3. /\ proc[p].pc = "shift" /\ collided' = collided /\ UNCHANGED <<hub, loaded, todo, files>>
        /\ proc[p].key \in Keys
    BY <1>0, <1>16 DEF Shift, diskVars, cacheVars, bootVars, countVars, PhaseInv, Managed, Phases,
         Procs
  <2> QED
    BY <1>0, <2>1, <2>2, <2>3, FreeType, LiveType, Texted DEF OwnerInv, Managed, Holds, Reading,
         Entry, Good, Moves
<1>17. ASSUME NEW p \in Procs, AppendEntry(p)
     PROVE  OwnerInv'
  <2>1. Moves(p, Free)
    BY <1>0, <1>17, Steps
  <2>2. /\ Len(log) + 1 \notin Live /\ Live' = Live \cup {Len(log) + 1}
        /\ log'[Len(log) + 1] = Entry(p) /\ \A i \in Live : log'[i] = log[i]
    BY <1>0, <1>17, LiveGrows
  <2>3. /\ proc[p].pc = "append" /\ collided' = collided /\ UNCHANGED <<hub, loaded, todo, files>>
        /\ proc[p].key \in Keys
    BY <1>0, <1>17 DEF AppendEntry, diskVars, cacheVars, bootVars, countVars, PhaseInv, Managed,
         Phases, Procs
  <2> QED
    BY <1>0, <2>1, <2>2, <2>3, FreeType, LiveType, Texted DEF OwnerInv, Managed, Holds, Reading,
         Entry, Good, Moves
<1>q. QED
  BY <1>1, <1>2, <1>3, <1>4, <1>5, <1>6, <1>7, <1>8, <1>9, <1>10, <1>11, <1>12, <1>13, <1>14,
       <1>15, <1>16, <1>17 DEF KeysNext, AddKey

(* How the slice changes. *)
LEMMA CachedSteps ==
    ASSUME DataInv, PhaseInv, EvictInv, NEW p \in Procs
    PROVE  /\ Live \subseteq Cached /\ \A i \in Cached : log[i].file \in Times /\ log[i].key \in Keys
           /\ (Fill(p) \/ AppendEntry(p)) => /\ Cached' = Cached \cup {Len(log) + 1}
                                             /\ \A i \in Cached : i < Len(log) + 1 /\ log'[i] = log[i]
                                             /\ log'[Len(log) + 1] = Entry(p)
                                             /\ Len(log') = Len(log) + 1
           /\ Shift(p) => Cached' = Cached \ {base + 1}
<1>0. Len(log) \in Nat /\ base \in Nat /\ base <= Len(log) /\ log \in Seq([file : Times, key : Keys])
  BY DEF DataInv
<1>1. ASSUME NEW i \in Cached PROVE log[i].file \in Times /\ log[i].key \in Keys
  <2>1. i \in 1..Len(log)
    BY <1>0 DEF Cached
  <2>2. log[i] \in [file : Times, key : Keys]
    BY <1>0, <2>1, Element
  <2> QED
    BY <2>2
<1>2. Live \subseteq Cached
  BY <1>0 DEF Live, Cached
<1>3. ASSUME Fill(p) \/ AppendEntry(p)
      PROVE  /\ Cached' = Cached \cup {Len(log) + 1} /\ \A i \in Cached : i < Len(log) + 1 /\ log'[i] = log[i]
             /\ log'[Len(log) + 1] = Entry(p) /\ Len(log') = Len(log) + 1
  <2>1. log' = Append(log, Entry(p)) /\ base' = base
    BY <1>3 DEF Fill, AppendEntry
  <2>2. Len(log') = Len(log) + 1 /\ log'[Len(log) + 1] = Entry(p) /\ \A i \in 1..Len(log) : log'[i] = log[i]
    BY <1>0, <2>1
  <2> QED
    BY <1>0, <2>1, <2>2 DEF Cached
<1>4. Shift(p) => Cached' = Cached \ {base + 1}
  <2>1. Shift(p) => log' = log /\ base' = base + 1
    BY DEF Shift
  <2> QED
    BY <1>0, <2>1 DEF Cached
<1> QED
  BY <1>1, <1>2, <1>3, <1>4

(* What Load has read so far is the newest of what was offered. *)
LEMMA LoadNextInv == ASSUME IInv, [KeysNext]_vars PROVE LoadInv'
<1>0. DataInv /\ PhaseInv /\ EvictInv /\ OwnInv /\ TextInv /\ LoadInv
  BY DEF IInv
<1>1. CASE \/ Tick
           \/ \E k \in Keys : BeginRequest(k)
           \/ GetKeyList
           \/ VerifyToken
           \/ UNCHANGED vars
  BY <1>0, <1>1 DEF LoadInv, Sorted, FromOffer, Accounted, Evicted, Live, Shifting, Cached, Good,
       vars, diskVars, cacheVars, bootVars, countVars, Tick, BeginRequest, GetKeyList, VerifyToken
<1>2. CASE Crash
  BY <1>0, <1>2 DEF LoadInv, PhaseInv, Crash, diskVars, cacheVars, bootVars, countVars
<1>3. CASE FetchFails
  BY <1>0, <1>3 DEF LoadInv, PhaseInv, FetchFails, diskVars, cacheVars, bootVars, countVars
<1>4. ASSUME NEW blob \in Blobs, Fetch(blob)
     PROVE  LoadInv'
  BY <1>0, <1>4 DEF LoadInv, PhaseInv, Fetch, diskVars, cacheVars, bootVars, countVars
<1>5. ASSUME NEW e \in todo, StoreNext(e)
     PROVE  LoadInv'
  BY <1>0, <1>5 DEF LoadInv, PhaseInv, StoreNext, diskVars, cacheVars, bootVars, countVars
<1>6. CASE ListKeys
  <2>1. Cached' = {} /\ Live' = {} /\ proc'[Main].pc = "idle"
    BY <1>0, <1>6 DEF ListKeys, PhaseInv, Live, Cached, cacheVars
  <2>2. files' = files /\ offered' = [t \in Good(files) |-> files[t]]
    BY <1>6 DEF ListKeys, diskVars
  <2> QED
    BY <2>1, <2>2 DEF LoadInv, Sorted, FromOffer, Accounted, Good, Reading
<1>7. ASSUME NEW e \in todo, LoadNext(e)
     PROVE  LoadInv'
  <2>1. Moves(Main, [pc |-> "read", file |-> e.file, key |-> Bad])
    BY <1>0, <1>7, Steps DEF Procs
  <2>2. /\ proc[Main].pc = "idle" /\ UNCHANGED <<hub, fresh, offered, files, log, base>>
        /\ todo' = todo \ {e} /\ \A d \in todo : e.file <= d.file
        /\ hub = "load" /\ \A d \in todo : d.file \in Nat /\ (d = e \/ d.file # e.file)
    BY <1>0, <1>7 DEF LoadNext, diskVars, cacheVars, bootVars, countVars, PhaseInv, DataInv, Times
  <2>3. Live' = Live /\ Cached' = Cached
    BY <1>0, <2>1, <2>2, LiveStays DEF cacheVars, Cached, Procs
  <2> QED
    BY <1>0, <2>1, <2>2, <2>3 DEF LoadInv, Sorted, FromOffer, Accounted, Evicted, Reading, Moves,
         Good
<1>8. CASE LoadDone
  <2>1. Cached' = Cached /\ Live' = Live
    BY <1>8 DEF LoadDone, cacheVars, Cached, Live, Shifting
  <2>2. hub = "load" /\ UNCHANGED <<files, log, base, todo, offered, proc>>
    BY <1>8 DEF LoadDone, diskVars, cacheVars
  <2> QED
    BY <1>0, <2>1, <2>2 DEF LoadInv, Sorted, FromOffer, Accounted, Good, Evicted
<1>9. ASSUME NEW p \in Adders, NEW k \in Keys, AddNewPublicKey(p, k)
     PROVE  LoadInv'
  BY <1>0, <1>9 DEF LoadInv, PhaseInv, AddNewPublicKey, diskVars, cacheVars, bootVars, countVars
<1>10. ASSUME NEW p \in Procs, Create(p)
     PROVE  LoadInv'
  BY <1>0, <1>10 DEF LoadInv, PhaseInv, Create, diskVars, cacheVars, bootVars, countVars, Procs,
       Reading
<1>11. ASSUME NEW p \in Procs, Write(p)
     PROVE  LoadInv'
  BY <1>0, <1>11 DEF LoadInv, PhaseInv, Write, diskVars, cacheVars, bootVars, countVars, Procs,
       Reading
<1>12. ASSUME NEW p \in Procs, WriteFails(p)
     PROVE  LoadInv'
  BY <1>0, <1>12 DEF LoadInv, PhaseInv, WriteFails, diskVars, cacheVars, bootVars, countVars,
       Procs, Reading
<1>13. ASSUME NEW p \in Procs, ReadKey(p)
     PROVE  LoadInv'
  <2>1. IF proc[p].file \in Good(files)
        THEN Moves(p, [pc |-> "lock", file |-> proc[p].file, key |-> files[proc[p].file]])
        ELSE Moves(p, Free)
    BY <1>0, <1>13, Steps
  <2>2. /\ proc[p].pc = "read" /\ UNCHANGED <<hub, fresh, todo, offered, files, log, base>>
        /\ (hub = "load" \/ fresh) => p = Main /\ hub = "load"
    BY <1>0, <1>13 DEF ReadKey, diskVars, cacheVars, bootVars, countVars, PhaseInv, Procs, Phases
  <2>3. Live' = Live /\ Cached' = Cached
    BY <1>0, <2>1, <2>2, FreeType, LiveStays DEF cacheVars, Cached
  <2> QED
    BY <1>0, <2>1, <2>2, <2>3, FreeType DEF LoadInv, Sorted, FromOffer, Accounted, Evicted,
         Reading, Moves, Good
<1>14. ASSUME NEW p \in Procs, Fill(p)
     PROVE  LoadInv'
  <2>1. Moves(p, Free)
    BY <1>0, <1>14, Steps
  <2>2. /\ Len(log) + 1 \notin Live /\ Live' = Live \cup {Len(log) + 1}
        /\ log'[Len(log) + 1] = Entry(p) /\ \A i \in Live : log'[i] = log[i]
    BY <1>0, <1>14, LiveGrows
  <2>3. /\ proc[p].pc = "lock" /\ proc[p].key \in Keys /\ UNCHANGED <<hub, fresh, todo, offered, files>>
        /\ (hub = "load" \/ fresh) => p = Main /\ hub = "load" /\ collided = {}
    BY <1>0, <1>14 DEF Fill, diskVars, cacheVars, bootVars, countVars, PhaseInv, Procs, Phases
  <2>4. Len(log) \in Nat /\ base \in Nat /\ MaxLength \in Nat /\ Cardinality(Cached) = Len(log) - base
    BY <1>0, CachedSize, Bounds DEF DataInv
  <2>9. Len(log) < base + MaxLength /\ base' = base
    BY <1>0, <1>14, <2>4 DEF Fill
  <2>5. /\ Cached' = Cached \cup {Len(log) + 1}
        /\ \A i \in Cached : i < Len(log) + 1 /\ log'[i] = log[i] /\ log'[Len(log) + 1] = Entry(p)
    BY <1>0, <1>14, <2>4, <2>9, CachedSteps 
  <2>6. Live \subseteq Cached /\ \A i \in Cached : log[i].file \in Nat
    BY <1>0, CachedSteps DEF Times
  <2>8. ASSUME hub = "load" PROVE Sorted' /\ FromOffer' /\ Accounted'
    <3>0. Sorted /\ FromOffer /\ Accounted /\ p = Main /\ proc[Main].file \in Nat
      BY <1>0, <2>3, <2>8 DEF LoadInv, DataInv, ProcType, Times
    <3>1. Sorted'
      <4>1. log'[Len(log) + 1].file = proc[Main].file /\ proc'[Main].pc = "idle" /\ proc[Main].pc \in Reading
        BY <3>0, <2>1, <2>2, <2>3, FreeType DEF Entry, Moves, Reading
      <4>2. \A i, j \in Cached' : i < j => log'[i].file < log'[j].file
        BY SMTT(30), <3>0, <4>1, <2>4, <2>5 DEF Sorted, Cached
      <4>3. \A i \in Cached', e \in todo' : log'[i].file < e.file
        BY <3>0, <4>1, <2>3, <2>5 DEF Sorted
      <4> QED
        BY <4>1, <4>2, <4>3 DEF Sorted, Reading
    <3>2. FromOffer'
      BY <3>0, <2>1, <2>2, <2>3, <2>4, <2>5, <2>6, <2>9, FreeType DEF FromOffer, Reading, Moves,
           Good, Entry
    <3>3. Accounted'
      BY <3>0, <2>1, <2>2, <2>3, <2>4, <2>5, <2>6, <2>9, FreeType DEF Accounted, Evicted, Good,
           Reading, Moves, Entry
    <3> QED
      BY <3>1, <3>2, <3>3
  <2> QED
    BY <2>3, <2>8 DEF LoadInv
<1>15. ASSUME NEW p \in Procs, Evict(p)
     PROVE  LoadInv'
  <2>1. Moves(p, [pc |-> "shift", file |-> proc[p].file, key |-> proc[p].key])
    BY <1>0, <1>15, Steps
  <2>2. base + 1 \in Live /\ Live' = Live \ {base + 1} /\ log' = log
    BY <1>0, <1>15, LiveEvicts
  <2>3. /\ proc[p].pc = "lock" /\ proc[p].key \in Keys /\ UNCHANGED <<hub, fresh, todo, offered>>
        /\ (hub = "load" \/ fresh) => p = Main /\ hub = "load" /\ collided = {}
    BY <1>0, <1>15 DEF Evict, diskVars, cacheVars, bootVars, countVars, PhaseInv, Procs, Phases
  <2>4. Len(log) \in Nat /\ base \in Nat /\ MaxLength \in Nat /\ Cardinality(Cached) = Len(log) - base
    BY <1>0, CachedSize, Bounds DEF DataInv
  <2>9. Len(log) = base + MaxLength
    BY <1>0, <1>15, <2>4 DEF Evict
  <2>5. Cached' = Cached /\ Len(log) = base + MaxLength /\ base' = base
    BY <1>0, <1>15, <2>4, <2>9, CachedSteps DEF Evict, cacheVars, Cached
  <2>6. Live \subseteq Cached /\ \A i \in Cached : log[i].file \in Nat
    BY <1>0, CachedSteps DEF Times
  <2>7. Removes(log[base + 1].file)
    BY <1>0, <1>15, FileSteps
  <2>8. ASSUME hub = "load" PROVE Sorted' /\ FromOffer' /\ Accounted'
    <3>0. Sorted /\ FromOffer /\ Accounted /\ p = Main /\ proc[Main].file \in Nat
      BY <1>0, <2>3, <2>8 DEF LoadInv, DataInv, ProcType, Times
    <3>1. Sorted'
      BY <3>0, <2>1, <2>2, <2>3, <2>4, <2>5, <2>6, <2>7, <2>9, FreeType DEF Sorted, Reading,
           Moves, Entry
    <3>2. FromOffer'
      BY <3>0, <2>1, <2>2, <2>3, <2>4, <2>5, <2>6, <2>7, <2>9, FreeType DEF FromOffer, Reading,
           Moves, Good, Entry, Removes
    <3>3. Accounted'
      <4>1. ASSUME NEW t \in DOMAIN offered, Evicted(t) PROVE Evicted(t)'
        BY <3>0, <4>1, <2>1, <2>2, <2>3, <2>4, <2>5, <2>6, <2>7, <2>9 DEF Evicted, Moves, Reading
      <4>2. Evicted(log[base + 1].file)'
        BY <3>0, <2>1, <2>2, <2>3, <2>4, <2>5, <2>6, <2>7, <2>9 DEF Evicted, Moves, Reading,
             Sorted, Cached
      <4> QED
        BY <3>0, <4>1, <4>2, <2>1, <2>2, <2>3, <2>4, <2>5, <2>6, <2>7, <2>9 DEF Accounted, Good,
             Removes
    <3> QED
      BY <3>1, <3>2, <3>3
  <2> QED
    BY <2>3, <2>8 DEF LoadInv
<1>16. ASSUME NEW p \in Procs, Shift(p)
     PROVE  LoadInv'
  <2>1. Moves(p, [pc |-> "append", file |-> proc[p].file, key |-> proc[p].key])
    BY <1>0, <1>16, Steps
  <2>2. Live' = Live /\ log' = log
    BY <1>0, <1>16, LiveShifts
  <2>3. /\ proc[p].pc = "shift" /\ proc[p].key \in Keys /\ UNCHANGED <<hub, fresh, todo, offered, files>>
        /\ (hub = "load" \/ fresh) => p = Main /\ hub = "load" /\ collided = {}
    BY <1>0, <1>16 DEF Shift, diskVars, cacheVars, bootVars, countVars, PhaseInv, Procs, Phases
  <2>4. Len(log) \in Nat /\ base \in Nat /\ MaxLength \in Nat /\ Cardinality(Cached) = Len(log) - base
    BY <1>0, CachedSize, Bounds DEF DataInv
  <2>9. Len(log) = base + MaxLength
    BY <1>0, <1>16, <2>4 DEF Shift, EvictInv
  <2>5. Cached' = Cached \ {base + 1}
    BY <1>0, <1>16, <2>4, <2>9, CachedSteps 
  <2>6. Live \subseteq Cached /\ \A i \in Cached : log[i].file \in Nat
    BY <1>0, CachedSteps DEF Times
  <2>8. ASSUME hub = "load" PROVE Sorted' /\ FromOffer' /\ Accounted'
    <3>0. Sorted /\ FromOffer /\ Accounted /\ p = Main /\ proc[Main].file \in Nat
      BY <1>0, <2>3, <2>8 DEF LoadInv, DataInv, ProcType, Times
    <3>1. Sorted'
      BY <3>0, <2>1, <2>2, <2>3, <2>4, <2>5, <2>6, <2>9, FreeType DEF Sorted, Reading, Moves, Entry
    <3>2. FromOffer'
      BY <3>0, <2>1, <2>2, <2>3, <2>4, <2>5, <2>6, <2>9, FreeType DEF FromOffer, Reading, Moves,
           Good, Entry
    <3>3. Accounted'
      BY <3>0, <2>1, <2>2, <2>3, <2>4, <2>5, <2>6, <2>9 DEF Accounted, Evicted, Good, Reading, Moves
    <3> QED
      BY <3>1, <3>2, <3>3
  <2> QED
    BY <2>3, <2>8 DEF LoadInv
<1>17. ASSUME NEW p \in Procs, AppendEntry(p)
     PROVE  LoadInv'
  <2>1. Moves(p, Free)
    BY <1>0, <1>17, Steps
  <2>2. /\ Len(log) + 1 \notin Live /\ Live' = Live \cup {Len(log) + 1}
        /\ log'[Len(log) + 1] = Entry(p) /\ \A i \in Live : log'[i] = log[i]
    BY <1>0, <1>17, LiveGrows
  <2>3. /\ proc[p].pc = "append" /\ proc[p].key \in Keys /\ UNCHANGED <<hub, fresh, todo, offered, files>>
        /\ (hub = "load" \/ fresh) => p = Main /\ hub = "load" /\ collided = {}
    BY <1>0, <1>17 DEF AppendEntry, diskVars, cacheVars, bootVars, countVars, PhaseInv, Procs,
         Phases
  <2>4. Len(log) \in Nat /\ base \in Nat /\ MaxLength \in Nat /\ Cardinality(Cached) = Len(log) - base
    BY <1>0, CachedSize, Bounds DEF DataInv
  <2>9. Len(log) + 1 = base + MaxLength /\ base' = base
    BY <1>0, <1>17, <2>4 DEF AppendEntry, EvictInv
  <2>5. /\ Cached' = Cached \cup {Len(log) + 1} /\ Len(log') = base' + MaxLength
        /\ \A i \in Cached : i < Len(log) + 1 /\ log'[i] = log[i] /\ log'[Len(log) + 1] = Entry(p)
    BY <1>0, <1>17, <2>4, <2>9, CachedSteps DEF AppendEntry, EvictInv
  <2>6. Live \subseteq Cached /\ \A i \in Cached : log[i].file \in Nat
    BY <1>0, CachedSteps DEF Times
  <2>8. ASSUME hub = "load" PROVE Sorted' /\ FromOffer' /\ Accounted'
    <3>0. Sorted /\ FromOffer /\ Accounted /\ p = Main /\ proc[Main].file \in Nat
      BY <1>0, <2>3, <2>8 DEF LoadInv, DataInv, ProcType, Times
    <3>1. Sorted'
      <4>1. log'[Len(log) + 1].file = proc[Main].file /\ proc'[Main].pc = "idle" /\ proc[Main].pc \in Reading
        BY <3>0, <2>1, <2>2, <2>3, FreeType DEF Entry, Moves, Reading
      <4>2. \A i, j \in Cached' : i < j => log'[i].file < log'[j].file
        BY SMTT(30), <3>0, <4>1, <2>4, <2>5 DEF Sorted, Cached
      <4>3. \A i \in Cached', e \in todo' : log'[i].file < e.file
        BY <3>0, <4>1, <2>3, <2>5 DEF Sorted
      <4> QED
        BY <4>1, <4>2, <4>3 DEF Sorted, Reading
    <3>2. FromOffer'
      BY <3>0, <2>1, <2>2, <2>3, <2>4, <2>5, <2>6, <2>9, FreeType DEF FromOffer, Reading, Moves,
           Good, Entry
    <3>3. Accounted'
      BY <3>0, <2>1, <2>2, <2>3, <2>4, <2>5, <2>6, <2>9, FreeType DEF Accounted, Evicted, Good,
           Reading, Moves, Entry
    <3> QED
      BY <3>1, <3>2, <3>3
  <2> QED
    BY <2>3, <2>8 DEF LoadInv
<1>q. QED
  BY <1>1, <1>2, <1>3, <1>4, <1>5, <1>6, <1>7, <1>8, <1>9, <1>10, <1>11, <1>12, <1>13, <1>14,
       <1>15, <1>16, <1>17 DEF KeysNext, AddKey

(* The length a reader sees, and how far it can be from the slice's. *)
LEMMA Lengths ==
    ASSUME DataInv, EvictInv
    PROVE  /\ CurrentLength \in Nat /\ CurrentLength <= MaxLength /\ Len(log) <= base + CurrentLength
           /\ CurrentLength = IF Locked THEN MaxLength ELSE Len(log) - base
           /\ Locked => CurrentLength = MaxLength
           /\ Len(log) \in Nat /\ base \in Nat /\ MaxLength \in Nat /\ MaxLength > 0 /\ base <= Len(log)
           /\ Cached = base + 1..Len(log) /\ Cardinality(Cached) = Len(log) - base
<1>1. /\ Len(log) \in Nat /\ base \in Nat /\ MaxLength \in Nat /\ MaxLength > 0 /\ base <= Len(log)
      /\ Cardinality(Cached) = Len(log) - base
  BY Bounds, CachedSize DEF DataInv
<1>2. CurrentLength = IF Locked THEN MaxLength ELSE Len(log) - base
  BY <1>1 DEF CurrentLength
<1>3. Len(log) <= base + MaxLength
  BY DEF EvictInv
<1> QED
  BY <1>1, <1>2, <1>3 DEF Cached

(* The size of an interval. *)
LEMMA IntervalSize ==
    ASSUME NEW b \in Nat, NEW n \in Nat, b <= n
    PROVE  Cardinality(b + 1..n) = n - b
<1>1. Cardinality(b + 1..n) = IF b + 1 > n THEN 0 ELSE n - (b + 1) + 1
  BY FS_Interval
<1> QED
  BY <1>1

(* A request while its entries come and go. *)
RequestGrows ==
    /\ request'.pc = request.pc /\ request'.token = request.token /\ request'.list = request.list
    /\ request'.always = request.always /\ request'.ever = request.ever \cup {Len(log) + 1}
    /\ request'.windows = request.windows
RequestOpens ==
    /\ request'.pc = request.pc /\ request'.token = request.token /\ request'.list = request.list
    /\ request'.always = request.always /\ request'.ever = request.ever
    /\ request'.windows = IF request.pc = "scan" THEN request.windows + 1 ELSE request.windows
RequestLoses ==
    /\ request'.pc = request.pc /\ request'.token = request.token /\ request'.list = request.list
    /\ request'.always = request.always \ {base + 1} /\ request'.ever = request.ever
    /\ request'.windows = request.windows

(* What the steps beside a request do to its history. *)
LEMMA RequestSteps ==
    ASSUME RequestType, NEW p \in Procs
    PROVE  /\ (Fill(p) \/ AppendEntry(p)) => RequestGrows
           /\ Evict(p) => RequestOpens
           /\ Shift(p) => RequestLoses
<1>1. (Fill(p) \/ AppendEntry(p)) => RequestGrows
  BY DEF RequestType, Requests, Fill, AppendEntry, RequestGrows
<1>2. Evict(p) => RequestOpens
  BY DEF RequestType, Requests, Evict, RequestOpens
<1>3. Shift(p) => RequestLoses
  BY DEF RequestType, Requests, Shift, RequestLoses
<1> QED
  BY <1>1, <1>2, <1>3

(* The type of a request. *)
LEMMA RequestNext == ASSUME IInv, [KeysNext]_vars PROVE RequestType'
<1>0. DataInv /\ PhaseInv /\ EvictInv /\ RequestType
  BY DEF IInv
<1>1. CASE \/ Tick
           \/ FetchFails
           \/ \E blob \in Blobs : Fetch(blob)
           \/ \E e \in todo : StoreNext(e)
           \/ ListKeys
           \/ \E e \in todo : LoadNext(e)
           \/ LoadDone
           \/ \E p \in Adders : \E k \in Keys : AddNewPublicKey(p, k)
           \/ \E p \in Procs : Create(p)
           \/ \E p \in Procs : Write(p)
           \/ \E p \in Procs : WriteFails(p)
           \/ \E p \in Procs : ReadKey(p)
           \/ UNCHANGED vars
  BY <1>0, <1>1 DEF RequestType, vars, diskVars, cacheVars, bootVars, countVars, Tick, FetchFails,
       Fetch, StoreNext, ListKeys, LoadNext, LoadDone, AddNewPublicKey, Create, Write, WriteFails,
       ReadKey
<1>2. CASE Crash
  BY <1>2 DEF Crash, Requests, RequestType, NoRequest, Answers
<1>3. ASSUME NEW p \in Procs, Fill(p)
     PROVE  RequestType'
  <2>1. Len(log) \in Nat /\ Len(log') = Len(log) + 1
    BY <1>0, <1>3 DEF Fill, DataInv
  <2>2. request.ever \cup {Len(log) + 1} \in SUBSET Nat
    BY <1>0, <2>1 DEF RequestType, Requests
  <2>3. request' \in Requests
    BY <1>0, <1>3, <2>2 DEF Fill, RequestType, Requests
  <2>4. RequestGrows
    BY <1>0, <1>3, RequestSteps
  <2> QED
    BY <1>0, <2>1, <2>3, <2>4 DEF RequestType, RequestGrows
<1>4. ASSUME NEW p \in Procs, Evict(p)
     PROVE  RequestType'
  <2>0. (IF request.pc = "scan" THEN request.windows + 1 ELSE request.windows) \in Nat
    BY <1>0 DEF RequestType, Requests
  <2>1. request' \in Requests
    BY <1>0, <1>4, <2>0 DEF Evict, RequestType, Requests
  <2>2. RequestOpens /\ log' = log
    BY <1>0, <1>4, RequestSteps DEF Evict, cacheVars
  <2> QED
    BY <1>0, <2>1, <2>2 DEF RequestType, RequestOpens
<1>5. ASSUME NEW p \in Procs, Shift(p)
     PROVE  RequestType'
  <2>1. request' \in Requests
    BY <1>0, <1>5 DEF Shift, RequestType, Requests
  <2>2. RequestLoses /\ log' = log
    BY <1>0, <1>5, RequestSteps DEF Shift, cacheVars
  <2> QED
    BY <1>0, <2>1, <2>2 DEF RequestType, RequestLoses
<1>6. ASSUME NEW p \in Procs, AppendEntry(p)
     PROVE  RequestType'
  <2>1. Len(log) \in Nat /\ Len(log') = Len(log) + 1
    BY <1>0, <1>6 DEF AppendEntry, DataInv
  <2>2. request.ever \cup {Len(log) + 1} \in SUBSET Nat
    BY <1>0, <2>1 DEF RequestType, Requests
  <2>3. request' \in Requests
    BY <1>0, <1>6, <2>2 DEF AppendEntry, RequestType, Requests
  <2>4. RequestGrows
    BY <1>0, <1>6, RequestSteps
  <2> QED
    BY <1>0, <2>1, <2>3, <2>4 DEF RequestType, RequestGrows
<1>7. ASSUME NEW k \in Keys, BeginRequest(k)
     PROVE  RequestType'
  BY <1>0, <1>7, Lengths DEF BeginRequest, Requests, RequestType, Answers, cacheVars
<1>8. CASE GetKeyList
  <2>1. CASE request' = [request EXCEPT !.pc = "panic"]
    BY <1>0, <1>8, <2>1 DEF GetKeyList, RequestType, Requests, Answers, cacheVars
  <2>2. ASSUME NEW entry \in Reads(Len(request.list) + 1), NEW e \in entry,
               request' = [request EXCEPT !.list = Append(@, e)]
        PROVE  RequestType'
    <3>1. request.list \in Seq(Nat) /\ base \in Nat
      BY <1>0 DEF RequestType, Requests, DataInv
    <3>2. e \in Nat
      BY <2>2, <3>1 DEF Reads, Junk
    <3>3. Append(request.list, e) \in Seq(Nat)
      BY <3>1, <3>2
    <3> QED
      BY <1>0, <1>8, <2>2, <3>3 DEF GetKeyList, RequestType, Requests, cacheVars
  <2> QED
    BY <1>8, <2>1, <2>2 DEF GetKeyList
<1>9. CASE VerifyToken
  BY <1>0, <1>9 DEF VerifyToken, Requests, RequestType, Answers, cacheVars
<1>q. QED
  BY <1>1, <1>2, <1>3, <1>4, <1>5, <1>6, <1>7, <1>8, <1>9 DEF KeysNext, AddKey

(* A subset of a finite set is no larger. *)
LEMMA Smaller ==
    ASSUME NEW n \in Nat, NEW T, T \subseteq 1..n, NEW S, S \subseteq T
    PROVE  /\ IsFiniteSet(S) /\ IsFiniteSet(T) /\ Cardinality(S) \in Nat /\ Cardinality(T) \in Nat
           /\ Cardinality(S) <= Cardinality(T)
<1>1. IsFiniteSet(1..n)
  BY FS_Interval
<1>2. IsFiniteSet(T)
  BY <1>1, FS_Subset
<1>3. IsFiniteSet(S) /\ Cardinality(S) <= Cardinality(T)
  BY <1>2, FS_Subset
<1> QED
  BY <1>2, <1>3, FS_CardinalityType

(* A set grows by at most the interval that is added. *)
LEMMA Widened ==
    ASSUME NEW n \in Nat, NEW M, M \subseteq 1..n, NEW a \in Nat, NEW b \in Nat, a <= b,
           NEW S, S \subseteq M \cup (a + 1..b)
    PROVE  Cardinality(S) \in Nat /\ Cardinality(S) <= Cardinality(M) + (b - a)
<1>1. IsFiniteSet(M) /\ Cardinality(M) \in Nat
  BY Smaller
<1>2. IsFiniteSet(a + 1..b) /\ Cardinality(a + 1..b) = b - a
  <2>1. /\ IsFiniteSet(a + 1..b)
        /\ Cardinality(a + 1..b) = IF a + 1 > b THEN 0 ELSE b - (a + 1) + 1
    BY FS_Interval
  <2> QED
    BY <2>1
<1>3. /\ IsFiniteSet(M \cup (a + 1..b))
      /\ Cardinality(M \cup (a + 1..b)) = Cardinality(M) + Cardinality(a + 1..b) - Cardinality(M \cap (a + 1..b))
  BY <1>1, <1>2, FS_Union
<1>4. Cardinality(M \cap (a + 1..b)) \in Nat
  <2>1. M \cap (a + 1..b) \subseteq M
    OBVIOUS
  <2> QED
    BY <2>1, Smaller
<1>5. IsFiniteSet(S) /\ Cardinality(S) <= Cardinality(M \cup (a + 1..b))
  BY <1>3, FS_Subset
<1>6. Cardinality(S) \in Nat
  BY <1>5, FS_CardinalityType
<1> QED
  BY <1>1, <1>2, <1>3, <1>4, <1>5, <1>6

(* Steps that touch neither the slice nor the request keep the scan's        *)
(* invariant.                                                                *)
LEMMA ScanStays ==
    ASSUME ScanInv, request' = request, log' = log, base' = base,
           Locked' <=> Locked, Shifting' <=> Shifting
    PROVE  ScanInv'
<1>1. CurrentLength' = CurrentLength /\ Cached' = Cached /\ One' = One
  BY DEF CurrentLength, Cached, One
<1>2. Seen' = Seen /\ Listed' = Listed
  BY DEF Seen, Listed
<1>3. Missed' = Missed /\ Start' = Start
  BY <1>2 DEF Missed, Start
<1> QED
  BY <1>1, <1>2, <1>3 DEF ScanInv, InWindow, Behind, Torn, Clean

(* Steps outside the lock leave it as it is. *)
LEMMA LockStays ==
    ASSUME NEW p \in Procs, NEW r, Moves(p, r),
           proc[p].pc \notin {"shift", "append"}, r.pc \notin {"shift", "append"}
    PROVE  (Locked' <=> Locked) /\ (Shifting' <=> Shifting)
  BY DEF Locked, Evicting, Shifting, Moves

(* What follows from the entries a request has read. *)
LEMMA SameList ==
    ASSUME request'.list = request.list
    PROVE  Seen' = Seen /\ Listed' = Listed /\ Start' = Start /\ (Clean' <=> Clean)
<1>1. Seen' = Seen /\ Listed' = Listed
  BY DEF Seen, Listed
<1> QED
  BY <1>1 DEF Start, Clean

(* The numbers of a scan. *)
LEMMA ScanTypes ==
    ASSUME DataInv, RequestType
    PROVE  /\ Len(request.list) \in Nat /\ Seen \in Nat /\ Start \in Int /\ One \in {0, 1} /\ (One = 1 <=> Shifting)
           /\ request.windows \in Nat /\ request.always \subseteq 1..Len(log) /\ request.list \in Seq(Nat)
           /\ Missed \subseteq request.always /\ Len(log) \in Nat
           /\ Cardinality(Missed) \in Nat
<1>1. /\ request.list \in Seq(Nat) /\ request.windows \in Nat /\ request.always \subseteq 1..Len(log)
      /\ Len(log) \in Nat
  BY DEF RequestType, Requests, DataInv
<1>2. Len(request.list) \in Nat /\ Seen \in Nat
  BY <1>1 DEF Seen
<1>3. Missed \subseteq request.always
  BY DEF Missed
<1>4. Cardinality(Missed) \in Nat
  BY <1>1, <1>3, Smaller
<1> QED
  BY <1>1, <1>2, <1>3, <1>4 DEF Start, One

(* Where the i-th entry of a slice stands, before and after a shift. *)
LEMMA Offsets ==
    ASSUME NEW b \in Nat, NEW i \in Nat, i >= 1, NEW e
    PROVE  /\ e = b + i => e \in Nat /\ b + 1 <= e /\ b <= e - i /\ e - i <= b + 0
           /\ e = b + 1 + i => e \in Nat /\ b + 1 <= e /\ b <= e - i /\ e - i <= b + 1
           /\ e = b + i => e - i <= b + 1
  OBVIOUS

(* What one turn of the loop of GetKeyList may read. *)
LEMMA ReadsOne ==
    ASSUME DataInv, EvictInv, RequestType, ScanInv, request.pc = "scan",
           NEW i \in Nat, i = Len(request.list) + 1, i <= CurrentLength,
           NEW entry \in Reads(i), NEW e \in entry
    PROVE  \/ e = Junk /\ i = MaxLength /\ Locked
           \/ /\ e \in Nat /\ base + 1 <= e /\ e <= Len(log) /\ Seen < e
              /\ base <= e - i /\ e - i <= base + One
<1> DEFINE there == {x \in {base + i, base + 1 + i} : Seen < x /\ x <= Len(log)}
<1> DEFINE beyond == IF i = MaxLength THEN {{Junk}, {}} ELSE {}
<1>1. /\ Len(request.list) \in Nat /\ i \in Nat /\ i >= 1 /\ base \in Nat /\ MaxLength \in Nat /\ Len(log) \in Nat /\ Seen \in Nat
      /\ i <= CurrentLength /\ CurrentLength <= MaxLength /\ CurrentLength \in Nat
  BY ScanTypes, Lengths
<1>2. CASE Shifting
  <2>1. entry \in {{x} : x \in there} \cup beyond
    BY <1>2 DEF Reads, Shifting
  <2>2. CASE entry \in beyond
    <3>1. entry = {Junk} /\ i = MaxLength
      BY <2>2
    <3>2. Locked
      BY <1>2 DEF Shifting, Locked, Evicting
    <3> QED
      BY <3>1, <3>2
  <2>3. CASE entry \in {{x} : x \in there}
    <3>1. (e = base + i \/ e = base + 1 + i) /\ e <= Len(log) /\ Seen < e
      BY <2>3
    <3>2. One = 1
      BY <1>2 DEF One
    <3> QED
      BY <1>1, <3>1, <3>2, Offsets
  <2> QED
    BY <2>1, <2>2, <2>3
<1>3. CASE ~Shifting /\ (\E p \in Procs : proc[p].pc = "append") /\ i = MaxLength
  <2>1. entry \in beyond
    BY <1>3 DEF Reads, Shifting
  <2>2. entry = {Junk} /\ Locked
    BY <1>3, <2>1 DEF Locked, Evicting
  <2> QED
    BY <1>3, <2>2
<1>4. CASE ~Shifting /\ ~((\E p \in Procs : proc[p].pc = "append") /\ i = MaxLength)
  <2>1. entry = {base + i}
    BY <1>4 DEF Reads, Shifting
  <2>2. e = base + i
    BY <2>1
  <2>3. base + i <= Len(log)
    <3>1. CASE Locked
      <4>1. PICK p \in Procs : proc[p].pc = "append"
        BY <1>4, <3>1 DEF Locked, Evicting, Shifting
      <4>2. Len(log) + 1 = base + MaxLength /\ i # MaxLength
        BY <1>4, <4>1 DEF EvictInv
      <4> QED
        BY <1>1, <4>2
    <3>2. CASE ~Locked
      BY <1>1, <3>2, Lengths
    <3> QED
      BY <3>1, <3>2
  <2>4. Seen < base + i
    <3>1. CASE Clean
      BY <1>1, <1>4, <3>1, ScanTypes DEF ScanInv, Behind, Start, One
    <3>2. CASE ~Clean
      BY SMTT(30), <1>1, <3>2, ScanTypes DEF Clean, Junk, Seen
    <3> QED
      BY <3>1, <3>2
  <2>5. One = 0
    BY <1>4 DEF One
  <2> QED
    BY <1>1, <2>2, <2>3, <2>4, <2>5, Offsets
<1> QED
  BY <1>2, <1>3, <1>4

(* The reader is never further behind than the evictions it overlapped. *)
ReadsAt(n, e) ==
    /\ request.pc = "scan" /\ UNCHANGED <<log, base, proc>>
    /\ n = Len(request.list) /\ n + 1 <= CurrentLength
    /\ \/ e = Junk /\ n + 1 = MaxLength /\ Locked
       \/ /\ base + 1 <= e /\ e <= Len(log) /\ Seen < e
          /\ base <= e - (n + 1) /\ e - (n + 1) <= base + One
    /\ request' = [request EXCEPT !.list = Append(@, e)]

(* A turn of the loop that reads entry e keeps the scan's invariant. *)
LEMMA ReadsEntry ==
    ASSUME DataInv, EvictInv, RequestType, ScanInv, NEW n \in Nat, NEW e \in Nat, ReadsAt(n, e)
    PROVE  ScanInv'
<1>0. /\ \/ e = Junk /\ n + 1 = MaxLength /\ Locked
         \/ /\ e \in Nat /\ base + 1 <= e /\ e <= Len(log) /\ Seen < e
            /\ base <= e - (n + 1) /\ e - (n + 1) <= base + One
      /\ request.list \in Seq(Nat) /\ n = Len(request.list)
  BY ScanTypes DEF ReadsAt
<1>1. /\ request'.pc = "scan" /\ request'.list = Append(request.list, e)
      /\ request'.always = request.always /\ request'.ever = request.ever
      /\ request'.windows = request.windows /\ UNCHANGED <<log, base, proc>>
  BY DEF RequestType, Requests, ReadsAt
<1>2. Len(request'.list) = n + 1 /\ request'.list[n + 1] = e /\ \A j \in 1..n : request'.list[j] = request.list[j]
  BY <1>0, <1>1
<1>3. Seen' = e
  BY <1>0, <1>2 DEF Seen
<1>4. Listed' = Listed \cup {e}
  <2>1. Listed' = {request'.list[j] : j \in 1..n + 1} /\ Listed = {request.list[j] : j \in 1..n}
    BY <1>0, <1>2 DEF Listed
  <2>2. 1..n + 1 = (1..n) \cup {n + 1}
    OBVIOUS
  <2> QED
    BY <1>2, <2>1, <2>2
<1>5. /\ CurrentLength' = CurrentLength /\ Cached' = Cached /\ One' = One /\ (Locked' <=> Locked) /\ base' = base
      /\ Start' = e - (n + 1)
  BY <1>1, <1>2, <1>3 DEF CurrentLength, Cached, Locked, Evicting, One, Shifting, Start
<1>6. /\ CurrentLength \in Nat /\ CurrentLength <= MaxLength /\ Len(log) <= base + CurrentLength
      /\ n + 1 <= CurrentLength /\ MaxLength \in Nat /\ base \in Nat /\ Len(log) \in Nat
      /\ Cached = base + 1..Len(log) /\ Cardinality(Cached) = Len(log) - base
      /\ request.windows \in Nat /\ One \in {0, 1} /\ Seen \in Nat
  BY Lengths, ScanTypes DEF ReadsAt
<1>7. InWindow /\ (Clean => Behind) /\ (n > 0 => Clean)
  <2>1. InWindow /\ (Clean => Behind)
    BY DEF ScanInv, ReadsAt
  <2>2. ASSUME n > 0 PROVE request.list[n] # Junk
    <3>1. n \in 1..Len(request.list) /\ n # MaxLength
      BY <1>0, <1>6, <2>2
    <3> QED
      BY <2>1, <3>1 DEF InWindow
  <2> QED
    BY <1>0, <2>1, <2>2 DEF Clean, Seen
<1>8. request.always \subseteq Cached /\ request.always \subseteq 1..Len(log)
  BY <1>7, ScanTypes DEF InWindow
<1>9. InWindow'
  <2>1. ASSUME NEW j \in 1..Len(request'.list)
        PROVE  /\ request'.list[j] # Junk => request'.list[j] \in request'.ever
               /\ request'.list[j] = Junk => j = MaxLength /\ request'.windows >= 1
    <3>1. CASE j \in 1..n
      BY <1>1, <1>2, <1>7, <3>1 DEF InWindow
    <3>2. CASE j = n + 1
      <4>1. e # Junk => e \in Cached
        <5>1. e # Junk => e \in Nat /\ base + 1 <= e /\ e <= Len(log)
          BY <1>0
        <5> QED
          BY <1>6, <5>1
      <4>2. e = Junk => n + 1 = MaxLength /\ Locked
        BY <1>0, <1>6 DEF Junk
      <4> QED
        BY <1>1, <1>2, <1>7, <3>2, <4>1, <4>2 DEF InWindow
    <3> QED
      BY <1>0, <1>2, <3>1, <3>2
  <2> QED
    BY SMTT(30), <1>1, <1>2, <1>5, <1>6, <1>7, <2>1 DEF InWindow
<1>10. CASE e = Junk
  <2>1. ~Clean'
    BY <1>3, <1>10 DEF Clean
  <2>2. Torn'
    <3>0. n + 1 = MaxLength /\ Locked /\ request.windows >= 1 /\ CurrentLength = MaxLength
      BY <1>0, <1>7, <1>10, Lengths DEF Junk, InWindow
    <3>1. CASE n = 0
      <4>1. Len(log) - base <= 1
        BY <1>6, <3>0, <3>1
      <4>2. Cardinality(request.always \ Listed') \in Nat /\ Cardinality(request.always \ Listed') <= Cardinality(Cached)
        <5>1. request.always \ Listed' \subseteq Cached /\ Cached \subseteq 1..Len(log)
          BY <1>6, <1>8
        <5> QED
          BY <1>6, <5>1, Smaller
      <4> QED
        BY <1>1, <1>6, <3>0, <4>1, <4>2 DEF Torn
    <3>2. CASE n > 0
      <4>0. Behind /\ Seen = Start + n /\ Start \in Int /\ Cardinality(Missed) \in Nat /\ Missed \subseteq 1..Len(log)
        BY <1>0, <1>7, <3>2, ScanTypes DEF Start
      <4>1. request.always \ Listed' \subseteq Missed \cup (Seen + 1..Seen + 1)
        <5>1. ASSUME NEW a \in request.always, a \notin Listed', ~(a <= Seen) PROVE a = Seen + 1
          <6>1. a \in Nat /\ a <= Start + CurrentLength
            BY <1>8, <4>0 DEF Behind
          <6>2. CurrentLength = n + 1 /\ Seen = Start + n /\ Start \in Int /\ Seen \in Nat /\ ~(a <= Seen)
            BY <1>6, <3>0, <4>0, <5>1
          <6> QED
            BY <6>1, <6>2
        <5> QED
          BY <1>4, <1>6, <5>1 DEF Missed
      <4>2. CASE Seen + 1 \in request.always
        <5>1. Seen + 1 <= Len(log)
          BY <1>6, <1>8, <4>2
        <5>2. base + One - Start >= 1
          <6>1. CASE Shifting
            BY SMTT(30), <1>0, <1>6, <3>0, <4>0, <5>1, <6>1 DEF EvictInv, Shifting, One
          <6>2. CASE ~Shifting
            <7>1. PICK p \in Procs : proc[p].pc = "append"
              BY <3>0, <6>2 DEF Locked, Evicting, Shifting
            <7>2. Len(log) + 1 = base + MaxLength /\ One = 0
              BY <6>2, <7>1 DEF EvictInv, One
            <7> QED
              BY <1>0, <1>6, <3>0, <4>0, <5>1, <7>2
          <6> QED
            BY <6>1, <6>2
        <5>3. /\ Cardinality(request.always \ Listed') \in Nat
              /\ Cardinality(request.always \ Listed') <= Cardinality(Missed) + ((Seen + 1) - Seen)
          <6>1. Seen + 1 \in Nat /\ Seen <= Seen + 1
            BY <1>6
          <6> QED
            BY <1>6, <4>0, <4>1, <6>1, Widened
        <5>4. Cardinality(Missed) + base + One - Start <= request.windows
          BY <4>0 DEF Behind
        <5> QED
          BY <1>1, <1>6, <4>0, <5>2, <5>3, <5>4 DEF Torn
      <4>3. CASE Seen + 1 \notin request.always
        <5>1. request.always \ Listed' \subseteq Missed
          BY <1>6, <4>1, <4>3
        <5>2. /\ Cardinality(request.always \ Listed') \in Nat
              /\ Cardinality(request.always \ Listed') <= Cardinality(Missed)
          BY <1>6, <4>0, <5>1, Smaller
        <5>3. Cardinality(Missed) + base + One - Start <= request.windows /\ Start <= base + One
          BY <4>0 DEF Behind
        <5> QED
          BY <1>1, <1>6, <4>0, <5>2, <5>3 DEF Torn
      <4> QED
        BY <4>2, <4>3
    <3> QED
      BY <1>0, <3>1, <3>2
  <2> QED
    BY <1>9, <2>1, <2>2 DEF ScanInv
<1>11. CASE e # Junk
  <2>0. /\ e \in Nat /\ base + 1 <= e /\ e <= Len(log) /\ Seen < e
        /\ base <= e - (n + 1) /\ e - (n + 1) <= base + One
    BY <1>0, <1>11
  <2>1. Clean'
    BY <1>0, <1>2, <1>3, <1>11 DEF Clean
  <2>2. Behind'
    <3>1. CASE n = 0
      <4>1. Missed' \subseteq {} \cup (base + 1..e - 1)
        BY <1>1, <1>3, <1>4, <1>6, <1>8, <2>0 DEF Missed
      <4>2. e - 1 \in Nat /\ base <= e - 1
        BY <1>6, <2>0
      <4>3. /\ Cardinality(Missed') \in Nat /\ Cardinality(Missed') <= Cardinality({}) + ((e - 1) - base)
        BY <1>6, <4>1, <4>2, Widened
      <4>4. Cardinality({}) = 0
        BY FS_EmptySet
      <4>5. One <= request.windows
        BY <1>6, <1>7 DEF InWindow, One, Locked, Evicting, Shifting
      <4>6. \A a \in request.always : a \in Nat /\ a <= Start' + CurrentLength
        BY <1>5, <1>6, <1>8, <2>0, <3>1
      <4> QED
        BY <1>1, <1>5, <1>6, <2>0, <3>1, <4>3, <4>4, <4>5, <4>6 DEF Behind
    <3>2. CASE n > 0
      <4>0. Behind /\ Seen = Start + n /\ Start \in Int /\ Cardinality(Missed) \in Nat /\ Missed \subseteq 1..Len(log)
        BY <1>0, <1>7, <3>2, ScanTypes DEF Start
      <4>1. Missed' \subseteq Missed \cup (Seen + 1..e - 1)
        <5>1. ASSUME NEW a \in Missed', a \notin Missed PROVE a \in Seen + 1..e - 1
          <6>1. a \in request.always /\ a <= e /\ a # e /\ a \notin Listed
            BY <1>1, <1>3, <1>4, <5>1 DEF Missed
          <6>2. ~(a <= Seen) /\ a \in Nat
            BY <1>8, <5>1, <6>1 DEF Missed
          <6> QED
            BY <1>6, <2>0, <6>1, <6>2
        <5> QED
          BY <5>1
      <4>2. e - 1 \in Nat /\ Seen <= e - 1
        BY <1>6, <2>0
      <4>3. Cardinality(Missed') \in Nat /\ Cardinality(Missed') <= Cardinality(Missed) + ((e - 1) - Seen)
        BY <1>6, <4>0, <4>1, <4>2, Widened
      <4>4. /\ Cardinality(Missed) + base + One - Start <= request.windows
            /\ \A a \in request.always : a \in Nat /\ a <= Start + CurrentLength
        BY <1>8, <4>0 DEF Behind
      <4>5. Start' >= Start
        <5>1. Seen < e /\ e \in Nat /\ Seen = Start + n /\ Start \in Int
          BY <2>0, <4>0
        <5>2. e - (n + 1) >= Start
          BY <5>1
        <5> QED
          BY <1>5, <5>2
      <4>6. \A a \in request.always : a <= Start' + CurrentLength
        <5>1. Start' \in Int /\ CurrentLength \in Nat /\ Start \in Int
          BY <1>5, <1>6, <2>0, <4>0
        <5> QED
          BY <4>4, <4>5, <5>1
      <4>7. Cardinality(Missed') + base + One - Start' <= request.windows
        BY SMTT(30), <1>5, <1>6, <2>0, <4>0, <4>3, <4>4
      <4> QED
        BY <1>1, <1>5, <1>6, <2>0, <4>6, <4>7 DEF Behind
    <3> QED
      BY <1>0, <3>1, <3>2
  <2> QED
    BY <1>9, <2>1, <2>2 DEF ScanInv
<1> QED
  BY <1>10, <1>11

(* So does every turn of the loop. *)
LEMMA ReadsOn ==
    ASSUME DataInv, EvictInv, RequestType, ScanInv, GetKeyList
    PROVE  ScanInv'
<1>0. /\ request.pc = "scan" /\ UNCHANGED <<log, base, proc>> /\ Len(request.list) \in Nat
      /\ Len(request.list) + 1 <= CurrentLength /\ Len(request.list) + 1 \in Nat
  BY ScanTypes DEF GetKeyList, cacheVars
<1>1. CASE request' = [request EXCEPT !.pc = "panic"]
  BY <1>1 DEF ScanInv, RequestType, Requests
<1>2. ASSUME NEW entry \in Reads(Len(request.list) + 1), NEW e \in entry,
             request' = [request EXCEPT !.list = Append(@, e)]
      PROVE  ScanInv'
  <2>1. \/ e = Junk /\ Len(request.list) + 1 = MaxLength /\ Locked
        \/ /\ e \in Nat /\ base + 1 <= e /\ e <= Len(log) /\ Seen < e
           /\ base <= e - (Len(request.list) + 1) /\ e - (Len(request.list) + 1) <= base + One
    BY <1>0, <1>2, ReadsOne
  <2>2. e \in Nat
    BY <2>1 DEF Junk
  <2> QED
    BY <1>0, <1>2, <2>1, <2>2, ReadsEntry DEF ReadsAt
<1> QED
  BY <1>1, <1>2 DEF GetKeyList

(* The entries a scan has read are in order, and it misses no more than      *)
(* the evictions beside it explain.                                          *)
LEMMA ScanNext == ASSUME IInv, [KeysNext]_vars PROVE ScanInv'
<1>0. DataInv /\ PhaseInv /\ EvictInv /\ RequestType /\ ScanInv
  BY DEF IInv
<1>1. CASE Tick
  BY <1>0, <1>1, ScanStays DEF Tick, diskVars, cacheVars, bootVars, countVars, Locked, Evicting,
       Shifting
<1>2. CASE Crash
  BY <1>2 DEF Crash, ScanInv, NoRequest
<1>3. CASE FetchFails
  BY <1>0, <1>3 DEF FetchFails, ScanInv, PhaseInv
<1>4. ASSUME NEW blob \in Blobs, Fetch(blob)
     PROVE  ScanInv'
  BY <1>0, <1>4 DEF Fetch, ScanInv, PhaseInv
<1>5. ASSUME NEW e \in todo, StoreNext(e)
     PROVE  ScanInv'
  BY <1>0, <1>5 DEF StoreNext, ScanInv, PhaseInv
<1>6. CASE ListKeys
  BY <1>0, <1>6 DEF ListKeys, ScanInv, PhaseInv
<1>7. ASSUME NEW e \in todo, LoadNext(e)
     PROVE  ScanInv'
  BY <1>0, <1>7 DEF LoadNext, ScanInv, PhaseInv
<1>8. CASE LoadDone
  BY <1>0, <1>8 DEF LoadDone, ScanInv, PhaseInv
<1>9. ASSUME NEW p \in Adders, NEW k \in Keys, AddNewPublicKey(p, k)
     PROVE  ScanInv'
  <2>1. Moves(p, [pc |-> "create", file |-> clock, key |-> k])
    BY <1>0, <1>9, Steps DEF Procs
  <2>2. proc[p].pc \notin {"shift", "append"} /\ UNCHANGED <<request, log, base>>
    BY <1>9 DEF AddNewPublicKey, cacheVars
  <2>3. (Locked' <=> Locked) /\ (Shifting' <=> Shifting)
    BY <2>1, <2>2, FreeType, LockStays DEF Procs
  <2> QED
    BY <1>0, <2>2, <2>3, ScanStays
<1>10. ASSUME NEW p \in Procs, Create(p)
     PROVE  ScanInv'
  <2>1. Moves(p, [pc |-> "write", file |-> proc[p].file, key |-> proc[p].key])
    BY <1>0, <1>10, Steps DEF Procs
  <2>2. proc[p].pc \notin {"shift", "append"} /\ UNCHANGED <<request, log, base>>
    BY <1>10 DEF Create, cacheVars
  <2>3. (Locked' <=> Locked) /\ (Shifting' <=> Shifting)
    BY <2>1, <2>2, FreeType, LockStays DEF Procs
  <2> QED
    BY <1>0, <2>2, <2>3, ScanStays
<1>11. ASSUME NEW p \in Procs, Write(p)
     PROVE  ScanInv'
  <2>1. IF p = Main THEN Moves(p, Free) ELSE Moves(p, [pc |-> "read", file |-> proc[p].file, key |-> proc[p].key])
    BY <1>0, <1>11, Steps DEF Procs
  <2>2. proc[p].pc \notin {"shift", "append"} /\ UNCHANGED <<request, log, base>>
    BY <1>11 DEF Write, cacheVars
  <2>3. (Locked' <=> Locked) /\ (Shifting' <=> Shifting)
    BY <2>1, <2>2, FreeType, LockStays DEF Procs
  <2> QED
    BY <1>0, <2>2, <2>3, ScanStays
<1>12. ASSUME NEW p \in Procs, WriteFails(p)
     PROVE  ScanInv'
  <2>1. Moves(p, Free)
    BY <1>0, <1>12, Steps DEF Procs
  <2>2. proc[p].pc \notin {"shift", "append"} /\ UNCHANGED <<request, log, base>>
    BY <1>12 DEF WriteFails, cacheVars
  <2>3. (Locked' <=> Locked) /\ (Shifting' <=> Shifting)
    BY <2>1, <2>2, FreeType, LockStays DEF Procs
  <2> QED
    BY <1>0, <2>2, <2>3, ScanStays
<1>13. ASSUME NEW p \in Procs, ReadKey(p)
     PROVE  ScanInv'
  <2>1. IF proc[p].file \in Good(files)
        THEN Moves(p, [pc |-> "lock", file |-> proc[p].file, key |-> files[proc[p].file]])
        ELSE Moves(p, Free)
    BY <1>0, <1>13, Steps DEF Procs
  <2>2. proc[p].pc \notin {"shift", "append"} /\ UNCHANGED <<request, log, base>>
    BY <1>13 DEF ReadKey, cacheVars
  <2>3. (Locked' <=> Locked) /\ (Shifting' <=> Shifting)
    BY <2>1, <2>2, FreeType, LockStays DEF Procs
  <2> QED
    BY <1>0, <2>2, <2>3, ScanStays
<1>14. ASSUME NEW p \in Procs, Fill(p)
     PROVE  ScanInv'
  <2>1. RequestGrows
    BY <1>0, <1>14, RequestSteps
  <2>2. /\ Cached' = Cached \cup {Len(log) + 1} /\ ~Shifting /\ ~Shifting' /\ ~Locked'
        /\ base' = base /\ Len(log') = Len(log) + 1
    BY <1>0, <1>14, CachedSteps, LiveGrows DEF Fill
  <2>3. CurrentLength' >= CurrentLength /\ CurrentLength' \in Nat /\ One' = 0 /\ One = 0
    <3>1. ~Locked
      BY <1>0, <1>14 DEF Fill
    <3>2. Len(log) \in Nat /\ base \in Nat /\ base <= Len(log)
      BY <1>0, Lengths
    <3>3. CurrentLength' = (Len(log) + 1) - base
      BY <2>2, <3>2, IntervalSize DEF CurrentLength, Cached
    <3> QED
      BY <1>0, <2>2, <3>1, <3>3, Lengths DEF One
  <2>4. /\ Seen' = Seen /\ Listed' = Listed /\ Start' = Start /\ (Clean' <=> Clean)
        /\ request'.always = request.always /\ request'.windows = request.windows
        /\ request'.pc = request.pc /\ request'.list = request.list
        /\ request'.ever = request.ever \cup {Len(log) + 1}
    BY <2>1, SameList DEF RequestGrows
  <2>5. Missed' = Missed
    BY <2>4 DEF Missed
  <2>6. ASSUME request.pc = "scan" PROVE InWindow'
    BY <1>0, <2>2, <2>4, <2>6 DEF ScanInv, InWindow
  <2>7. ASSUME request.pc = "scan", Clean PROVE Behind'
    <3>1. Behind
      BY <1>0, <2>7 DEF ScanInv
    <3>2. \A a \in request.always : a \in Nat
      BY <1>0, ScanTypes
    <3>3. /\ Cardinality(Missed) \in Nat /\ Start \in Int /\ base \in Nat /\ request.windows \in Nat
          /\ CurrentLength \in Nat
      BY <1>0, ScanTypes, Lengths
    <3> QED
      BY <2>2, <2>3, <2>4, <2>5, <3>1, <3>2, <3>3 DEF Behind
  <2> QED
    BY <1>0, <2>4, <2>6, <2>7 DEF ScanInv, Torn
<1>15. ASSUME NEW p \in Procs, Evict(p)
     PROVE  ScanInv'
  <2>1. RequestOpens
    BY <1>0, <1>15, RequestSteps
  <2>2. ~Shifting /\ Shifting' /\ log' = log /\ base' = base /\ Cached' = Cached
    BY <1>0, <1>15, LiveEvicts DEF Evict, cacheVars, Cached
  <2>3. CurrentLength' >= CurrentLength /\ CurrentLength' \in Nat /\ One' = 1 /\ One = 0
    <3>1. Locked'
      BY <2>2 DEF Locked, Shifting, Evicting
    <3>3. CurrentLength' = MaxLength
      BY <3>1 DEF CurrentLength
    <3> QED
      BY <1>0, <2>2, <3>3, Lengths DEF One
  <2>4. /\ Seen' = Seen /\ Listed' = Listed /\ Start' = Start /\ (Clean' <=> Clean)
        /\ request'.always = request.always /\ request'.ever = request.ever
        /\ request'.pc = request.pc /\ request'.list = request.list
        /\ request.pc = "scan" => request'.windows = request.windows + 1
    BY <2>1, SameList DEF RequestOpens
  <2>5. Missed' = Missed /\ request.windows \in Nat
    BY <1>0, <2>4, ScanTypes DEF Missed
  <2>6. ASSUME request.pc = "scan" PROVE InWindow'
    BY <1>0, <2>2, <2>4, <2>5, <2>6 DEF ScanInv, InWindow
  <2>7. ASSUME request.pc = "scan", Clean PROVE Behind'
    <3>1. Behind
      BY <1>0, <2>7 DEF ScanInv
    <3>2. \A a \in request.always : a \in Nat
      BY <1>0, ScanTypes
    <3>3. /\ Cardinality(Missed) \in Nat /\ Start \in Int /\ base \in Nat /\ request.windows \in Nat
          /\ CurrentLength \in Nat
      BY <1>0, ScanTypes, Lengths
    <3> QED
      BY <2>2, <2>3, <2>4, <2>5, <2>7, <3>1, <3>2, <3>3 DEF Behind
  <2>8. ASSUME request.pc = "scan", Torn PROVE Torn'
    <3>1. Cardinality(request.always \ Listed) \in Nat
      <4>1. request.always \ Listed \subseteq request.always
        OBVIOUS
      <4> QED
        BY <1>0, <4>1, ScanTypes, Smaller
    <3> QED
      BY <2>4, <2>5, <2>8, <3>1 DEF Torn
  <2> QED
    BY <1>0, <2>4, <2>6, <2>7, <2>8 DEF ScanInv
<1>16. ASSUME NEW p \in Procs, Shift(p)
     PROVE  ScanInv'
  <2>1. RequestLoses
    BY <1>0, <1>16, RequestSteps
  <2>2. /\ Shifting /\ ~Shifting' /\ log' = log /\ base' = base + 1 /\ Cached' = Cached \ {base + 1}
        /\ Locked /\ Locked'
    <3>1. proc'[p].pc = "append" /\ proc[p].pc = "shift"
      <4>1. Moves(p, [pc |-> "append", file |-> proc[p].file, key |-> proc[p].key])
        BY <1>0, <1>16, Steps
      <4> QED
        BY <1>16, <4>1 DEF Moves, Shift
    <3> QED
      BY <1>0, <1>16, <3>1, LiveShifts, CachedSteps DEF Shift, Locked, Evicting
  <2>3. CurrentLength' = CurrentLength /\ One' = 0 /\ One = 1
    BY <2>2 DEF CurrentLength, One
  <2>4. /\ Seen' = Seen /\ Listed' = Listed /\ Start' = Start /\ (Clean' <=> Clean)
        /\ request'.always = request.always \ {base + 1} /\ request'.ever = request.ever
        /\ request'.pc = request.pc /\ request'.list = request.list
        /\ request'.windows = request.windows
    BY <2>1, SameList DEF RequestLoses
  <2>5. Cardinality(Missed') \in Nat /\ Cardinality(Missed') <= Cardinality(Missed)
    <3>1. Missed' \subseteq Missed
      BY <2>4 DEF Missed
    <3>2. Missed \subseteq 1..Len(log) /\ Len(log) \in Nat
      BY <1>0, ScanTypes
    <3> QED
      BY <3>1, <3>2, Smaller
  <2>6. ASSUME request.pc = "scan" PROVE InWindow'
    BY <1>0, <2>2, <2>4, <2>6 DEF ScanInv, InWindow
  <2>7. ASSUME request.pc = "scan", Clean PROVE Behind'
    <3>1. Behind
      BY <1>0, <2>7 DEF ScanInv
    <3>3. /\ Cardinality(Missed) \in Nat /\ Start \in Int /\ base \in Nat /\ request.windows \in Nat
          /\ CurrentLength \in Nat
      BY <1>0, ScanTypes, Lengths
    <3> QED
      BY <2>2, <2>3, <2>4, <2>5, <3>1, <3>3 DEF Behind
  <2>8. ASSUME request.pc = "scan", Torn PROVE Torn'
    <3>1. request'.always \ Listed' \subseteq request.always \ Listed
      BY <2>4
    <3>2. request.always \ Listed \subseteq 1..Len(log) /\ Len(log) \in Nat
      BY <1>0, ScanTypes
    <3>3. /\ Cardinality(request'.always \ Listed') \in Nat /\ Cardinality(request.always \ Listed) \in Nat
          /\ Cardinality(request'.always \ Listed') <= Cardinality(request.always \ Listed)
      BY <3>1, <3>2, Smaller
    <3> QED
      BY <1>0, <2>4, <2>8, <3>3, ScanTypes DEF Torn
  <2> QED
    BY <1>0, <2>4, <2>6, <2>7, <2>8 DEF ScanInv
<1>17. ASSUME NEW p \in Procs, AppendEntry(p)
     PROVE  ScanInv'
  <2>1. RequestGrows
    BY <1>0, <1>17, RequestSteps
  <2>2. /\ Cached' = Cached \cup {Len(log) + 1} /\ ~Shifting /\ ~Shifting' /\ ~Locked'
        /\ base' = base /\ Len(log') = Len(log) + 1
    BY <1>0, <1>17, CachedSteps, LiveGrows DEF AppendEntry
  <2>3. CurrentLength' >= CurrentLength /\ CurrentLength' \in Nat /\ One' = 0 /\ One = 0
    <3>1. Len(log) + 1 = base + MaxLength
      BY <1>0, <1>17 DEF AppendEntry, EvictInv
    <3>2. Len(log) \in Nat /\ base \in Nat /\ base <= Len(log)
      BY <1>0, Lengths
    <3>3. CurrentLength' = (Len(log) + 1) - base
      BY <2>2, <3>2, IntervalSize DEF CurrentLength, Cached
    <3> QED
      BY <1>0, <2>2, <3>1, <3>3, Lengths DEF One
  <2>4. /\ Seen' = Seen /\ Listed' = Listed /\ Start' = Start /\ (Clean' <=> Clean)
        /\ request'.always = request.always /\ request'.windows = request.windows
        /\ request'.pc = request.pc /\ request'.list = request.list
        /\ request'.ever = request.ever \cup {Len(log) + 1}
    BY <2>1, SameList DEF RequestGrows
  <2>5. Missed' = Missed
    BY <2>4 DEF Missed
  <2>6. ASSUME request.pc = "scan" PROVE InWindow'
    BY <1>0, <2>2, <2>4, <2>6 DEF ScanInv, InWindow
  <2>7. ASSUME request.pc = "scan", Clean PROVE Behind'
    <3>1. Behind
      BY <1>0, <2>7 DEF ScanInv
    <3>2. \A a \in request.always : a \in Nat
      BY <1>0, ScanTypes
    <3>3. /\ Cardinality(Missed) \in Nat /\ Start \in Int /\ base \in Nat /\ request.windows \in Nat
          /\ CurrentLength \in Nat
      BY <1>0, ScanTypes, Lengths
    <3> QED
      BY <2>2, <2>3, <2>4, <2>5, <3>1, <3>2, <3>3 DEF Behind
  <2> QED
    BY <1>0, <2>4, <2>6, <2>7 DEF ScanInv, Torn
<1>18. ASSUME NEW k \in Keys, BeginRequest(k)
     PROVE  ScanInv'
  <2>1. /\ request'.always = Cached /\ request'.ever = Cached /\ request'.list = <<>>
        /\ request'.windows = (IF Locked THEN 1 ELSE 0) /\ UNCHANGED <<log, base, proc>>
    BY <1>18 DEF BeginRequest, cacheVars
  <2>2. Cached' = Cached /\ (Locked' <=> Locked)
    BY <2>1 DEF Cached, Locked, Evicting
  <2>3. InWindow'
    BY <2>1, <2>2, Bounds DEF InWindow
  <2> QED
    BY <2>1, <2>3 DEF ScanInv, Clean
<1>19. CASE GetKeyList
  BY <1>0, <1>19, ReadsOn
<1>20. CASE VerifyToken
  BY <1>0, <1>20 DEF VerifyToken, ScanInv, RequestType, Requests
<1>21. CASE UNCHANGED vars
  BY <1>0, ScanStays, <1>21 DEF vars, diskVars, cacheVars, bootVars, countVars, Locked, Evicting,
       Shifting
<1>q. QED
  BY <1>1, <1>2, <1>3, <1>4, <1>5, <1>6, <1>7, <1>8, <1>9, <1>10, <1>11, <1>12, <1>13, <1>14,
       <1>15, <1>16, <1>17, <1>18, <1>19, <1>20, <1>21 DEF KeysNext, AddKey

(* An answer that was given stays justified. *)
LEMMA AnswerStays ==
    ASSUME DataInv, RequestType, AuthSound, request'.pc = request.pc, request'.token = request.token,
           request'.always \subseteq request.always, request.ever \subseteq request'.ever,
           request'.windows = request.windows \/ request.pc = "scan",
           \A i \in 1..Len(log) : log'[i] = log[i]
    PROVE  AuthSound'
<1>0. /\ request.always \subseteq 1..Len(log) /\ request.ever \subseteq 1..Len(log)
      /\ Len(log) \in Nat /\ request.windows \in Nat
  BY DEF RequestType, Requests, DataInv
<1>1. CASE request.pc = "ok"
  BY <1>0, <1>1 DEF AuthSound
<1>2. CASE request.pc = "panic"
  BY <1>2 DEF AuthSound
<1>3. CASE request.pc = "unauthorized"
  <2> DEFINE S == {i \in request.always : log[i].key = request.token}
             T == {i \in request'.always : log'[i].key = request'.token}
  <2>1. T \subseteq S /\ S \subseteq 1..Len(log)
    BY <1>0
  <2>2. Cardinality(T) \in Nat /\ Cardinality(S) \in Nat /\ Cardinality(T) <= Cardinality(S)
    BY <1>0, <2>1, Smaller
  <2>3. Cardinality(S) <= request.windows /\ request'.windows = request.windows
    BY <1>3 DEF AuthSound
  <2>4. Cardinality(T) <= request'.windows
    BY <1>0, <2>2, <2>3
  <2> QED
    BY <1>3, <2>4 DEF AuthSound
<1> QED
  BY <1>1, <1>2, <1>3 DEF AuthSound

(* The verdict of a complete scan is sound. *)
LEMMA VerifySound ==
    ASSUME DataInv, EvictInv, RequestType, ScanInv, VerifyToken
    PROVE  AuthSound'
<1>0. /\ request.pc = "scan" /\ UNCHANGED <<log, base, proc>> /\ Len(request.list) >= CurrentLength
      /\ InWindow /\ (Clean => Behind) /\ (Len(request.list) > 0 /\ ~Clean => Torn)
  BY DEF VerifyToken, cacheVars, ScanInv
<1>1. /\ request'.token = request.token /\ request'.always = request.always /\ request'.ever = request.ever
      /\ request'.windows = request.windows /\ request'.pc \in {"ok", "panic", "unauthorized"}
      /\ request'.pc = "ok" => \E j \in 1..Len(request.list) : Matches(j)
      /\ request'.pc = "panic" => \E j \in 1..Len(request.list) : request.list[j] = Junk
      /\ request'.pc = "unauthorized" => \A j \in 1..Len(request.list) : ~Matches(j)
  BY DEF VerifyToken, RequestType, Requests
<1>2. CASE request'.pc = "ok"
  <2>1. PICK j \in 1..Len(request.list) : Matches(j)
    BY <1>1, <1>2
  <2>2. request.list[j] \in request.ever /\ log[request.list[j]].key = request.token
    BY <1>0, <2>1 DEF InWindow, Matches
  <2> QED
    BY <1>0, <1>1, <1>2, <2>2 DEF AuthSound
<1>3. CASE request'.pc = "panic"
  BY <1>0, <1>1, <1>3, ScanTypes DEF AuthSound, InWindow
<1>4. CASE request'.pc = "unauthorized"
  <2> DEFINE S == {i \in request.always : log[i].key = request.token}
             n == Len(request.list)
  <2>0. /\ n \in Nat /\ Seen \in Nat /\ Start \in Int /\ One \in {0, 1} /\ request.windows \in Nat /\ Len(log) \in Nat
        /\ request.always \subseteq 1..Len(log) /\ Missed \subseteq 1..Len(log) /\ Cardinality(Missed) \in Nat
        /\ CurrentLength \in Nat /\ base \in Nat /\ Seen = Start + n
    BY SMTT(30), ScanTypes, Lengths DEF Start
  <2>1. S \subseteq request.always \ Listed
    <3>1. ASSUME NEW i \in S, i \in Listed PROVE FALSE
      <4>1. PICK j \in 1..n : request.list[j] = i
        BY <3>1 DEF Listed
      <4>2. i \in Nat /\ i # Junk
        BY <2>0, <3>1 DEF Junk
      <4> QED
        BY <1>1, <1>4, <3>1, <4>1, <4>2 DEF Matches
    <3> QED
      BY <3>1
  <2>2. Cardinality(S) <= request.windows
    <3>1. CASE n = 0
      <4>1. CurrentLength = 0
        BY <1>0, <2>0, <3>1
      <4>2. Len(log) <= base
        BY <4>1, Lengths
      <4>3. request.always = {}
        BY <1>0, <2>0, <4>2 DEF InWindow, Cached
      <4> QED
        BY <2>0, <2>1, <4>3, FS_EmptySet
    <3>2. CASE n > 0 /\ Clean
      <4>1. Behind
        BY <1>0, <3>2
      <4>2. S \subseteq Missed
        <5>1. ASSUME NEW a \in request.always PROVE a <= Seen
          <6>1. a \in Nat /\ a <= Start + CurrentLength /\ CurrentLength <= n
            BY <1>0, <2>0, <4>1 DEF Behind
          <6> QED
            BY <2>0, <6>1
        <5> QED
          BY <2>1, <5>1 DEF Missed
      <4>3. Cardinality(S) \in Nat /\ Cardinality(S) <= Cardinality(Missed)
        BY <2>0, <4>2, Smaller
      <4>4. Cardinality(Missed) + base + One - Start <= request.windows /\ Start <= base + One
        BY <4>1 DEF Behind
      <4> HIDE DEF S, n
      <4> QED
        BY <2>0, <4>3, <4>4
    <3>3. CASE n > 0 /\ ~Clean
      <4>1. Cardinality(request.always \ Listed) <= request.windows
        BY <1>0, <3>3 DEF Torn
      <4>2. request.always \ Listed \subseteq 1..Len(log)
        BY <2>0
      <4>3. /\ Cardinality(S) \in Nat /\ Cardinality(request.always \ Listed) \in Nat
            /\ Cardinality(S) <= Cardinality(request.always \ Listed)
        BY <2>0, <2>1, <4>2, Smaller
      <4> HIDE DEF S, n
      <4> QED
        BY <2>0, <4>1, <4>3
    <3> QED
      BY <2>0, <3>1, <3>2, <3>3
  <2> QED
    BY <1>0, <1>1, <1>4, <2>2 DEF AuthSound
<1> QED
  BY <1>1, <1>2, <1>3, <1>4

(* The verdict stays sound. *)
LEMMA AuthNext == ASSUME IInv, [KeysNext]_vars PROVE AuthSound'
<1>0. DataInv /\ PhaseInv /\ EvictInv /\ RequestType /\ ScanInv /\ AuthSound
  BY DEF IInv
<1>1. CASE \/ Tick
           \/ FetchFails
           \/ \E blob \in Blobs : Fetch(blob)
           \/ \E e \in todo : StoreNext(e)
           \/ ListKeys
           \/ \E e \in todo : LoadNext(e)
           \/ LoadDone
           \/ \E p \in Adders : \E k \in Keys : AddNewPublicKey(p, k)
           \/ \E p \in Procs : Create(p)
           \/ \E p \in Procs : Write(p)
           \/ \E p \in Procs : WriteFails(p)
           \/ \E p \in Procs : ReadKey(p)
           \/ UNCHANGED vars
  BY <1>0, <1>1 DEF AuthSound, vars, diskVars, cacheVars, bootVars, countVars, Tick, FetchFails,
       Fetch, StoreNext, ListKeys, LoadNext, LoadDone, AddNewPublicKey, Create, Write, WriteFails,
       ReadKey
<1>2. CASE Crash
  BY <1>2 DEF Crash, AuthSound, NoRequest
<1>3. ASSUME NEW p \in Procs, Fill(p)
     PROVE  AuthSound'
  <2>1. RequestGrows
    BY <1>0, <1>3, RequestSteps
  <2>2. \A i \in 1..Len(log) : log'[i] = log[i]
    BY <1>0, <1>3 DEF Fill, DataInv
  <2> QED
    BY <1>0, <2>1, <2>2, AnswerStays DEF RequestGrows
<1>4. ASSUME NEW p \in Procs, Evict(p)
     PROVE  AuthSound'
  <2>1. RequestOpens /\ log' = log
    BY <1>0, <1>4, RequestSteps DEF Evict, cacheVars
  <2> QED
    BY <1>0, <2>1, AnswerStays DEF RequestOpens
<1>5. ASSUME NEW p \in Procs, Shift(p)
     PROVE  AuthSound'
  <2>1. RequestLoses /\ log' = log
    BY <1>0, <1>5, RequestSteps DEF Shift, cacheVars
  <2> QED
    BY <1>0, <2>1, AnswerStays DEF RequestLoses
<1>6. ASSUME NEW p \in Procs, AppendEntry(p)
     PROVE  AuthSound'
  <2>1. RequestGrows
    BY <1>0, <1>6, RequestSteps
  <2>2. \A i \in 1..Len(log) : log'[i] = log[i]
    BY <1>0, <1>6 DEF AppendEntry, DataInv
  <2> QED
    BY <1>0, <2>1, <2>2, AnswerStays DEF RequestGrows
<1>7. ASSUME NEW k \in Keys, BeginRequest(k)
     PROVE  AuthSound'
  BY <1>7 DEF BeginRequest, AuthSound
<1>8. CASE GetKeyList
  <2>1. CASE request' = [request EXCEPT !.pc = "panic"]
    <3>1. request.windows > 0
      <4>1. PICK entry \in Reads(Len(request.list) + 1) :
              \/ entry = {} /\ request' = [request EXCEPT !.pc = "panic"]
              \/ \E e \in entry : request' = [request EXCEPT !.list = Append(@, e)]
        BY <1>8 DEF GetKeyList
      <4>2. request.pc = "scan"
        BY <1>8 DEF GetKeyList
      <4>3. entry = {}
        BY <1>0, <2>1, <4>1, <4>2 DEF RequestType, Requests
      <4>4. Locked
        BY <4>1, <4>3 DEF Reads, Locked, Evicting
      <4> QED
        BY <1>0, <4>2, <4>4, ScanTypes DEF ScanInv, InWindow
    <3> QED
      BY <1>0, <2>1, <3>1 DEF AuthSound, RequestType, Requests
  <2>2. ASSUME NEW e, request' = [request EXCEPT !.list = Append(@, e)] PROVE AuthSound'
    BY <1>0, <1>8, <2>2 DEF GetKeyList, AuthSound, RequestType, Requests
  <2> QED
    BY <1>8, <2>1, <2>2 DEF GetKeyList
<1>9. CASE VerifyToken
  BY <1>0, <1>9, VerifySound
<1>q. QED
  BY <1>1, <1>2, <1>3, <1>4, <1>5, <1>6, <1>7, <1>8, <1>9 DEF KeysNext, AddKey

-----------------------------------------------------------------------------
(* The hub before its first boot. *)
LEMMA IInvInit == KeysInit => IInv
<1> SUFFICES ASSUME KeysInit PROVE IInv
  OBVIOUS
<1>0. /\ \A p \in Procs : proc[p] = Free
      /\ proc \in [Procs -> ProcType] /\ Main \in Procs
  BY FreeType DEF KeysInit, Procs
<1>1. DataInv
  <2>1. files \in [DOMAIN files -> Texts] /\ DOMAIN files = {} /\ offered \in [DOMAIN offered -> Keys] /\ DOMAIN offered = {}
    BY DEF KeysInit, NoFiles
  <2>2. log \in Seq([file : Times, key : Keys]) /\ base \in 0..Len(log) /\ clock \in Times
    BY Bounds DEF KeysInit, Times
  <2>3. adds \in 0..MaxAdds /\ faults \in 0..MaxFaults
    BY Bounds DEF KeysInit
  <2>4. collided = {} /\ todo = {} /\ hub = "down" /\ loaded = FALSE /\ fresh = FALSE
    BY DEF KeysInit
  <2> QED
    BY <1>0, <2>1, <2>2, <2>3, <2>4 DEF DataInv, Hubs
<1>2. PhaseInv
  BY <1>0, FreeType DEF PhaseInv, KeysInit, NoRequest, Reading, Procs, Phases
<1>3. EvictInv
  BY <1>0, FreeType, Bounds DEF EvictInv, Evicting, KeysInit
<1>4. OwnInv /\ TextInv /\ OwnerInv /\ LoadInv
  BY DEF KeysInit, OwnInv, TextInv, OwnerInv, LoadInv, Managed
<1>5. RequestType /\ ScanInv /\ AuthSound
  BY DEF KeysInit, NoRequest, RequestType, Requests, Answers, ScanInv, AuthSound
<1> QED
  BY <1>1, <1>2, <1>3, <1>4, <1>5 DEF IInv

(* Every step keeps every part of the invariant. *)
LEMMA IInvNext == IInv /\ [KeysNext]_vars => IInv'
  BY DataNext, PhaseNext, EvictNext, OwnNext, TextNext, OwnerNext, LoadNextInv, RequestNext,
     ScanNext, AuthNext DEF IInv

(* So the invariant holds always. *)
LEMMA IInvHolds == KeysSpec => []IInv
  BY IInvInit, IInvNext, PTL DEF KeysSpec

(* Between calls every file belongs to an entry, and every entry has its     *)
(* file.                                                                     *)
LEMMA IInvMatches == IInv => StoreMatchesCache
<1> SUFFICES ASSUME IInv, hub = "up", loaded, \A p \in Procs : proc[p].pc = "idle"
             PROVE  /\ Good(files) \ collided = {log[i].file : i \in Cached} \ collided
                    /\ \A i \in Cached : log[i].file \notin collided => files[log[i].file] = log[i].key
  BY DEF StoreMatchesCache
<1>1. todo = {} /\ Managed /\ Live = Cached
  BY DEF IInv, PhaseInv, Managed, Live, Cached, Shifting
<1>2. \A i \in Cached : log[i].key \in Keys
  BY <1>1, LiveType DEF IInv
<1>3. \A i \in Cached : log[i].file \notin collided => log[i].file \in DOMAIN files /\ files[log[i].file] = log[i].key
  BY <1>1 DEF IInv, TextInv
<1>4. \A t \in Good(files) \ collided : \E i \in Cached : log[i].file = t
  BY <1>1 DEF IInv, OwnerInv, Reading
<1> QED
  BY <1>2, <1>3, <1>4 DEF Good

(* After Load the slice holds the newest keys offered. *)
LEMMA IInvNewest == IInv => LoadKeepsNewest
<1> SUFFICES ASSUME IInv, hub = "up", loaded, fresh
             PROVE  /\ \A i, j \in Cached : i < j => log[i].file < log[j].file
                    /\ \A i \in Cached : log[i].file \in DOMAIN offered /\ log[i].key = offered[log[i].file]
                    /\ \A t \in DOMAIN offered : \/ \E i \in Cached : log[i].file = t
                                                 \/ /\ Cardinality(Cached) = MaxLength
                                                    /\ \A i \in Cached : t < log[i].file
                    /\ Good(files) = {log[i].file : i \in Cached}
  BY DEF LoadKeepsNewest
<1>1. collided = {} /\ (\A p \in Procs : proc[p].pc = "idle") /\ Main \in Procs
  BY DEF IInv, PhaseInv, Procs
<1>2. Good(files) = {log[i].file : i \in Cached}
  BY <1>1, IInvMatches DEF StoreMatchesCache
<1>3. Sorted /\ FromOffer /\ Accounted
  BY DEF IInv, LoadInv
<1>4. Live = Cached /\ Cardinality(Cached) = Len(log) - base /\ Len(log) \in Nat /\ base \in Nat /\ MaxLength \in Nat
  BY <1>1, CachedSize, Bounds DEF IInv, DataInv, Live, Cached, Shifting
<1>5. ASSUME NEW t \in DOMAIN offered, t \notin Good(files)
      PROVE  Cardinality(Cached) = MaxLength /\ \A i \in Cached : t < log[i].file
  BY <1>1, <1>3, <1>4, <1>5 DEF Accounted, Evicted
<1> QED
  BY <1>2, <1>3, <1>5 DEF Sorted, FromOffer

(* The types are a part of it. *)
LEMMA IInvType == IInv => KeysTypeOK
<1> SUFFICES ASSUME IInv PROVE KeysTypeOK
  OBVIOUS
<1>1. Cardinality(Cached) <= MaxLength
  <2>1. Cardinality(Cached) = Len(log) - base /\ Len(log) \in Nat /\ base \in Nat /\ MaxLength \in Nat
    BY CachedSize, Bounds DEF IInv, DataInv
  <2> QED
    BY <2>1 DEF IInv, EvictInv
<1>2. Cardinality({p \in Procs : Evicting(p)}) <= 1
  <2>1. CASE {p \in Procs : Evicting(p)} = {}
    BY <2>1, FS_EmptySet
  <2>2. CASE {p \in Procs : Evicting(p)} # {}
    <3>1. PICK p \in Procs : Evicting(p)
      BY <2>2
    <3>2. {q \in Procs : Evicting(q)} = {p}
      BY <3>1 DEF IInv, EvictInv
    <3> QED
      BY <3>2, FS_Singleton
  <2> QED
    BY <2>1, <2>2
<1>3. \A p \in Procs : proc[p].pc \in Phases
  BY DEF IInv, DataInv, ProcType
<1>4. request.pc \in Answers
  BY DEF IInv, RequestType, Requests
<1> QED
  BY <1>1, <1>2, <1>3, <1>4 DEF IInv, DataInv, KeysTypeOK, Texts, Phases, Answers

(* The state is well typed: the cache never holds more than MaxLength keys   *)
(* and at most one AddKey (keymanager.go:48-62) evicts at a time.            *)
THEOREM KeysTypeCorrect == KeysSpec => []KeysTypeOK
  BY IInvHolds, IInvType, PTL

(* The load at boot (hub.go) leaves the newest MaxLength good files, sorted, *)
(* in the cache and on the disk, for any directory and any cache size.       *)
THEOREM LoadCorrect == KeysSpec => []LoadKeepsNewest
  BY IInvHolds, IInvNewest, PTL

(* Between calls the directory holds exactly the cached keys: os.Remove of   *)
(* keymanager.go:52 never takes the file of another entry, however many      *)
(* AddNewPublicKey calls are under way.                                      *)
THEOREM StoreFollowsCache == KeysSpec => []StoreMatchesCache
  BY IInvHolds, IInvMatches, PTL

(* GetKeyList (keymanager.go:64-71) without the lock: what it accepts was    *)
(* cached, and it overlooks at most one cached key for each eviction that    *)
(* the request overlapped.                                                   *)
THEOREM TokensSound == KeysSpec => []AuthSound
<1>1. IInv => AuthSound
  BY DEF IInv
<1> QED
  BY <1>1, IInvHolds, PTL
=============================================================================
