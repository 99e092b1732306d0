----------------------------- MODULE KeyManager -----------------------------
(***************************************************************************)
(* The public keys that the hub checks tokens with: the cache of           *)
(* keymanager.go, the directory of key files behind it, its load at boot   *)
(* (hub.go), the AddNewPublicKey call (handle_method_calls.go) and the     *)
(* token check of every request (middlewares.go).                          *)
(*                                                                         *)
(* A file is named after a second.  It holds a key, or a text that does    *)
(* not parse.  The slice km.keys is a window on the sequence of all        *)
(* entries of this life of the process: AddKey appends to it and, at the   *)
(* limit, first moves its start.  These are two assignments under a lock   *)
(* that GetKeyList does not take.                                          *)
(***************************************************************************)
EXTENDS Naturals, Sequences, FiniteSets

CONSTANTS
    Keys,           \* public keys
    MaxLength,      \* KEY_MANAGER_CACHE_SIZE
    Blobs,          \* what the blob storage may answer: seconds -> keys
    Adders,         \* AddNewPublicKey calls that may run at a time
    MaxTime,        \* bound: seconds
    MaxAdds,        \* bound: AddNewPublicKey calls
    MaxFaults       \* bound: crashes and failed writes

Times == 0..MaxTime
Empty == "empty"    \* a file just created
Bad == "bad"        \* a text that is no key
Main == "main"      \* the goroutine that boots the hub
Procs == Adders \cup {Main}

ASSUME KeysAssumption ==
    /\ MaxLength \in Nat \ {0}
    /\ \A b \in Blobs : DOMAIN b \subseteq Times /\ \A t \in DOMAIN b : b[t] \in Keys
    /\ Keys \cap {Empty, Bad} = {} /\ Main \notin Adders
    /\ MaxTime \in Nat /\ MaxAdds \in Nat /\ MaxFaults \in Nat

VARIABLES
    files,      \* PubkeysDir: second -> key, Empty or Bad
    clock,      \* time.Now().Unix()
    hub,        \* "down", "store", "load" or "up"
    todo,       \* main: blob keys to store, then files to add
    log,        \* the entries added in this life of the process
    base,       \* the slice km.keys starts after this entry
    proc,       \* what main and the AddNewPublicKey calls are doing
    request,    \* a request that is being checked
    loaded,     \* the keys were loaded at boot, which needs the blob storage
    adds, faults,   \* how many there were so far
    offered,    \* history: the good files when they were listed at boot
    fresh,      \* history: no key was added since the load
    collided    \* history: files that a second call opened in their second

diskVars == <<files, clock>>
cacheVars == <<log, base>>
bootVars == <<hub, todo, loaded, offered>>
countVars == <<adds, faults>>
vars == <<diskVars, cacheVars, bootVars, countVars, proc, request, fresh, collided>>

Put(f, k, v) == [x \in DOMAIN f \cup {k} |-> IF x = k THEN v ELSE f[x]]
Drop(f, k) == [x \in DOMAIN f \ {k} |-> f[x]]
NoFiles == [t \in {} |-> Bad]
Good(fs) == {t \in DOMAIN fs : fs[t] \in Keys}

Free == [pc |-> "idle", file |-> 0, key |-> Bad]
NoRequest == [pc |-> "idle", token |-> Bad, list |-> <<>>, always |-> {}, ever |-> {},
              windows |-> 0]

Cached == base + 1..Len(log)
Evicting(p) == proc[p].pc \in {"shift", "append"}
Locked == \E p \in Procs : Evicting(p)

Becomes(p, r) == proc' = [proc EXCEPT ![p] = r]
Goto(p, pc) == proc' = [proc EXCEPT ![p].pc = pc]
Done(p) == Becomes(p, Free)

-----------------------------------------------------------------------------
(* MakeKeyManager in a process that has just started. *)
KeysInit ==
    /\ files = NoFiles /\ clock = 0
    /\ hub = "down" /\ todo = {} /\ loaded = FALSE
    /\ log = <<>> /\ base = 0
    /\ proc = [p \in Procs |-> Free]
    /\ request = NoRequest
    /\ adds = 0 /\ faults = 0
    /\ offered = NoFiles /\ fresh = FALSE /\ collided = {}

KeysTypeOK ==
    /\ DOMAIN files \subseteq Times /\ files \in [DOMAIN files -> Keys \cup {Empty, Bad}]
    /\ log \in Seq([file : Times, key : Keys])
    /\ base \in 0..Len(log) /\ Cardinality(Cached) <= MaxLength
    /\ \A p \in Procs : proc[p].pc \in {"idle", "create", "write", "read", "lock", "shift", "append"}
    /\ Cardinality({p \in Procs : Evicting(p)}) <= 1
    /\ request.pc \in {"idle", "scan", "ok", "unauthorized", "panic"}
    /\ collided \subseteq Times /\ DOMAIN offered \subseteq Times
    /\ adds \in 0..MaxAdds /\ faults \in 0..MaxFaults

Tick ==
    /\ clock < MaxTime
    /\ clock' = clock + 1
    /\ UNCHANGED <<files, cacheVars, bootVars, countVars, proc, request, fresh, collided>>

Crash ==
    /\ faults < MaxFaults /\ hub # "down"
    /\ faults' = faults + 1
    /\ hub' = "down" /\ todo' = {} /\ loaded' = FALSE /\ fresh' = FALSE
    /\ log' = <<>> /\ base' = 0
    /\ proc' = [p \in Procs |-> Free]
    /\ request' = NoRequest
    /\ UNCHANGED <<diskVars, adds, offered, collided>>

-----------------------------------------------------------------------------
(* Boot.  Without an answer of the blob storage nothing is loaded. *)

FetchFails ==
    /\ hub = "down"
    /\ hub' = "up"
    /\ UNCHANGED <<diskVars, cacheVars, todo, loaded, offered, countVars, proc, request, fresh, collided>>

Fetch(blob) ==
    /\ hub = "down"
    /\ hub' = "store"
    /\ todo' = {[file |-> t, key |-> blob[t]] : t \in DOMAIN blob}
    /\ UNCHANGED <<diskVars, cacheVars, loaded, offered, countVars, proc, request, fresh, collided>>

StoreNext(e) ==
    /\ hub = "store" /\ proc[Main].pc = "idle"
    /\ e \in todo
    /\ todo' = todo \ {e}
    /\ Becomes(Main, [pc |-> "create", file |-> e.file, key |-> e.key])
    /\ UNCHANGED <<diskVars, cacheVars, hub, loaded, offered, countVars, request, fresh, collided>>

(* filepath.Walk over the directory. *)
ListKeys ==
    /\ hub = "store" /\ proc[Main].pc = "idle" /\ todo = {}
    /\ hub' = "load"
    /\ todo' = {[file |-> t, key |-> Bad] : t \in DOMAIN files}
    /\ offered' = [t \in Good(files) |-> files[t]]
    /\ collided' = {}
    /\ UNCHANGED <<diskVars, cacheVars, loaded, countVars, proc, request, fresh>>

(* Mutant: the names are not sorted. *)
LoadNextUnsorted(e) ==
    /\ hub = "load" /\ proc[Main].pc = "idle"
    /\ e \in todo
    /\ todo' = todo \ {e}
    /\ Becomes(Main, [pc |-> "read", file |-> e.file, key |-> Bad])
    /\ UNCHANGED <<diskVars, cacheVars, hub, loaded, offered, countVars, request, fresh, collided>>

(* The files in the order of their names. *)
LoadNext(e) ==
    /\ hub = "load" /\ proc[Main].pc = "idle"
    /\ e \in todo /\ \A d \in todo : e.file <= d.file
    /\ todo' = todo \ {e}
    /\ Becomes(Main, [pc |-> "read", file |-> e.file, key |-> Bad])
    /\ UNCHANGED <<diskVars, cacheVars, hub, loaded, offered, countVars, request, fresh, collided>>

LoadDone ==
    /\ hub = "load" /\ proc[Main].pc = "idle" /\ todo = {}
    /\ hub' = "up" /\ loaded' = TRUE /\ fresh' = TRUE
    /\ UNCHANGED <<diskVars, cacheVars, todo, offered, countVars, proc, request, collided>>

-----------------------------------------------------------------------------
(* AddNewPublicKey, and the files that main stores. *)

(* The file's name is the second of the call. *)
AddNewPublicKey(p, k) ==
    /\ hub = "up" /\ proc[p].pc = "idle"
    /\ adds < MaxAdds
    /\ adds' = adds + 1
    /\ Becomes(p, [pc |-> "create", file |-> clock, key |-> k])
    /\ fresh' = FALSE
    /\ UNCHANGED <<diskVars, cacheVars, bootVars, faults, request, collided>>

(* OpenFile without O_TRUNC or O_EXCL. *)
Create(p) ==
    LET r == proc[p]
        old == r.file \in DOMAIN files
    IN  /\ r.pc = "create"
        /\ files' = IF old THEN files ELSE Put(files, r.file, Empty)
        /\ collided' = IF old THEN collided \cup {r.file} ELSE collided
        /\ Goto(p, "write")
        /\ UNCHANGED <<clock, cacheVars, bootVars, countVars, request, fresh>>

(* Over another text the new one may leave a tail, which may spoil it.  A    *)
(* file removed since it was opened stays removed.  Main only stores the     *)
(* file, a call goes on with AddKey.                                         *)
Write(p) ==
    LET r == proc[p]
        open == r.file \in DOMAIN files
    IN  /\ r.pc = "write"
        /\ \E text \in {r.key, Bad} :
              /\ text = Bad => open /\ files[r.file] \notin {Empty, r.key}
              /\ files' = IF open THEN Put(files, r.file, text) ELSE files
        /\ IF p = Main THEN Done(p) ELSE Goto(p, "read")
        /\ UNCHANGED <<clock, cacheVars, bootVars, countVars, request, fresh, collided>>

(* A full disk: part of the text is written, and the call answers with the   *)
(* error; main only logs it.                                                 *)
WriteFails(p) ==
    /\ proc[p].pc = "write"
    /\ faults < MaxFaults
    /\ faults' = faults + 1
    /\ files' = IF proc[p].file \in DOMAIN files THEN Put(files, proc[p].file, Bad) ELSE files
    /\ Done(p)
    /\ UNCHANGED <<clock, cacheVars, bootVars, adds, request, fresh, collided>>

-----------------------------------------------------------------------------
(* AddKey. *)

ReadKey(p) ==
    LET r == proc[p]
    IN  /\ r.pc = "read"
        /\ IF r.file \in Good(files)
           THEN Becomes(p, [pc |-> "lock", file |-> r.file, key |-> files[r.file]])
           ELSE Done(p)
        /\ UNCHANGED <<diskVars, cacheVars, bootVars, countVars, request, fresh, collided>>

Entry(p) == [file |-> proc[p].file, key |-> proc[p].key]

(* There is room. *)
Fill(p) ==
    /\ proc[p].pc = "lock" /\ ~Locked
    /\ Cardinality(Cached) < MaxLength
    /\ log' = Append(log, Entry(p))
    /\ request' = [request EXCEPT !.ever = @ \cup {Len(log) + 1}]
    /\ Done(p)
    /\ UNCHANGED <<diskVars, base, bootVars, countVars, fresh, collided>>

(* Mutant: only the cache forgets the oldest key. *)
EvictKeepsFile(p) ==
    /\ proc[p].pc = "lock" /\ ~Locked
    /\ Cardinality(Cached) = MaxLength
    /\ request' = [request EXCEPT !.windows = @ + 1]
    /\ Goto(p, "shift")
    /\ UNCHANGED <<diskVars, cacheVars, bootVars, countVars, fresh, collided>>

(* At the limit: os.Remove of the oldest entry's file. *)
Evict(p) ==
    /\ proc[p].pc = "lock" /\ ~Locked
    /\ Cardinality(Cached) = MaxLength
    /\ files' = Drop(files, log[base + 1].file)
    /\ request' = [request EXCEPT !.windows = IF request.pc = "scan" THEN @ + 1 ELSE @]
    /\ Goto(p, "shift")
    /\ UNCHANGED <<clock, cacheVars, bootVars, countVars, fresh, collided>>

(* Mutant: the slice is not moved on. *)
ShiftNot(p) ==
    /\ proc[p].pc = "shift"
    /\ Goto(p, "append")
    /\ UNCHANGED <<diskVars, cacheVars, bootVars, countVars, request, fresh, collided>>

(* km.keys = km.keys[1:] *)
Shift(p) ==
    /\ proc[p].pc = "shift"
    /\ base' = base + 1
    /\ request' = [request EXCEPT !.always = @ \ {base + 1}]
    /\ Goto(p, "append")
    /\ UNCHANGED <<diskVars, log, bootVars, countVars, fresh, collided>>

(* km.keys = append(km.keys, ...) *)
AppendEntry(p) ==
    /\ proc[p].pc = "append"
    /\ log' = Append(log, Entry(p))
    /\ request' = [request EXCEPT !.ever = @ \cup {Len(log) + 1}]
    /\ Done(p)
    /\ UNCHANGED <<diskVars, base, bootVars, countVars, fresh, collided>>

-----------------------------------------------------------------------------
(* AuthRequiredMiddleware and verifyToken. *)

Junk == 0   \* what a torn slice header leads to: memory beyond the array

(* Mutant: the loop ends one key early. *)
CurrentLengthLessOne == IF Cached = {} THEN 0 ELSE Cardinality(Cached) - 1

(* currentLength, which never shrinks. *)
CurrentLength == IF Locked THEN MaxLength ELSE Cardinality(Cached)

(* The entry read last. *)
Seen == IF request.list = <<>> THEN 0 ELSE request.list[Len(request.list)]

(* The entries that km.keys[i] may be.  While a header is being assigned its *)
(* pointer and its length may be of different versions, but the old pointer  *)
(* is not read again once the new one was; beyond the length it seems to     *)
(* have, the access panics (a read of no entry here).                        *)
Reads(i) ==
    LET shifting == \E p \in Procs : proc[p].pc = "shift"
        appending == \E p \in Procs : proc[p].pc = "append"
        there == {e \in {base + i, base + 1 + i} : Seen < e /\ e <= Len(log)}
        beyond == IF i = MaxLength THEN {{Junk}, {}} ELSE {}
    IN  CASE shifting -> {{e} : e \in there} \cup beyond
          [] appending /\ i = MaxLength -> beyond
          [] OTHER -> {{base + i}}

BeginRequest(k) ==
    /\ hub = "up" /\ request.pc # "scan"
    /\ request' = [pc |-> "scan", token |-> k, list |-> <<>>, always |-> Cached, ever |-> Cached,
                   windows |-> IF Locked THEN 1 ELSE 0]
    /\ UNCHANGED <<diskVars, cacheVars, bootVars, countVars, proc, fresh, collided>>

(* One turn of the loop of GetKeyList. *)
GetKeyList ==
    LET i == Len(request.list) + 1
    IN  /\ request.pc = "scan"
        /\ i <= CurrentLength
        /\ \E entry \in Reads(i) :
             \/ entry = {} /\ request' = [request EXCEPT !.pc = "panic"]
             \/ \E e \in entry : request' = [request EXCEPT !.list = Append(@, e)]
        /\ UNCHANGED <<diskVars, cacheVars, bootVars, countVars, proc, fresh, collided>>

(* The keys are tried in turn; junk fails or panics. *)
Matches(j) == request.list[j] # Junk /\ log[request.list[j]].key = request.token

VerifyToken ==
    LET hit == {j \in 1..Len(request.list) : Matches(j)}
        junk == {j \in 1..Len(request.list) : request.list[j] = Junk}
    IN  /\ request.pc = "scan"
        /\ Len(request.list) >= CurrentLength
        /\ \/ /\ \E j \in hit : \A k \in junk : j < k
              /\ request' = [request EXCEPT !.pc = "ok"]
           \/ /\ \E k \in junk : \A j \in hit : k < j
              /\ request' = [request EXCEPT !.pc = "panic"]
           \/ /\ \A j \in hit : \E k \in junk : k < j
              /\ request' = [request EXCEPT !.pc = IF hit = {} THEN "unauthorized" ELSE "ok"]
        /\ UNCHANGED <<diskVars, cacheVars, bootVars, countVars, proc, fresh, collided>>

-----------------------------------------------------------------------------
AddKey(p) == ReadKey(p) \/ Fill(p) \/ Evict(p) \/ Shift(p) \/ AppendEntry(p)

KeysNext ==
    \/ Tick \/ Crash \/ FetchFails \/ ListKeys \/ LoadDone
    \/ \E blob \in Blobs : Fetch(blob)
    \/ \E e \in todo : StoreNext(e) \/ LoadNext(e)
    \/ \E p \in Adders, k \in Keys : AddNewPublicKey(p, k)
    \/ \E p \in Procs : Create(p) \/ Write(p) \/ WriteFails(p) \/ AddKey(p)
    \/ \E k \in Keys : BeginRequest(k)
    \/ GetKeyList \/ VerifyToken

KeysSpec == KeysInit /\ [][KeysNext]_vars

-----------------------------------------------------------------------------
(* The load at boot leaves the newest MaxLength of the good files in the     *)
(* cache, oldest first, and no other good file on the disk, although it adds *)
(* and evicts them one by one and may have been cut short by a crash before. *)
LoadKeepsNewest ==
    (hub = "up" /\ loaded /\ fresh) =>
        /\ \A i, j \in Cached : i < j => log[i].file < log[j].file
        /\ \A i \in Cached : log[i].file \in DOMAIN offered /\ log[i].key = offered[log[i].file]
        /\ \A t \in DOMAIN offered : \/ \E i \in Cached : log[i].file = t
                                     \/ /\ Cardinality(Cached) = MaxLength
                                        /\ \A i \in Cached : t < log[i].file
        /\ Good(files) = {log[i].file : i \in Cached}

(* Between calls the directory holds exactly the cached keys, so that the    *)
(* next boot finds what this life used: eviction by name (keymanager.go:52)  *)
(* hits the right file.  The exception is a file that two calls of the same  *)
(* second shared, until the next load.                                       *)
StoreMatchesCache ==
    (hub = "up" /\ loaded /\ \A p \in Procs : proc[p].pc = "idle") =>
        /\ Good(files) \ collided = {log[i].file : i \in Cached} \ collided
        /\ \A i \in Cached : log[i].file \notin collided => files[log[i].file] = log[i].key

(* GetKeyList reads without the lock (keymanager.go:64-71).  A token is      *)
(* accepted only for a key that was cached during the call; a request is     *)
(* answered by a panic, or a key that was cached all along is overlooked,    *)
(* only if an eviction overlapped it, and at most one entry is overlooked    *)
(* for each such eviction.                                                   *)
AuthSound ==
    /\ request.pc = "ok" => \E i \in request.ever : log[i].key = request.token
    /\ request.pc = "panic" => request.windows > 0
    /\ request.pc = "unauthorized" =>
         Cardinality({i \in request.always : log[i].key = request.token}) <= request.windows
=============================================================================
