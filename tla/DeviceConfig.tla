---------------------------- MODULE DeviceConfig ----------------------------
(***************************************************************************)
(* The device detail file and everyone who saves it.  One ini.File, the     *)
(* global device_cfg, is shared without a lock by main at boot (hub.go), by *)
(* a goroutine per FilterUpdate command (handle_commands.go) and by the     *)
(* asset map goroutine (api_handler.go, HandleAssetMapRequest).  Each sets  *)
(* a key in memory and calls SaveTo, which formats the whole file into a    *)
(* buffer, truncates the file and writes the buffer: three steps here.     *)
(*                                                                         *)
(* The file is abstracted to whether it still has the device id, to its     *)
(* FILTERS and to its ASSETMAP_TIMESTAMP, in hours (0: not there).          *)
(***************************************************************************)
EXTENDS Naturals

CONSTANTS
    Commands,     \* the ids of the FilterUpdate commands that may arrive
    FiltersOf,    \* the keywords each of them asks for
    NoFilters,    \* FILTERS is not in the file
    Invalid,      \* the value main stores when there is none
    Main,         \* main, as one who saves the file
    AssetMap,     \* the asset map goroutine
    NumAssets,    \* the number of contents on the device
    MessageSize,  \* ASSETMAP_MESSAGE_SIZE
    Faults,       \* which calls may fail, see AllFaults
    MaxHours,     \* bound: the clock
    MaxFailures,  \* bound: failed calls
    MaxCrashes    \* bound: crashes of the hub process

(* setkeywords fails ("call") or is applied and its answer lost ("unsure");  *)
(* the file cannot be written ("write"), the status transaction fails ("tx"),*)
(* a message of the asset map is not acknowledged ("send").                  *)
AllFaults == {"call", "unsure", "write", "tx", "send"}

Keywords == {FiltersOf[c] : c \in Commands} \cup {Invalid}

ASSUME ConfigAssumption ==
    /\ NoFilters \notin Keywords
    /\ Main # AssetMap
    /\ Main \notin Commands /\ AssetMap \notin Commands
    /\ MessageSize \in Nat \ {0}
    /\ NumAssets \in Nat
    /\ Faults \subseteq AllFaults
    /\ MaxHours \in Nat \ {0} /\ MaxFailures \in Nat /\ MaxCrashes \in Nat

VARIABLES
    hub,       \* the hub process: "exited", "down", "boot" or "up"
    disk,      \* the device detail file
    parses,    \* whether ini.Load accepts it
    ini,       \* device_cfg
    keywords,  \* the keywords mstore filters by (external)
    pc,        \* where main, the asset map and each command goroutine is
    buf,       \* what each of them is about to write
    failed,    \* commands whose failedReason is set
    status,    \* the outcome stored for each command: "none", "ok" or "failed"
    now,       \* the clock, in hours
    started,   \* currentTimestamp of the asset map round
    unsent,    \* number of assets of this round not yet sent
    whole,     \* history: hours whose round was acknowledged asset by asset
    got,       \* history: number of assets acknowledged in this round
    unsaved,   \* history: a save failed or overlapped another one
    doubt,     \* history: a setkeywords call crossed another or got no answer
    torn,      \* history: the file was left truncated
    failures, crashes

fileVars == <<disk, parses, ini, buf, unsaved, torn>>
assetVars == <<started, unsent, whole, got>>
otherVars == <<hub, keywords, failed, status, now, doubt, failures, crashes>>
configVars == <<fileVars, assetVars, otherVars, pc>>

Actors == Commands \cup {Main, AssetMap}
Ini == [dev : BOOLEAN, filters : Keywords \cup {NoFilters}, ts : 0..MaxHours]
Empty == [dev |-> FALSE, filters |-> NoFilters, ts |-> 0]

Saving == {"buffer", "trunc", "write"}
Resting == {"none", "done", "rejected", "cut"}
Places == Saving \cup Resting \cup
          {"off", "start", "call", "set", "status", "check", "send", "sleep"}

ConfigTypeOK ==
    /\ hub \in {"exited", "down", "boot", "up"}
    /\ disk \in Ini
    /\ parses \in BOOLEAN
    /\ ini \in Ini
    /\ keywords \in Keywords \cup {NoFilters}
    /\ pc \in [Actors -> Places]
    /\ buf \in [Actors -> Ini]
    /\ failed \in SUBSET Commands
    /\ status \in [Commands -> {"none", "ok", "failed"}]
    /\ now \in 1..MaxHours
    /\ started \in 0..MaxHours
    /\ unsent \in 0..NumAssets
    /\ whole \in SUBSET (1..MaxHours)
    /\ got \in 0..NumAssets
    /\ unsaved \in BOOLEAN
    /\ doubt \in BOOLEAN
    /\ torn \in BOOLEAN
    /\ failures \in 0..MaxFailures
    /\ crashes \in 0..MaxCrashes

(* The file as the device was provisioned with it: an id and nothing else.   *)
ConfigInit ==
    /\ hub = "down"
    /\ disk = [Empty EXCEPT !.dev = TRUE]
    /\ parses = TRUE
    /\ ini = Empty
    /\ keywords = NoFilters
    /\ pc = [a \in Actors |-> IF a \in Commands THEN "none" ELSE "off"]
    /\ buf = [a \in Actors |-> Empty]
    /\ failed = {}
    /\ status = [c \in Commands |-> "none"]
    /\ now = 1
    /\ started = 0
    /\ unsent = 0
    /\ whole = {}
    /\ got = 0
    /\ unsaved = FALSE
    /\ doubt = TRUE
    /\ torn = FALSE
    /\ failures = 0
    /\ crashes = 0

Fails(f) ==
    /\ f \in Faults
    /\ failures < MaxFailures
    /\ failures' = failures + 1

-----------------------------------------------------------------------------
(* The end of the process, and its restart by the edge runtime. *)

(* The goroutines are gone; a command among them is never heard of again.    *)
Die ==
    /\ hub' = "exited"
    /\ ini' = Empty
    /\ pc' = [a \in Actors |-> IF a \notin Commands THEN "off"
                               ELSE IF pc[a] \in Resting THEN pc[a] ELSE "cut"]
    /\ buf' = [a \in Actors |-> Empty]
    /\ failed' = {}
    /\ started' = 0
    /\ unsent' = 0
    /\ got' = 0
    /\ torn' = (torn \/ \E a \in Actors : pc[a] = "write")

Crash ==
    /\ hub \in {"boot", "up"}
    /\ crashes < MaxCrashes
    /\ crashes' = crashes + 1
    /\ Die
    /\ UNCHANGED <<disk, parses, unsaved, keywords, status, now, whole, doubt, failures>>

Restart ==
    /\ hub = "exited"
    /\ hub' = "down"
    /\ UNCHANGED <<fileVars, assetVars, keywords, failed, status, now, doubt,
                   failures, crashes, pc>>

Hour ==
    /\ now < MaxHours
    /\ now' = now + 1
    /\ UNCHANGED <<fileVars, assetVars, hub, keywords, failed, status, doubt,
                   failures, crashes, pc>>

-----------------------------------------------------------------------------
(* SaveTo. *)

AfterSave(a) == IF a = Main THEN "call" ELSE IF a = AssetMap THEN "sleep" ELSE "status"

WriteToBuffer(a) ==
    /\ pc[a] = "buffer"
    /\ buf' = [buf EXCEPT ![a] = ini]
    /\ unsaved' = \E b \in Actors \ {a} : pc[b] \in {"trunc", "write"}
    /\ pc' = [pc EXCEPT ![a] = "trunc"]
    /\ UNCHANGED <<disk, parses, ini, torn, assetVars, otherVars>>

Truncate(a) ==
    /\ pc[a] = "trunc"
    /\ disk' = Empty
    /\ parses' = TRUE
    /\ pc' = [pc EXCEPT ![a] = "write"]
    /\ UNCHANGED <<ini, buf, unsaved, torn, assetVars, otherVars>>

(* Each writer has its own file offset.  If another one wrote since this one *)
(* truncated, the tail of the longer text may be left behind the shorter and *)
(* may not parse.                                                            *)
Write(a) ==
    /\ pc[a] = "write"
    /\ disk' = buf[a]
    /\ parses' \in IF disk = Empty \/ (disk = buf[a] /\ parses) THEN {TRUE} ELSE BOOLEAN
    /\ buf' = [buf EXCEPT ![a] = Empty]
    /\ pc' = [pc EXCEPT ![a] = AfterSave(a)]
    /\ UNCHANGED <<ini, unsaved, torn, assetVars, otherVars>>

(* The file cannot be opened or written: main and the asset map log it.      *)
SaveFails(a) ==
    /\ a \in {Main, AssetMap}
    /\ pc[a] \in {"trunc", "write"}
    /\ Fails("write")
    /\ pc' = [pc EXCEPT ![a] = AfterSave(a)]
    /\ buf' = [buf EXCEPT ![a] = Empty]
    /\ unsaved' = TRUE
    /\ torn' = (torn \/ pc[a] = "write")
    /\ UNCHANGED <<disk, parses, ini, assetVars, hub, keywords, failed, status,
                   now, doubt, crashes>>

(* A command goroutine asks the setkeywords error, which is nil here, for    *)
(* its text: the panic ends the process.                                     *)
SavePanics(c) ==
    /\ pc[c] \in {"trunc", "write"}
    /\ Fails("write")
    /\ Die
    /\ UNCHANGED <<disk, parses, unsaved, keywords, status, now, whole, doubt, crashes>>

SaveTo(a) == WriteToBuffer(a) \/ Truncate(a) \/ Write(a) \/ SaveFails(a)

-----------------------------------------------------------------------------
(* main. *)

(* Mutant: a file without FILTERS is replaced by a new one. *)
LoadFresh ==
    /\ hub = "down"
    /\ parses
    /\ hub' = "boot"
    /\ ini' = IF disk.filters = NoFilters THEN [Empty EXCEPT !.filters = Invalid] ELSE disk
    /\ pc' = [pc EXCEPT ![Main] = IF disk.filters = NoFilters THEN "buffer" ELSE "call"]
    /\ unsaved' = FALSE
    /\ UNCHANGED <<disk, parses, buf, torn, assetVars, keywords, failed, status, now,
                   doubt, failures, crashes>>

(* The file is loaded; without FILTERS they become "Invalid" and are saved.  *)
Load ==
    /\ hub = "down"
    /\ parses
    /\ hub' = "boot"
    /\ ini' = IF disk.filters = NoFilters THEN [disk EXCEPT !.filters = Invalid] ELSE disk
    /\ pc' = [pc EXCEPT ![Main] = IF disk.filters = NoFilters THEN "buffer" ELSE "call"]
    /\ unsaved' = FALSE
    /\ UNCHANGED <<disk, parses, buf, torn, assetVars, keywords, failed, status, now,
                   doubt, failures, crashes>>

LoadFails ==
    /\ hub = "down"
    /\ ~parses
    /\ hub' = "exited"
    /\ UNCHANGED <<fileVars, assetVars, keywords, failed, status, now, doubt, failures,
                   crashes, pc>>

(* callSetkeywords sends the keywords ks: what mstore and the caller see.    *)
CallSetkeywords(ks, applied, err) ==
    /\ keywords' = IF applied THEN ks ELSE keywords
    /\ \/ applied /\ ~err /\ UNCHANGED failures
       \/ applied /\ err /\ Fails("unsure")
       \/ ~applied /\ err /\ Fails("call")

(* The persisted filters are applied, an error is logged, and main starts    *)
(* the command server and the asset map.                                     *)
Startup ==
    /\ pc[Main] = "call"
    /\ \E applied, err \in BOOLEAN :
         /\ CallSetkeywords(ini.filters, applied, err)
         /\ doubt' = ~applied
    /\ hub' = "up"
    /\ pc' = [pc EXCEPT ![Main] = "off", ![AssetMap] = "check"]
    /\ UNCHANGED <<fileVars, assetVars, failed, status, now, crashes>>

-----------------------------------------------------------------------------
(* handleFilterUpdate, one goroutine per command. *)

(* ReceiveCommand starts the goroutine and answers the proxy with Code 1.    *)
ReceiveCommand(c) ==
    /\ hub = "up"
    /\ pc[c] = "none"
    /\ pc' = [pc EXCEPT ![c] = "start"]
    /\ UNCHANGED <<fileVars, assetVars, otherVars>>

(* The payload must name this device.                                        *)
Validate(c) ==
    /\ pc[c] = "start"
    /\ pc' = [pc EXCEPT ![c] = IF ini.dev THEN "call" ELSE "rejected"]
    /\ UNCHANGED <<fileVars, assetVars, otherVars>>

(* Mutant: an error of mstore is not told from a success. *)
SetFiltersIgnoresError(c) ==
    /\ pc[c] = "call"
    /\ \E applied, err \in BOOLEAN :
         /\ CallSetkeywords(FiltersOf[c], applied, err)
         /\ doubt' = IF applied THEN err \/ \E d \in Commands \ {c} : pc[d] = "set"
                     ELSE doubt
    /\ pc' = [pc EXCEPT ![c] = "set"]
    /\ UNCHANGED <<fileVars, assetVars, hub, failed, status, now, crashes>>

SetFilters(c) ==
    /\ pc[c] = "call"
    /\ \E applied, err \in BOOLEAN :
         /\ CallSetkeywords(FiltersOf[c], applied, err)
         /\ pc' = [pc EXCEPT ![c] = IF err THEN "status" ELSE "set"]
         /\ failed' = IF err THEN failed \cup {c} ELSE failed
         /\ doubt' = IF applied THEN err \/ \E d \in Commands \ {c} : pc[d] = "set"
                     ELSE doubt
    /\ UNCHANGED <<fileVars, assetVars, hub, status, now, crashes>>

(* Mutant: the filters are set in memory and not saved. *)
SetValueOnly(c) ==
    /\ pc[c] = "set"
    /\ ini' = [ini EXCEPT !.filters = FiltersOf[c]]
    /\ pc' = [pc EXCEPT ![c] = "status"]
    /\ UNCHANGED <<disk, parses, buf, unsaved, torn, assetVars, otherVars>>

SetValue(c) ==
    /\ pc[c] = "set"
    /\ ini' = [ini EXCEPT !.filters = FiltersOf[c]]
    /\ pc' = [pc EXCEPT ![c] = "buffer"]
    /\ UNCHANGED <<disk, parses, buf, unsaved, torn, assetVars, otherVars>>

(* Mutant: a failed command returns before its status is stored. *)
AddCommandStatusIfOk(c) ==
    /\ pc[c] = "status"
    /\ status' = IF c \in failed THEN status ELSE [status EXCEPT ![c] = "ok"]
    /\ pc' = [pc EXCEPT ![c] = "done"]
    /\ UNCHANGED <<fileVars, assetVars, hub, keywords, failed, now, doubt, failures, crashes>>

(* The outcome goes to the outbox; a failed transaction is not looked at.    *)
AddCommandStatus(c) ==
    /\ pc[c] = "status"
    /\ \/ /\ status' = [status EXCEPT ![c] = IF c \in failed THEN "failed" ELSE "ok"]
          /\ pc' = [pc EXCEPT ![c] = "done"]
          /\ UNCHANGED failures
       \/ /\ Fails("tx")
          /\ pc' = [pc EXCEPT ![c] = "cut"]
          /\ UNCHANGED status
    /\ UNCHANGED <<fileVars, assetVars, hub, keywords, failed, now, doubt, crashes>>

HandleFilterUpdate(c) ==
    \/ Validate(c)
    \/ SetFilters(c)
    \/ SetValue(c)
    \/ SaveTo(c)
    \/ SavePanics(c)
    \/ AddCommandStatus(c)

-----------------------------------------------------------------------------
(* HandleAssetMapRequest. *)

Wake ==
    /\ pc[AssetMap] = "sleep"
    /\ pc' = [pc EXCEPT ![AssetMap] = "check"]
    /\ UNCHANGED <<fileVars, assetVars, otherVars>>

(* Mutant: more than an hour has to have passed. *)
CheckElapsedStrict ==
    /\ pc[AssetMap] = "check"
    /\ IF now > ini.ts + 1
       THEN /\ pc' = [pc EXCEPT ![AssetMap] = "send"]
            /\ started' = now
            /\ unsent' = NumAssets
            /\ got' = 0
       ELSE /\ pc' = [pc EXCEPT ![AssetMap] = "sleep"]
            /\ UNCHANGED <<started, unsent, got>>
    /\ UNCHANGED <<fileVars, whole, otherVars>>

(* Due once an hour has passed since the last complete one.                  *)
CheckElapsed ==
    /\ pc[AssetMap] = "check"
    /\ IF now >= ini.ts + 1
       THEN /\ pc' = [pc EXCEPT ![AssetMap] = "send"]
            /\ started' = now
            /\ unsent' = NumAssets
            /\ got' = 0
       ELSE /\ pc' = [pc EXCEPT ![AssetMap] = "sleep"]
            /\ UNCHANGED <<started, unsent, got>>
    /\ UNCHANGED <<fileVars, whole, otherVars>>

(* How many assets the next message holds.                                   *)
NextBatch == IF unsent < MessageSize THEN unsent ELSE MessageSize

(* Mutant: after an error the next message is sent all the same. *)
SendAssetmapGoesOn ==
    /\ pc[AssetMap] = "send"
    /\ unsent # 0
    /\ \/ got' = got + NextBatch /\ UNCHANGED failures
       \/ Fails("send") /\ UNCHANGED got
    /\ unsent' = unsent - NextBatch
    /\ UNCHANGED <<fileVars, started, whole, hub, keywords, failed, status, now, doubt,
                   crashes, pc>>

(* One message of sendAssetmapInBatches; the first error ends the round.     *)
SendAssetmap ==
    /\ pc[AssetMap] = "send"
    /\ unsent # 0
    /\ \/ /\ got' = got + NextBatch
          /\ unsent' = unsent - NextBatch
          /\ UNCHANGED <<pc, started, failures>>
       \/ /\ Fails("send")
          /\ pc' = [pc EXCEPT ![AssetMap] = "sleep"]
          /\ started' = 0
          /\ unsent' = 0
          /\ got' = 0
    /\ UNCHANGED <<fileVars, whole, hub, keywords, failed, status, now, doubt, crashes>>

(* Mutant: the time of the next round is stored. *)
SetTimestampNext ==
    /\ pc[AssetMap] = "send"
    /\ unsent = 0
    /\ ini' = [ini EXCEPT !.ts = started + 1]
    /\ pc' = [pc EXCEPT ![AssetMap] = "buffer"]
    /\ UNCHANGED <<disk, parses, buf, unsaved, torn, assetVars, otherVars>>

(* The timestamp is the one taken before the round was sent.                 *)
SetTimestamp ==
    /\ pc[AssetMap] = "send"
    /\ unsent = 0
    /\ ini' = [ini EXCEPT !.ts = started]
    /\ whole' = IF got = NumAssets THEN whole \cup {started} ELSE whole
    /\ started' = 0
    /\ got' = 0
    /\ pc' = [pc EXCEPT ![AssetMap] = "buffer"]
    /\ UNCHANGED <<disk, parses, buf, unsaved, torn, unsent, otherVars>>

HandleAssetMapRequest ==
    \/ Wake
    \/ CheckElapsed
    \/ SendAssetmap
    \/ SetTimestamp
    \/ SaveTo(AssetMap)

-----------------------------------------------------------------------------
Boot == Restart \/ Load \/ LoadFails \/ SaveTo(Main) \/ Startup

ConfigNext ==
    \/ Boot
    \/ HandleAssetMapRequest
    \/ \E c \in Commands : ReceiveCommand(c)
    \/ \E c \in Commands : HandleFilterUpdate(c)
    \/ Hour
    \/ Crash

ConfigSpec == ConfigInit /\ [][ConfigNext]_configVars

(* The container is always restarted; goroutines are scheduled fairly.       *)
ConfigFairSpec ==
    /\ ConfigSpec
    /\ WF_configVars(Boot)
    /\ WF_configVars(HandleAssetMapRequest)
    /\ \A c \in Commands : WF_configVars(HandleFilterUpdate(c))

-----------------------------------------------------------------------------
(* Properties. *)

Quiet == hub = "up" /\ \A a \in Actors : pc[a] \notin Saving

(* The device id leaves the file, or the memory of a running hub, only if a  *)
(* crash or a failed write fell between SaveTo's truncation and its write:   *)
(* no interleaving of complete saves loses it.                               *)
IdentityKept ==
    ~torn => /\ hub \in {"boot", "up"} => ini.dev
             /\ disk.dev \/ \E a \in Actors : pc[a] = "write"

(* When nobody is saving, the file holds what is in memory, unless a save    *)
(* failed or overlapped another one since the last undisturbed save.         *)
IniSaved == Quiet /\ ~unsaved => disk = ini /\ parses

(* mstore filters by what device_cfg says, between a command's call and its  *)
(* SetValue excepted, unless two commands crossed or a call got no answer.   *)
FiltersAgree ==
    hub = "up" /\ ~doubt /\ (\A c \in Commands : pc[c] # "set")
        => keywords = ini.filters

(* An asset map timestamp, in memory or in the file, is that of a round in   *)
(* which every asset was acknowledged (api_handler.go, sendAssetmapInBatches *)
(* returns the first error and HandleAssetMapRequest then sets nothing).     *)
TimestampEarned == {ini.ts, disk.ts} \subseteq whole \cup {0}

(* A command that was acknowledged to the proxy gets its outcome stored,     *)
(* unless it is rejected or cut off by the end of the process.               *)
CommandAnswered ==
    \A c \in Commands :
        pc[c] = "start" ~> (status[c] # "none" \/ pc[c] \in {"rejected", "cut"})

(* Once failures and crashes stop, the asset map of the last hour is sent,   *)
(* as long as the file still parses so that the hub can boot.                *)
AssetMapCatchesUp == <>[](parses => ini.ts = now)

(* handle_commands.go:66 "if success- write in the ini file(persistence)":   *)
(* the filters of a command reported as successful are in the file.          *)
FiltersPersisted ==
    \A c \in Commands :
        /\ Quiet
        /\ status[c] = "ok"
        /\ \A d \in Commands \ {c} : pc[d] = "none"
        => disk.filters = FiltersOf[c]

(* handle_commands.go:67 "put the entry in the retry bucket in both the      *)
(* cases(success/fail)".                                                     *)
StatusInBothCases ==
    \A c \in Commands : pc[c] = "call" ~> status[c] # "none"
=============================================================================
