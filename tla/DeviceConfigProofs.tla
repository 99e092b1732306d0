------------------------- MODULE DeviceConfigProofs -------------------------
(***************************************************************************)
(* Safety of the device detail file for every set of commands, every number *)
(* of assets and message size, and every pattern of failures and crashes.  *)
(***************************************************************************)
EXTENDS DeviceConfig, TLAPS

-----------------------------------------------------------------------------
(* The inductive invariant. *)

Writing == {"trunc", "write"}

(* Who runs in which phase of the process: main alone at boot, the asset map *)
(* and the commands once it is up, nobody while it is down.                  *)
ControlInv ==
    /\ hub \in {"exited", "down"} =>
         /\ pc[Main] = "off" /\ pc[AssetMap] = "off"
         /\ \A c \in Commands : pc[c] \in Resting
    /\ hub = "boot" =>
         /\ pc[Main] \in Saving \cup {"call"} /\ pc[AssetMap] = "off"
         /\ \A c \in Commands : pc[c] \in Resting
    /\ hub = "up" =>
         /\ pc[Main] = "off"
         /\ pc[AssetMap] \in Saving \cup {"check", "send", "sleep"}
         /\ \A c \in Commands : pc[c] \in Resting \cup Saving \cup {"start", "call", "set", "status"}

(* A round accounts for every asset: it was acknowledged or is still to be   *)
(* sent.                                                                     *)
RoundInv ==
    pc[AssetMap] = "send" => started \in 1..MaxHours /\ got + unsent = NumAssets

(* What is about to be written carries the device id too.                    *)
IdentityInv ==
    /\ IdentityKept
    /\ ~torn => \A a \in Actors : pc[a] \in Writing => buf[a].dev

(* While no save has failed or overlapped another one there is one writer,   *)
(* it writes what is in memory unless a later save is due, and behind its    *)
(* truncation the file is empty.                                             *)
SavedInv ==
    (hub \in {"boot", "up"} /\ ~unsaved) =>
        /\ \A a, b \in Actors : pc[a] \in Writing /\ pc[b] \in Writing => a = b
        /\ \A a \in Actors : pc[a] \in Writing =>
             /\ buf[a] = ini \/ \E b \in Actors : pc[b] = "buffer"
             /\ pc[a] = "write" => disk = Empty /\ parses
        /\ (\A a \in Actors : pc[a] \notin Saving) => disk = ini /\ parses

(* While no two calls have crossed, mstore filters by the keywords of the    *)
(* one command that has still to set them in memory.                         *)
FiltersInv ==
    (hub = "up" /\ ~doubt) =>
        /\ \A c, d \in Commands : pc[c] = "set" /\ pc[d] = "set" => c = d
        /\ \A c \in Commands : pc[c] = "set" => keywords = FiltersOf[c]
        /\ (\A c \in Commands : pc[c] # "set") => keywords = ini.filters

(* What is about to be written carries an earned timestamp too.              *)
TimestampInv ==
    /\ TimestampEarned
    /\ \A a \in Actors : buf[a].ts \in whole \cup {0}

IInv ==
    /\ ConfigTypeOK
    /\ ControlInv
    /\ RoundInv
    /\ IdentityInv
    /\ SavedInv
    /\ FiltersInv
    /\ TimestampInv

-----------------------------------------------------------------------------
(* Control. *)

(* Which goroutine may be in which phase. *)
LEMMA ControlStep ==
  ASSUME ConfigTypeOK, ControlInv, [ConfigNext]_configVars
  PROVE  ControlInv'
<1> USE ConfigAssumption DEF fileVars, assetVars, otherVars, ConfigTypeOK, ControlInv, Actors,
     Places, Saving, Resting
<1>1. CASE Restart
  BY <1>1 DEF Restart
<1>2. CASE Load
  BY <1>2 DEF Load
<1>3. CASE LoadFails
  BY <1>3 DEF LoadFails
<1>4. CASE Startup
  BY <1>4 DEF Startup, CallSetkeywords, Fails
<1>5. ASSUME NEW a \in Actors, WriteToBuffer(a) PROVE ControlInv'
  BY <1>5 DEF WriteToBuffer
<1>6. ASSUME NEW a \in Actors, Truncate(a) PROVE ControlInv'
  BY <1>6 DEF Truncate
<1>7. ASSUME NEW a \in Actors, Write(a) PROVE ControlInv'
  BY <1>7 DEF Write, AfterSave
<1>8. ASSUME NEW a \in Actors, SaveFails(a) PROVE ControlInv'
  BY <1>8 DEF SaveFails, AfterSave, Fails
<1>9. ASSUME NEW c \in Commands, SavePanics(c) PROVE ControlInv'
  BY <1>9 DEF SavePanics, Die, Fails
<1>10. ASSUME NEW c \in Commands, ReceiveCommand(c) PROVE ControlInv'
  BY <1>10 DEF ReceiveCommand
<1>11. ASSUME NEW c \in Commands, Validate(c) PROVE ControlInv'
  BY <1>11 DEF Validate
<1>12. ASSUME NEW c \in Commands, SetFilters(c) PROVE ControlInv'
  BY <1>12 DEF SetFilters, CallSetkeywords, Fails
<1>13. ASSUME NEW c \in Commands, SetValue(c) PROVE ControlInv'
  BY <1>13 DEF SetValue
<1>14. ASSUME NEW c \in Commands, AddCommandStatus(c) PROVE ControlInv'
  BY <1>14 DEF AddCommandStatus, Fails
<1>15. CASE Wake
  BY <1>15 DEF Wake
<1>16. CASE CheckElapsed
  BY <1>16 DEF CheckElapsed
<1>17. CASE SendAssetmap
  BY <1>17 DEF SendAssetmap, NextBatch, Fails
<1>18. CASE SetTimestamp
  BY <1>18 DEF SetTimestamp
<1>19. CASE Hour
  BY <1>19 DEF Hour
<1>20. CASE Crash
  BY <1>20 DEF Crash, Die
<1>21. CASE UNCHANGED configVars
  BY <1>21 DEF configVars
<1> QED
  BY <1>1, <1>2, <1>3, <1>4, <1>5, <1>6, <1>7, <1>8, <1>9, <1>10, <1>11, <1>12,
     <1>13, <1>14, <1>15, <1>16, <1>17, <1>18, <1>19, <1>20, <1>21
  DEF ConfigNext, Boot, HandleAssetMapRequest, HandleFilterUpdate, SaveTo, Actors

(* A round keeps account of every asset. *)
LEMMA RoundStep ==
  ASSUME ConfigTypeOK, RoundInv, [ConfigNext]_configVars
  PROVE  RoundInv'
<1> USE ConfigAssumption DEF fileVars, assetVars, otherVars, ConfigTypeOK, RoundInv, Actors,
     Places, Saving, Resting
<1>1. CASE Restart
  BY <1>1 DEF Restart
<1>2. CASE Load
  BY <1>2 DEF Load
<1>3. CASE LoadFails
  BY <1>3 DEF LoadFails
<1>4. CASE Startup
  BY <1>4 DEF Startup, CallSetkeywords, Fails
<1>5. ASSUME NEW a \in Actors, WriteToBuffer(a) PROVE RoundInv'
  BY <1>5 DEF WriteToBuffer
<1>6. ASSUME NEW a \in Actors, Truncate(a) PROVE RoundInv'
  BY <1>6 DEF Truncate
<1>7. ASSUME NEW a \in Actors, Write(a) PROVE RoundInv'
  BY <1>7 DEF Write, AfterSave
<1>8. ASSUME NEW a \in Actors, SaveFails(a) PROVE RoundInv'
  BY <1>8 DEF SaveFails, AfterSave, Fails
<1>9. ASSUME NEW c \in Commands, SavePanics(c) PROVE RoundInv'
  BY <1>9 DEF SavePanics, Die, Fails
<1>10. ASSUME NEW c \in Commands, ReceiveCommand(c) PROVE RoundInv'
  BY <1>10 DEF ReceiveCommand
<1>11. ASSUME NEW c \in Commands, Validate(c) PROVE RoundInv'
  BY <1>11 DEF Validate
<1>12. ASSUME NEW c \in Commands, SetFilters(c) PROVE RoundInv'
  BY <1>12 DEF SetFilters, CallSetkeywords, Fails
<1>13. ASSUME NEW c \in Commands, SetValue(c) PROVE RoundInv'
  BY <1>13 DEF SetValue
<1>14. ASSUME NEW c \in Commands, AddCommandStatus(c) PROVE RoundInv'
  BY <1>14 DEF AddCommandStatus, Fails
<1>15. CASE Wake
  BY <1>15 DEF Wake
<1>16. CASE CheckElapsed
  BY <1>16 DEF CheckElapsed
<1>17. CASE SendAssetmap
  BY <1>17 DEF SendAssetmap, NextBatch, Fails
<1>18. CASE SetTimestamp
  BY <1>18 DEF SetTimestamp
<1>19. CASE Hour
  BY <1>19 DEF Hour
<1>20. CASE Crash
  BY <1>20 DEF Crash, Die
<1>21. CASE UNCHANGED configVars
  BY <1>21 DEF configVars
<1> QED
  BY <1>1, <1>2, <1>3, <1>4, <1>5, <1>6, <1>7, <1>8, <1>9, <1>10, <1>11, <1>12,
     <1>13, <1>14, <1>15, <1>16, <1>17, <1>18, <1>19, <1>20, <1>21
  DEF ConfigNext, Boot, HandleAssetMapRequest, HandleFilterUpdate, SaveTo, Actors

(* Types.  A timestamp is positive because it was taken from the clock. *)
LEMMA ConfigTypeStep ==
  ASSUME ConfigTypeOK, RoundInv, [ConfigNext]_configVars
  PROVE  ConfigTypeOK'
<1> USE ConfigAssumption DEF fileVars, assetVars, otherVars, ConfigTypeOK, Ini, Empty, Actors,
     Places, Saving, Resting, Keywords
<1>1. CASE Restart
  BY <1>1 DEF Restart
<1>2. CASE Load
  BY <1>2 DEF Load
<1>3. CASE LoadFails
  BY <1>3 DEF LoadFails
<1>4. CASE Startup
  BY <1>4 DEF Startup, CallSetkeywords, Fails
<1>5. ASSUME NEW a \in Actors, WriteToBuffer(a) PROVE ConfigTypeOK'
  BY <1>5 DEF WriteToBuffer
<1>6. ASSUME NEW a \in Actors, Truncate(a) PROVE ConfigTypeOK'
  BY <1>6 DEF Truncate
<1>7. ASSUME NEW a \in Actors, Write(a) PROVE ConfigTypeOK'
  <2>1. AfterSave(a) \in Places
    BY DEF AfterSave
  <2>2. parses' \in BOOLEAN
    <3>1. CASE disk = Empty \/ (disk = buf[a] /\ parses)
      BY <1>7, <3>1, Zenon DEF Write
    <3>2. CASE ~(disk = Empty \/ (disk = buf[a] /\ parses))
      BY <1>7, <3>2, Zenon DEF Write
    <3> QED
      BY <3>1, <3>2
  <2>3. disk' \in Ini /\ buf' \in [Actors -> Ini] /\ pc' \in [Actors -> Places]
    BY <1>7, <2>1 DEF Write
  <2> QED
    BY <1>7, <2>2, <2>3 DEF Write
<1>8. ASSUME NEW a \in Actors, SaveFails(a) PROVE ConfigTypeOK'
  BY <1>8 DEF SaveFails, AfterSave, Fails
<1>9. ASSUME NEW c \in Commands, SavePanics(c) PROVE ConfigTypeOK'
  BY <1>9 DEF SavePanics, Die, Fails
<1>10. ASSUME NEW c \in Commands, ReceiveCommand(c) PROVE ConfigTypeOK'
  BY <1>10 DEF ReceiveCommand
<1>11. ASSUME NEW c \in Commands, Validate(c) PROVE ConfigTypeOK'
  BY <1>11 DEF Validate
<1>12. ASSUME NEW c \in Commands, SetFilters(c) PROVE ConfigTypeOK'
  BY <1>12 DEF SetFilters, CallSetkeywords, Fails
<1>13. ASSUME NEW c \in Commands, SetValue(c) PROVE ConfigTypeOK'
  BY <1>13 DEF SetValue
<1>14. ASSUME NEW c \in Commands, AddCommandStatus(c) PROVE ConfigTypeOK'
  BY <1>14 DEF AddCommandStatus, Fails
<1>15. CASE Wake
  BY <1>15 DEF Wake
<1>16. CASE CheckElapsed
  BY <1>16 DEF CheckElapsed
<1>17. CASE SendAssetmap
  <2>1. NextBatch \in 0..unsent
    BY DEF NextBatch
  <2>2. got + unsent = NumAssets
    BY <1>17 DEF SendAssetmap, RoundInv
  <2>3. got' \in 0..NumAssets /\ unsent' \in 0..NumAssets
    BY <1>17, <2>1, <2>2 DEF SendAssetmap
  <2>4. pc' \in [Actors -> Places] /\ started' \in 0..MaxHours /\ failures' \in 0..MaxFailures
    BY <1>17 DEF SendAssetmap, Fails
  <2> QED
    BY <1>17, <2>3, <2>4 DEF SendAssetmap
<1>18. CASE SetTimestamp
  <2>1. started \in 1..MaxHours
    BY <1>18 DEF SetTimestamp, RoundInv
  <2>2. ini' \in Ini
    BY <1>18 DEF SetTimestamp
  <2>3. whole' \in SUBSET (1..MaxHours)
    BY <1>18, <2>1 DEF SetTimestamp
  <2> QED
    BY <1>18, <2>2, <2>3 DEF SetTimestamp
<1>19. CASE Hour
  BY <1>19 DEF Hour
<1>20. CASE Crash
  BY <1>20 DEF Crash, Die
<1>21. CASE UNCHANGED configVars
  BY <1>21 DEF configVars
<1> QED
  BY <1>1, <1>2, <1>3, <1>4, <1>5, <1>6, <1>7, <1>8, <1>9, <1>10, <1>11, <1>12,
     <1>13, <1>14, <1>15, <1>16, <1>17, <1>18, <1>19, <1>20, <1>21
  DEF ConfigNext, Boot, HandleAssetMapRequest, HandleFilterUpdate, SaveTo, Actors

(* The device id. *)
LEMMA IdentityStep ==
  ASSUME ConfigTypeOK, ControlInv, IdentityInv, [ConfigNext]_configVars
  PROVE  IdentityInv'
<1> USE ConfigAssumption DEF fileVars, assetVars, otherVars, ConfigTypeOK, ControlInv,
     IdentityInv, IdentityKept, Ini, Empty, Actors, Saving, Resting, Writing
<1>1. CASE Restart
  BY <1>1 DEF Restart
<1>2. CASE Load
  BY <1>2 DEF Load
<1>3. CASE LoadFails
  BY <1>3 DEF LoadFails
<1>4. CASE Startup
  BY <1>4 DEF Startup, CallSetkeywords, Fails
<1>5. ASSUME NEW a \in Actors, WriteToBuffer(a) PROVE IdentityInv'
  BY <1>5 DEF WriteToBuffer
<1>6. ASSUME NEW a \in Actors, Truncate(a) PROVE IdentityInv'
  BY <1>6 DEF Truncate
<1>7. ASSUME NEW a \in Actors, Write(a) PROVE IdentityInv'
  BY <1>7 DEF Write, AfterSave
<1>8. ASSUME NEW a \in Actors, SaveFails(a) PROVE IdentityInv'
  BY <1>8 DEF SaveFails, AfterSave, Fails
<1>9. ASSUME NEW c \in Commands, SavePanics(c) PROVE IdentityInv'
  BY <1>9 DEF SavePanics, Die, Fails
<1>10. ASSUME NEW c \in Commands, ReceiveCommand(c) PROVE IdentityInv'
  BY <1>10 DEF ReceiveCommand
<1>11. ASSUME NEW c \in Commands, Validate(c) PROVE IdentityInv'
  BY <1>11 DEF Validate
<1>12. ASSUME NEW c \in Commands, SetFilters(c) PROVE IdentityInv'
  BY <1>12 DEF SetFilters, CallSetkeywords, Fails
<1>13. ASSUME NEW c \in Commands, SetValue(c) PROVE IdentityInv'
  BY <1>13 DEF SetValue
<1>14. ASSUME NEW c \in Commands, AddCommandStatus(c) PROVE IdentityInv'
  BY <1>14 DEF AddCommandStatus, Fails
<1>15. CASE Wake
  BY <1>15 DEF Wake
<1>16. CASE CheckElapsed
  BY <1>16 DEF CheckElapsed
<1>17. CASE SendAssetmap
  BY <1>17 DEF SendAssetmap, NextBatch, Fails
<1>18. CASE SetTimestamp
  BY <1>18 DEF SetTimestamp
<1>19. CASE Hour
  BY <1>19 DEF Hour
<1>20. CASE Crash
  BY <1>20 DEF Crash, Die
<1>21. CASE UNCHANGED configVars
  BY <1>21 DEF configVars
<1> QED
  BY <1>1, <1>2, <1>3, <1>4, <1>5, <1>6, <1>7, <1>8, <1>9, <1>10, <1>11, <1>12,
     <1>13, <1>14, <1>15, <1>16, <1>17, <1>18, <1>19, <1>20, <1>21
  DEF ConfigNext, Boot, HandleAssetMapRequest, HandleFilterUpdate, SaveTo, Actors

(* Saves. *)
LEMMA SavedStep ==
  ASSUME ConfigTypeOK, ControlInv, SavedInv, [ConfigNext]_configVars
  PROVE  SavedInv'
<1> USE ConfigAssumption DEF fileVars, assetVars, otherVars, ConfigTypeOK, ControlInv, SavedInv,
     Actors, Saving, Resting, Writing, Empty
<1>1. CASE Restart
  BY <1>1 DEF Restart
<1>2. CASE Load
  BY <1>2 DEF Load
<1>3. CASE LoadFails
  BY <1>3 DEF LoadFails
<1>4. CASE Startup
  BY <1>4 DEF Startup, CallSetkeywords, Fails
<1>5. ASSUME NEW a \in Actors, WriteToBuffer(a) PROVE SavedInv'
  BY <1>5 DEF WriteToBuffer
<1>6. ASSUME NEW a \in Actors, Truncate(a) PROVE SavedInv'
  BY <1>6 DEF Truncate
<1>7. ASSUME NEW a \in Actors, Write(a) PROVE SavedInv'
  BY <1>7 DEF Write, AfterSave
<1>8. ASSUME NEW a \in Actors, SaveFails(a) PROVE SavedInv'
  BY <1>8 DEF SaveFails, AfterSave, Fails
<1>9. ASSUME NEW c \in Commands, SavePanics(c) PROVE SavedInv'
  BY <1>9 DEF SavePanics, Die, Fails
<1>10. ASSUME NEW c \in Commands, ReceiveCommand(c) PROVE SavedInv'
  BY <1>10 DEF ReceiveCommand
<1>11. ASSUME NEW c \in Commands, Validate(c) PROVE SavedInv'
  BY <1>11 DEF Validate
<1>12. ASSUME NEW c \in Commands, SetFilters(c) PROVE SavedInv'
  BY <1>12 DEF SetFilters, CallSetkeywords, Fails
<1>13. ASSUME NEW c \in Commands, SetValue(c) PROVE SavedInv'
  BY <1>13 DEF SetValue
<1>14. ASSUME NEW c \in Commands, AddCommandStatus(c) PROVE SavedInv'
  BY <1>14 DEF AddCommandStatus, Fails
<1>15. CASE Wake
  BY <1>15 DEF Wake
<1>16. CASE CheckElapsed
  BY <1>16 DEF CheckElapsed
<1>17. CASE SendAssetmap
  BY <1>17 DEF SendAssetmap, NextBatch, Fails
<1>18. CASE SetTimestamp
  BY <1>18 DEF SetTimestamp
<1>19. CASE Hour
  BY <1>19 DEF Hour
<1>20. CASE Crash
  BY <1>20 DEF Crash, Die
<1>21. CASE UNCHANGED configVars
  BY <1>21 DEF configVars
<1> QED
  BY <1>1, <1>2, <1>3, <1>4, <1>5, <1>6, <1>7, <1>8, <1>9, <1>10, <1>11, <1>12,
     <1>13, <1>14, <1>15, <1>16, <1>17, <1>18, <1>19, <1>20, <1>21
  DEF ConfigNext, Boot, HandleAssetMapRequest, HandleFilterUpdate, SaveTo, Actors

(* Filters. *)
LEMMA FiltersStep ==
  ASSUME ConfigTypeOK, ControlInv, FiltersInv, [ConfigNext]_configVars
  PROVE  FiltersInv'
<1> USE ConfigAssumption DEF fileVars, assetVars, otherVars, ConfigTypeOK, ControlInv, FiltersInv,
     Ini, Actors, Saving, Resting
<1>1. CASE Restart
  BY <1>1 DEF Restart
<1>2. CASE Load
  BY <1>2 DEF Load
<1>3. CASE LoadFails
  BY <1>3 DEF LoadFails
<1>4. CASE Startup
  BY <1>4 DEF Startup, CallSetkeywords, Fails
<1>5. ASSUME NEW a \in Actors, WriteToBuffer(a) PROVE FiltersInv'
  BY <1>5 DEF WriteToBuffer
<1>6. ASSUME NEW a \in Actors, Truncate(a) PROVE FiltersInv'
  BY <1>6 DEF Truncate
<1>7. ASSUME NEW a \in Actors, Write(a) PROVE FiltersInv'
  BY <1>7 DEF Write, AfterSave
<1>8. ASSUME NEW a \in Actors, SaveFails(a) PROVE FiltersInv'
  BY <1>8 DEF SaveFails, AfterSave, Fails
<1>9. ASSUME NEW c \in Commands, SavePanics(c) PROVE FiltersInv'
  BY <1>9 DEF SavePanics, Die, Fails
<1>10. ASSUME NEW c \in Commands, ReceiveCommand(c) PROVE FiltersInv'
  BY <1>10 DEF ReceiveCommand
<1>11. ASSUME NEW c \in Commands, Validate(c) PROVE FiltersInv'
  BY <1>11 DEF Validate
<1>12. ASSUME NEW c \in Commands, SetFilters(c) PROVE FiltersInv'
  BY <1>12 DEF SetFilters, CallSetkeywords, Fails
<1>13. ASSUME NEW c \in Commands, SetValue(c) PROVE FiltersInv'
  BY <1>13 DEF SetValue
<1>14. ASSUME NEW c \in Commands, AddCommandStatus(c) PROVE FiltersInv'
  BY <1>14 DEF AddCommandStatus, Fails
<1>15. CASE Wake
  BY <1>15 DEF Wake
<1>16. CASE CheckElapsed
  BY <1>16 DEF CheckElapsed
<1>17. CASE SendAssetmap
  BY <1>17 DEF SendAssetmap, NextBatch, Fails
<1>18. CASE SetTimestamp
  BY <1>18 DEF SetTimestamp
<1>19. CASE Hour
  BY <1>19 DEF Hour
<1>20. CASE Crash
  BY <1>20 DEF Crash, Die
<1>21. CASE UNCHANGED configVars
  BY <1>21 DEF configVars
<1> QED
  BY <1>1, <1>2, <1>3, <1>4, <1>5, <1>6, <1>7, <1>8, <1>9, <1>10, <1>11, <1>12,
     <1>13, <1>14, <1>15, <1>16, <1>17, <1>18, <1>19, <1>20, <1>21
  DEF ConfigNext, Boot, HandleAssetMapRequest, HandleFilterUpdate, SaveTo, Actors

(* Timestamps. *)
LEMMA TimestampStep ==
  ASSUME ConfigTypeOK, RoundInv, TimestampInv, [ConfigNext]_configVars
  PROVE  TimestampInv'
<1> USE ConfigAssumption DEF fileVars, assetVars, otherVars, ConfigTypeOK, RoundInv, TimestampInv,
     TimestampEarned, Ini, Empty, Actors
<1>1. CASE Restart
  BY <1>1 DEF Restart
<1>2. CASE Load
  BY <1>2 DEF Load
<1>3. CASE LoadFails
  BY <1>3 DEF LoadFails
<1>4. CASE Startup
  BY <1>4 DEF Startup, CallSetkeywords, Fails
<1>5. ASSUME NEW a \in Actors, WriteToBuffer(a) PROVE TimestampInv'
  BY <1>5 DEF WriteToBuffer
<1>6. ASSUME NEW a \in Actors, Truncate(a) PROVE TimestampInv'
  BY <1>6 DEF Truncate
<1>7. ASSUME NEW a \in Actors, Write(a) PROVE TimestampInv'
  BY <1>7 DEF Write, AfterSave
<1>8. ASSUME NEW a \in Actors, SaveFails(a) PROVE TimestampInv'
  BY <1>8 DEF SaveFails, AfterSave, Fails
<1>9. ASSUME NEW c \in Commands, SavePanics(c) PROVE TimestampInv'
  BY <1>9 DEF SavePanics, Die, Fails
<1>10. ASSUME NEW c \in Commands, ReceiveCommand(c) PROVE TimestampInv'
  BY <1>10 DEF ReceiveCommand
<1>11. ASSUME NEW c \in Commands, Validate(c) PROVE TimestampInv'
  BY <1>11 DEF Validate
<1>12. ASSUME NEW c \in Commands, SetFilters(c) PROVE TimestampInv'
  BY <1>12 DEF SetFilters, CallSetkeywords, Fails
<1>13. ASSUME NEW c \in Commands, SetValue(c) PROVE TimestampInv'
  BY <1>13 DEF SetValue
<1>14. ASSUME NEW c \in Commands, AddCommandStatus(c) PROVE TimestampInv'
  BY <1>14 DEF AddCommandStatus, Fails
<1>15. CASE Wake
  BY <1>15 DEF Wake
<1>16. CASE CheckElapsed
  BY <1>16 DEF CheckElapsed
<1>17. CASE SendAssetmap
  BY <1>17 DEF SendAssetmap, NextBatch, Fails
<1>18. CASE SetTimestamp
  BY <1>18 DEF SetTimestamp
<1>19. CASE Hour
  BY <1>19 DEF Hour
<1>20. CASE Crash
  BY <1>20 DEF Crash, Die
<1>21. CASE UNCHANGED configVars
  BY <1>21 DEF configVars
<1> QED
  BY <1>1, <1>2, <1>3, <1>4, <1>5, <1>6, <1>7, <1>8, <1>9, <1>10, <1>11, <1>12,
     <1>13, <1>14, <1>15, <1>16, <1>17, <1>18, <1>19, <1>20, <1>21
  DEF ConfigNext, Boot, HandleAssetMapRequest, HandleFilterUpdate, SaveTo, Actors

-----------------------------------------------------------------------------
(* The file as it is delivered. *)
LEMMA InitIInv == ConfigInit => IInv
<1> SUFFICES ASSUME ConfigInit PROVE IInv
  OBVIOUS
<1> USE ConfigAssumption DEF ConfigInit, Actors
<1>1. ConfigTypeOK
  <2>1. Empty \in Ini /\ [Empty EXCEPT !.dev = TRUE] \in Ini
    <3>1. 0 \in 0..MaxHours
      OBVIOUS
    <3> QED
      BY <3>1 DEF Ini, Empty
  <2>2. pc \in [Actors -> Places]
    BY DEF Places, Resting
  <2>3. parses \in BOOLEAN /\ unsaved \in BOOLEAN /\ doubt \in BOOLEAN /\ torn \in BOOLEAN
    BY Zenon
  <2>4. disk \in Ini /\ ini \in Ini /\ buf \in [Actors -> Ini]
    BY <2>1
  <2>5. /\ now \in 1..MaxHours /\ started \in 0..MaxHours /\ unsent \in 0..NumAssets
        /\ got \in 0..NumAssets /\ failures \in 0..MaxFailures /\ crashes \in 0..MaxCrashes
    OBVIOUS
  <2> QED
    BY <2>2, <2>3, <2>4, <2>5 DEF ConfigTypeOK
<1>2. ControlInv /\ RoundInv
  BY DEF ControlInv, RoundInv, Resting
<1>3. IdentityInv /\ SavedInv /\ FiltersInv /\ TimestampInv
  BY DEF IdentityInv, IdentityKept, SavedInv, FiltersInv, TimestampInv, TimestampEarned, Writing,
       Empty
<1> QED
  BY <1>1, <1>2, <1>3 DEF IInv

(* Every step keeps every part of the invariant. *)
LEMMA IInvStep == IInv /\ [ConfigNext]_configVars => IInv'
  BY ConfigTypeStep, ControlStep, RoundStep, IdentityStep, SavedStep, FiltersStep,
     TimestampStep DEF IInv

(* So the invariant holds always. *)
LEMMA IInvInvariant == ConfigSpec => []IInv
  BY InitIInv, IInvStep, PTL DEF ConfigSpec

(* Every variable of the device file model keeps its type.                   *)
THEOREM ConfigTypeCorrect == ConfigSpec => []ConfigTypeOK
<1>1. IInv => ConfigTypeOK
  BY DEF IInv
<1> QED
  BY IInvInvariant, <1>1, PTL

(* However many commands save beside the asset map, the device id leaves the *)
(* file, or the memory of a running hub, only if a crash or a failed write   *)
(* fell between a truncation and its write.                                  *)
THEOREM IdentitySafe == ConfigSpec => []IdentityKept
<1>1. IInv => IdentityKept
  BY DEF IInv, IdentityInv
<1> QED
  BY IInvInvariant, <1>1, PTL

(* When nobody is saving, the file holds what is in memory and parses,       *)
(* unless a save failed or overlapped another since the last undisturbed one.*)
THEOREM SavesReachDisk == ConfigSpec => []IniSaved
<1>1. IInv => IniSaved
  BY DEF IInv, SavedInv, IniSaved, Quiet
<1> QED
  BY IInvInvariant, <1>1, PTL

(* mstore and device_cfg agree on the filters whenever no command is between *)
(* its call and its SetValue, unless two crossed or a call got no answer.    *)
THEOREM MstoreAgrees == ConfigSpec => []FiltersAgree
<1>1. IInv => FiltersAgree
  BY DEF IInv, FiltersInv, FiltersAgree
<1> QED
  BY IInvInvariant, <1>1, PTL

(* An asset map timestamp, in memory or in the file, stands for a round in   *)
(* which every asset was acknowledged, for every number of assets and every  *)
(* message size.                                                             *)
THEOREM TimestampsHonest == ConfigSpec => []TimestampEarned
<1>1. IInv => TimestampEarned
  BY DEF IInv, TimestampInv
<1> QED
  BY IInvInvariant, <1>1, PTL
=============================================================================
