---------------------------- MODULE SensorSettings ----------------------------
(***************************************************************************)
(* The display calibration of the sensors: the hook that holds the drafts  *)
(* (settings/useSensorSettings.ts), the page that edits them, the REST     *)
(* calls (sensorSettingsApi.ts) and the store that persists them           *)
(* (backend/app/sensor_settings.py), with its crashes and write errors.    *)
(*                                                                         *)
(* A setting is abstracted to its two distances; the pose travels with     *)
(* them unread.  The zeroing of the IMU is left out: no code of the        *)
(* backend makes `imu_zero.available` true, so its button stays disabled.  *)
(***************************************************************************)
EXTENDS Naturals

CONSTANTS
  Sensors,        \* SENSOR_IDS
  MaxEdits,       \* bound of the runs: edits of a draft
  MaxSaves,       \* bound of the runs: PUT requests of a page's life
  MaxCrashes      \* bound of the runs: crashes of the backend

Setting(a, v) == [alert |-> a, visual |-> v]
Settings == {Setting(1, 1), Setting(1, 2), Setting(2, 1)}
Fits(setting) == setting.alert <= setting.visual
Defaults == [s \in Sensors |-> Setting(1, 1)]

VARIABLES
  demoBuild,      \* STATIC_DEMO, fixed by the build
  drafts,         \* useSensorSettings: settings.sensors
  link,           \* useSensorSettings: connection
  load,           \* the GET /api/sensor-settings of the effect
  saves,          \* the PUT requests in flight, by number
  memory,         \* SensorSettingsStore._state
  file,           \* the file at _path, NoFile before the first write
  serving,        \* the backend process runs
  edits, crashes, \* bounded counters
  settled         \* per sensor, what the page was told is saved and nothing questions since

settingsVars == <<demoBuild, drafts, link, load, saves, memory, file, serving, edits, crashes, settled>>
pageVars     == <<drafts, link, edits, settled>>
storeVars    == <<memory, file, serving, crashes>>

NoFile == [s \in {} |-> Setting(1, 1)]
Unknown == Setting(0, 0)
NoLoad == [phase |-> "none"]
Numbers == 1 .. MaxSaves
Free == [phase |-> "free"]
InFlight(s) == {n \in Numbers : saves[n].phase # "free" /\ saves[n].sensor = s}

SettingsInit ==
  /\ demoBuild \in BOOLEAN
  /\ drafts = Defaults
  /\ link = "LOADING"
  /\ load = [phase |-> "sent"]
  /\ saves = [n \in Numbers |-> Free]
  /\ file = NoFile
  /\ memory = Defaults
  /\ serving = TRUE
  /\ edits = 0 /\ crashes = 0
  /\ settled = [s \in Sensors |-> Unknown]

-----------------------------------------------------------------------------
(***************************************************************************)
(* The page.                                                               *)
(***************************************************************************)

\* updateSensor: a field of the form of sensor s.
Edit ==
  /\ edits < MaxEdits
  /\ \E s \in Sensors : \E v \in Settings \ {drafts[s]} : drafts' = [drafts EXCEPT ![s] = v]
  /\ edits' = edits + 1
  /\ UNCHANGED <<demoBuild, link, load, saves, settled, storeVars>>

\* saveSensor, which the form refuses while the alert distance does not fit.
Save ==
  \E s \in Sensors :
    /\ Fits(drafts[s])
    /\ IF demoBuild
       THEN /\ link' = "LOCAL_ONLY"
            /\ UNCHANGED <<saves, settled>>
       ELSE /\ \E n \in Numbers :
                 /\ saves[n].phase = "free"
                 /\ \A k \in 1 .. n - 1 : saves[k].phase # "free"
                 /\ saves' = [k \in Numbers |->
                      IF k = n THEN [phase |-> "sent", sensor |-> s, setting |-> drafts[s],
                                     alone |-> InFlight(s) = {}]
                      ELSE IF k \in InFlight(s) THEN [saves[k] EXCEPT !.alone = FALSE]
                      ELSE saves[k]]
            /\ settled' = [settled EXCEPT ![s] = Unknown]
            /\ UNCHANGED link
    /\ UNCHANGED <<demoBuild, drafts, load, edits, storeVars>>

LoadArrives ==
  /\ load.phase = "answered"
  /\ load' = NoLoad
  /\ drafts' = load.body
  /\ link' = IF demoBuild THEN "LOCAL_ONLY" ELSE "SAVED"
  /\ UNCHANGED <<demoBuild, saves, edits, settled, storeVars>>

\* The request fails: the defaults, and whatever was edited meanwhile, stay.
LoadFails ==
  /\ load.phase # "none"
  /\ load' = NoLoad
  /\ link' = "LOCAL_ONLY"
  /\ UNCHANGED <<demoBuild, drafts, saves, edits, settled, storeVars>>

\* A slip: the answer's setting is taken for every sensor of the page.
SavedArrivesForAll ==
  \E n \in Numbers :
    /\ saves[n].phase = "saved"
    /\ drafts' = [s \in Sensors |-> saves[n].setting]
    /\ link' = "SAVED"
    /\ saves' = [saves EXCEPT ![n] = Free]
    /\ UNCHANGED <<demoBuild, load, edits, settled, storeVars>>

(***************************************************************************)
(* The answer to a save replaces the draft of its sensor, even if the      *)
(* draft was edited since.  (settled records what the page was told, if no *)
(* other save of the sensor was under way at the same time.)               *)
(***************************************************************************)
SavedArrives ==
  \E n \in Numbers :
    /\ saves[n].phase = "saved"
    /\ drafts' = [drafts EXCEPT ![saves[n].sensor] = saves[n].setting]
    /\ link' = "SAVED"
    /\ saves' = [saves EXCEPT ![n] = Free]
    /\ settled' = IF saves[n].alone
                  THEN [settled EXCEPT ![saves[n].sensor] = saves[n].setting]
                  ELSE settled
    /\ UNCHANGED <<demoBuild, load, edits, storeVars>>

(***************************************************************************)
(* A 503, or a connection that broke, before or after the store's update.  *)
(* A request the backend has not handled yet may still reach it.           *)
(***************************************************************************)
Abandoned(save) == IF save.phase \in {"sent", "abandoned"}
                   THEN [save EXCEPT !.phase = "abandoned"] ELSE Free

SaveFails ==
  \E n \in Numbers :
    /\ saves[n].phase \notin {"free", "abandoned"}
    /\ saves' = [saves EXCEPT ![n] = Abandoned(@)]
    /\ link' = "ERROR"
    /\ UNCHANGED <<demoBuild, drafts, load, edits, settled, storeVars>>

\* Exit console and a new login: a new page, to which old answers are nothing.
Remount ==
  /\ drafts' = Defaults
  /\ link' = "LOADING"
  /\ load' = [phase |-> "sent"]
  /\ saves' = [n \in Numbers |-> Abandoned(saves[n])]
  /\ UNCHANGED <<demoBuild, edits, settled, storeVars>>

-----------------------------------------------------------------------------
(***************************************************************************)
(* The backend.                                                            *)
(***************************************************************************)

\* SensorSettingsStore.snapshot, or the demo's fixture, which is the defaults.
AnswerLoad ==
  /\ load.phase = "sent"
  /\ serving
  /\ load' = [phase |-> "answered", body |-> IF demoBuild THEN Defaults ELSE memory]
  /\ UNCHANGED <<demoBuild, saves, pageVars, storeVars>>

Answered(save, phase) == IF save.phase = "sent" THEN [save EXCEPT !.phase = phase] ELSE Free

\* A slip: the update is not persisted.
UpdateInMemory ==
  \E n \in Numbers :
    /\ saves[n].phase \in {"sent", "abandoned"}
    /\ serving
    /\ Fits(saves[n].setting)
    /\ memory' = [memory EXCEPT ![saves[n].sensor] = saves[n].setting]
    /\ saves' = [saves EXCEPT ![n] = Answered(@, "saved")]
    /\ UNCHANGED <<demoBuild, load, pageVars, file, serving, crashes>>

(***************************************************************************)
(* SensorSettingsStore.update: memory first, then the whole state to the   *)
(* file.  A write error is answered 503 and leaves the update in memory,   *)
(* from where the next write of any sensor takes it to the file.           *)
(***************************************************************************)
Update ==
  \E n \in Numbers :
    /\ saves[n].phase \in {"sent", "abandoned"}
    /\ serving
    /\ Fits(saves[n].setting)
    /\ memory' = [memory EXCEPT ![saves[n].sensor] = saves[n].setting]
    /\ \/ /\ file' = memory'
          /\ saves' = [saves EXCEPT ![n] = Answered(@, "saved")]
       \/ /\ UNCHANGED file
          /\ saves' = [saves EXCEPT ![n] = Answered(@, "refused")]
    /\ UNCHANGED <<demoBuild, load, pageVars, serving, crashes>>

\* The process ends; an update it had not yet written is as if it had not come.
Crash ==
  /\ serving
  /\ crashes < MaxCrashes
  /\ serving' = FALSE
  /\ crashes' = crashes + 1
  /\ saves' = [n \in Numbers |-> CASE saves[n].phase = "sent" -> [saves[n] EXCEPT !.phase = "broken"]
                                  [] saves[n].phase = "abandoned" -> Free
                                  [] OTHER -> saves[n]]
  /\ memory' = Defaults
  /\ UNCHANGED <<demoBuild, load, pageVars, file>>

\* SensorSettingsStore.__init__: the defaults, then the file if there is one.
Restart ==
  /\ ~serving
  /\ serving' = TRUE
  /\ memory' = IF file = NoFile THEN Defaults ELSE file
  /\ UNCHANGED <<demoBuild, load, saves, pageVars, file, crashes>>

SettingsNext ==
  \/ Edit \/ Save \/ LoadArrives \/ LoadFails \/ SavedArrives \/ SaveFails \/ Remount
  \/ AnswerLoad \/ Update \/ Crash \/ Restart

-----------------------------------------------------------------------------
(***************************************************************************)
(* What the page was told is saved is in the file, and so survives every   *)
(* restart, as long as no other save of that sensor was sent: whatever     *)
(* was saved, refused or lost for the other sensors meanwhile.  The file   *)
(* never holds a setting whose alert distance exceeds its visual range.    *)
(***************************************************************************)
SettledIsStored ==
  \A s \in Sensors :
    /\ settled[s] # Unknown => file # NoFile /\ file[s] = settled[s]
    /\ file # NoFile => Fits(file[s])

(***************************************************************************)
(* A draft is replaced by the answer to a save of its own sensor and of no *)
(* other, whatever is edited, saved or refused for the others meanwhile;   *)
(* it then shows the setting that was sent, which is the one in the file   *)
(* unless another save of that sensor was under way (saveSensor, and the   *)
(* store's update).  Else only an edit changes it, and a load or a new     *)
(* page, which replace all.                                                *)
(***************************************************************************)
AnsweredFor(s, n) ==
  /\ saves[n].phase = "saved" /\ saves[n].sensor = s /\ saves'[n] = Free
  /\ drafts'[s] = saves[n].setting
  /\ saves[n].alone => file[s] = drafts'[s]

EditedAlone(s) ==
  UNCHANGED <<link, saves>> /\ \A r \in Sensors \ {s} : drafts'[r] = drafts[r]

ChangesOnlyItsDraft ==
  load' = load /\ link' # "LOADING" =>
    \A s \in Sensors : drafts'[s] # drafts[s] =>
      EditedAlone(s) \/ \E n \in Numbers : AnsweredFor(s, n)

OnlyItsDraft == [][ChangesOnlyItsDraft]_settingsVars
==============================================================================
