----------------------------- MODULE OtaUpdate -----------------------------
(***************************************************************************)
(* The over-the-air updater, platform/ota: one State object whose mutex    *)
(* lets one attempt run at a time (TryUpdate), the files that the attempt  *)
(* leaves under /userdata/jetkvm, and the power losses and reboots between *)
(* them.  An attempt is a sequence of steps because each of them waits for *)
(* the network, for the disk or for rk_ota, and the power may go in        *)
(* between; the fields of the Go State live only as long as the process.   *)
(***************************************************************************)
EXTENDS Integers

CONSTANTS Versions,   \* the releases, ordered as semver orders them
          Requests,   \* the UpdateParams callers pass to TryUpdate
          NoFile,     \* there is no file at that path
          Garbage     \* content that hashes to nothing ever released

Components == {"app", "system"}   \* availableComponents

(* A request names components (a component no updater knows is allowed),   *)
(* pins some of them to a custom version, and may ask for a config reset.  *)
RequestType == [comps : SUBSET (Components \cup {"other"}),
                custom : SUBSET Components,
                reset : BOOLEAN]

ASSUME VersionsAssumption == Versions \subseteq Nat /\ Versions # {}
ASSUME RequestsAssumption ==
    /\ Requests \subseteq RequestType
    /\ \A p \in Requests : p.custom \subseteq p.comps
ASSUME FilesAssumption ==
    NoFile \notin Versions /\ Garbage \notin Versions /\ NoFile # Garbage

Content == Versions \cup {Garbage}

VARIABLES
    \* in memory: lost when the process ends
    at,            \* where doUpdate is; "idle" when the mutex is free
    cur,           \* the component the step is about
    params,        \* the running attempt's UpdateParams, defaults filled in
    status,        \* componentUpdateStatuses
    updating, rebootNeeded,
    \* on disk
    local,         \* the installed version of each component
    path,          \* the file at jetkvm_app.update / update_system.tar
    unverified,    \* the file at <path>.unverified
    slot,          \* the system image rk_ota will have the next boot select
    autoUpdate     \* config.AutoUpdateEnabled

memory == <<at, cur, params, status, updating, rebootNeeded>>
disk == <<local, path, unverified, slot, autoUpdate>>
otaVars == <<memory, disk>>

Steps == {"idle", "check", "prepare", "download", "verify", "flash", "finish",
          "reset", "reboot", "rebooting"}

StatusType == [pending : BOOLEAN, available : BOOLEAN,
               customVersionUpdate : BOOLEAN, version : Versions]

OtaTypeOK ==
    /\ at \in Steps
    /\ cur \in Components
    /\ params \in RequestType
    /\ status \in [Components -> StatusType]
    /\ updating \in BOOLEAN /\ rebootNeeded \in BOOLEAN /\ autoUpdate \in BOOLEAN
    /\ local \in [Components -> Versions]
    /\ path \in [Components -> Content \cup {NoFile}]
    /\ unverified \in [Components -> Content \cup {NoFile}]
    /\ slot \in Content \cup {NoFile}
----------------------------------------------------------------------------
NoRequest == [comps |-> {}, custom |-> {}, reset |-> FALSE]

(* Before the first check a status has no version; any stands for it, and  *)
(* nothing reads it before a check has written it.                         *)
FreshStatus ==
    [c \in Components |-> [pending |-> FALSE, available |-> FALSE,
                           customVersionUpdate |-> FALSE, version |-> local[c]]]

(* NewState: what a starting process finds in memory. *)
FreshMemory ==
    /\ at = "idle" /\ cur = "app" /\ params = NoRequest
    /\ status = FreshStatus
    /\ updating = FALSE /\ rebootNeeded = FALSE

OtaInit ==
    /\ local \in [Components -> Versions]
    /\ path = [c \in Components |-> NoFile]
    /\ unverified = [c \in Components |-> NoFile]
    /\ slot = NoFile
    /\ autoUpdate = TRUE
    /\ FreshMemory
----------------------------------------------------------------------------
(* Wrong versions of definitions below, for the mutation runs. *)
Fail_KeepsUpdating ==
    at' = "idle" /\ UNCHANGED <<updating, cur, params, rebootNeeded>>

Checked_RequestedOnly(c, remote) ==
    [status[c] EXCEPT
        !.version = IF c \in params.comps THEN remote[c] ELSE NoFile,
        !.available = c \in params.comps /\ remote[c] > local[c]]

FirstPending_SystemFirst(st) == IF st["system"].pending THEN "system" ELSE "app"

HashMatches_Skipped(c) == unverified[c] # NoFile
----------------------------------------------------------------------------
(* componentUpdateError, and the deferred unlock: the attempt is over and  *)
(* the updater may be asked again.  Nothing but `updating' is reset.       *)
Fail ==
    /\ updating' = FALSE
    /\ at' = "idle"
    /\ UNCHANGED <<cur, params, rebootNeeded>>

Goto(step, c) ==
    /\ at' = step
    /\ cur' = c
    /\ UNCHANGED <<params, updating>>

(* TryUpdate: a held mutex or a set `updating' refuses the call, and then  *)
(* nothing changes.  No component named means all of them.                 *)
TryUpdate(p) ==
    /\ at = "idle" /\ ~updating
    /\ updating' = TRUE
    /\ params' = IF p.comps = {} THEN [p EXCEPT !.comps = Components] ELSE p
    /\ at' = "check"
    /\ UNCHANGED <<cur, status, rebootNeeded, disk>>

(* remoteMetadataToComponentStatus: what the release API's answer makes of *)
(* the old status.  `pending' is not touched, and customVersionUpdate is   *)
(* only ever raised.                                                       *)
Checked(c, remote) ==
    LET pinned == c \in params.custom
        differs == remote[c] # local[c]
    IN [status[c] EXCEPT
          !.version = remote[c],
          !.available = IF pinned THEN differs
                        ELSE c \in params.comps /\ remote[c] > local[c],
          !.customVersionUpdate = @ \/ (pinned /\ differs)]

MarkPending(st) ==
    [c \in Components |->
        IF c \in params.comps /\ st[c].available
        THEN [st[c] EXCEPT !.pending = TRUE] ELSE st[c]]

(* The first component whose update doUpdate runs, in its fixed order. *)
FirstPending(st) == IF st["app"].pending THEN "app" ELSE "system"

(* The release API answered: the statuses are replaced, what is available  *)
(* becomes pending, and the attempt ends here if nothing is pending.       *)
CheckSucceeds ==
    /\ at = "check" /\ params.comps \cap Components # {}
    /\ \E remote \in [Components -> Versions] :
         LET st == MarkPending([c \in Components |-> Checked(c, remote)])
         IN /\ status' = st
            /\ IF \E c \in Components : st[c].pending
               THEN Goto("prepare", FirstPending(st))
               ELSE /\ updating' = FALSE
                    /\ at' = "idle"
                    /\ UNCHANGED <<cur, params>>
    /\ UNCHANGED <<rebootNeeded, disk>>

(* No known component was named, a version could not be read, or the       *)
(* release API could not be used.                                          *)
CheckFails ==
    /\ at = "check"
    /\ Fail
    /\ UNCHANGED <<status, disk>>

(* downloadFile up to the request: both earlier files are removed and an   *)
(* empty unverified file is created.                                       *)
Prepare ==
    /\ at = "prepare"
    /\ path' = [path EXCEPT ![cur] = NoFile]
    /\ unverified' = [unverified EXCEPT ![cur] = Garbage]
    /\ Goto("download", cur)
    /\ UNCHANGED <<status, rebootNeeded, local, slot, autoUpdate>>

(* The body was read to its end; the server may have sent anything. *)
DownloadSucceeds ==
    /\ at = "download"
    /\ \E content \in {status[cur].version, Garbage} :
         unverified' = [unverified EXCEPT ![cur] = content]
    /\ Goto("verify", cur)
    /\ UNCHANGED <<status, rebootNeeded, local, path, slot, autoUpdate>>

(* A file could not be removed, the earlier one first, or created. *)
PrepareFails ==
    /\ at = "prepare"
    /\ \/ UNCHANGED <<path, unverified>>
       \/ /\ path' = [path EXCEPT ![cur] = NoFile]
          /\ unverified' \in {unverified, [unverified EXCEPT ![cur] = NoFile]}
    /\ Fail
    /\ UNCHANGED <<status, local, slot, autoUpdate>>

(* A failed request, status code, read, write or sync. *)
DownloadFails ==
    /\ at = "download"
    /\ Fail
    /\ UNCHANGED <<status, disk>>

(* The hash in the metadata is the hash of the version in the metadata. *)
HashMatches(c) == unverified[c] = status[c].version

(* verifyFile renames the file once its hash matched.  The app is then     *)
(* done and the next pending component is the system's.                    *)
VerifySucceeds ==
    /\ at = "verify" /\ HashMatches(cur)
    /\ path' = [path EXCEPT ![cur] = unverified[cur]]
    /\ unverified' = [unverified EXCEPT ![cur] = NoFile]
    /\ IF cur = "app"
       THEN /\ rebootNeeded' = TRUE
            /\ IF status["system"].pending THEN Goto("prepare", "system")
                                           ELSE Goto("finish", cur)
       ELSE /\ Goto("flash", cur)
            /\ UNCHANGED rebootNeeded
    /\ UNCHANGED <<status, local, slot, autoUpdate>>

(* The hash does not match or the file cannot be read or renamed; or, with *)
(* the verified file in place, it cannot be made executable.               *)
VerifyFails ==
    /\ at = "verify"
    /\ \/ UNCHANGED <<path, unverified>>
       \/ /\ HashMatches(cur)
          /\ path' = [path EXCEPT ![cur] = unverified[cur]]
          /\ unverified' = [unverified EXCEPT ![cur] = NoFile]
    /\ Fail
    /\ UNCHANGED <<status, local, slot, autoUpdate>>

(* rk_ota writes the verified tar to the other partition. *)
FlashSucceeds ==
    /\ at = "flash"
    /\ slot' = path["system"]
    /\ rebootNeeded' = TRUE
    /\ Goto("finish", cur)
    /\ UNCHANGED <<status, local, path, unverified, autoUpdate>>

FlashFails ==
    /\ at = "flash"
    /\ Fail
    /\ UNCHANGED <<status, disk>>

(* Every pending component is in place.  A custom version, of this or of   *)
(* an earlier attempt, turns automatic updates off; a failed save of that  *)
(* setting is only logged.                                                 *)
Finish ==
    /\ at = "finish"
    /\ IF rebootNeeded
       THEN /\ autoUpdate' =
                 (autoUpdate /\ \A c \in Components : ~status[c].customVersionUpdate)
            /\ Goto(IF params.reset THEN "reset" ELSE "reboot", cur)
       ELSE /\ at' = "idle"
            /\ UNCHANGED <<cur, params, updating, autoUpdate>>
    /\ UNCHANGED <<status, rebootNeeded, local, path, unverified, slot>>

(* resetConfig: the whole configuration becomes the default one, in which  *)
(* automatic updates are on; only its save can fail.                       *)
ResetConfig ==
    /\ at = "reset"
    /\ autoUpdate' = TRUE
    /\ (Goto("reboot", cur) /\ UNCHANGED rebootNeeded) \/ Fail
    /\ UNCHANGED <<status, local, path, unverified, slot>>

(* hwReboot: the reboot command started, or it did not.  When it did,      *)
(* `updating' stays set and later calls are refused until the device is    *)
(* down.                                                                   *)
RequestReboot ==
    /\ at = "reboot"
    /\ (Goto("rebooting", cur) /\ UNCHANGED rebootNeeded) \/ Fail
    /\ UNCHANGED <<status, disk>>

(* The device boots, after the requested reboot or after a power loss at   *)
(* any moment.  The boot scripts and the boot loader, outside the          *)
(* repository, run what was staged for them.                               *)
Boot ==
    /\ local' \in [Components -> Versions]
    /\ local'["app"] \in {local["app"]} \cup ({path["app"]} \ {NoFile, Garbage})
    /\ local'["system"] \in {local["system"]} \cup ({slot} \ {NoFile, Garbage})
    /\ path' = IF local'["app"] = path["app"]
               THEN [path EXCEPT !["app"] = NoFile] ELSE path
    /\ slot' = IF local'["system"] = slot THEN NoFile ELSE slot
    /\ at' = "idle" /\ cur' = "app" /\ params' = NoRequest
    /\ status' = FreshStatus'
    /\ updating' = FALSE /\ rebootNeeded' = FALSE
    /\ UNCHANGED <<unverified, autoUpdate>>

OtaNext ==
    \/ \E p \in Requests : TryUpdate(p)
    \/ CheckSucceeds \/ CheckFails
    \/ Prepare \/ PrepareFails \/ DownloadSucceeds \/ DownloadFails
    \/ VerifySucceeds \/ VerifyFails
    \/ FlashSucceeds \/ FlashFails
    \/ Finish \/ ResetConfig \/ RequestReboot
    \/ Boot

OtaSpec == OtaInit /\ [][OtaNext]_otaVars
----------------------------------------------------------------------------
Staged == [c \in Components |-> IF c = "app" THEN path["app"] ELSE slot]

(* The updater is busy exactly while an attempt runs: no path through      *)
(* doUpdate, failed or successful, leaves `updating' set behind the        *)
(* released mutex, where it would refuse every later update for as long as *)
(* the process lives, and none clears it early.                            *)
BusyWhileAttempting == updating <=> at # "idle"

(* From the moment the reboot is being arranged, what the next boot will   *)
(* start is, for each component still marked pending by this or by any     *)
(* earlier failed attempt, exactly the release the last check announced.   *)
RebootsIntoAnnounced ==
    at \in {"reset", "reboot", "rebooting"} =>
        \A c \in Components : status[c].pending => Staged[c] = status[c].version

(* Whatever fails or is cut off by a power loss, nothing at the place the  *)
(* boot picks it up from was never released: what was not verified is      *)
(* under another name, and rk_ota only reads what was verified.            *)
OnlyVerifiedIsStaged ==
    \A c \in Components : Staged[c] # Garbage /\ path[c] # Garbage

(* The updater is what its variables say it is: types, and busy exactly    *)
(* while an attempt runs.                                                  *)
Sound == OtaTypeOK /\ BusyWhileAttempting
=============================================================================
