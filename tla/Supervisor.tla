----------------------------- MODULE Supervisor -----------------------------
(***************************************************************************)
(* The supervisor (cmd/main.go), the crash dump it leaves, and the failsafe*)
(* mode the next run of the app chooses from it (failsafe.go), around the  *)
(* native proxy of the run (NativeProxy).  The supervisor ends with the    *)
(* app; the system's init, which is not in the repository, starts it again.*)
(***************************************************************************)
EXTENDS NativeProxy

CONSTANTS MaxEnds,     \* bound: the abnormal ends and markers explored
          MaxKept      \* bound: the removals that fail

ASSUME SupervisorAssumption == MaxEnds \in Nat /\ MaxKept \in Nat

VARIABLES
    stage,       \* the app: not running, before or after the end of Main's start
    failsafe,    \* failsafeModeActive
    cause,       \* what the failsafe mode of this run was chosen for
    dump,        \* what last-crash.log says of the end it dumps
    marker,      \* the file .enablefailsafe exists
    lost,        \* a dump could not be made or read: a full disk, a power cut
    ends,        \* abnormal ends of the app so far
    ordered,     \* times the marker was made
    kept,        \* times the marker or the dump could not be removed
    runs         \* runs of the app in failsafe mode

machine == <<stage, failsafe, cause, dump, marker, lost, ends, ordered, kept, runs>>
allVars == <<vars, machine>>

Endings == {"panic", "video", "error", "signal"}

MachineTypeOK ==
    /\ TypeOK
    /\ stage \in {"off", "starting", "up"}
    /\ failsafe \in BOOLEAN
    /\ cause \in Endings \cup {"none", "file"}
    /\ dump \in Endings \cup {"none"}
    /\ marker \in BOOLEAN /\ lost \in BOOLEAN
    /\ ends \in 0 .. MaxEnds /\ ordered \in 0 .. MaxEnds /\ kept \in 0 .. MaxKept
    /\ runs \in Nat

MachineInit ==
    /\ Init
    /\ stage = "off" /\ failsafe = FALSE /\ cause = "none"
    /\ dump = "none" /\ marker = FALSE /\ lost = FALSE
    /\ ends = 0 /\ ordered = 0 /\ kept = 0 /\ runs = 0
----------------------------------------------------------------------------
(* A run of the app: checkFailsafeReason, then initNative.                 *)

FreshProxy(where) ==
    /\ app' = "up" /\ pc' = where /\ started' = FALSE
    /\ restarts' = 0
    /\ gen' = 0 /\ child' = "none" /\ stdout' = "quiet" /\ reaped' = FALSE
    /\ client' = 0 /\ call' = [c \in Caller |-> 0]
    /\ repaint' = FALSE /\ painted' = FALSE

(* Wrong versions of the next definition, for the mutation runs. *)
EnterFailsafe_Unexplained(why) ==
    /\ failsafe' = TRUE /\ cause' = "unknown"
    /\ runs' = runs + 1
    /\ FreshProxy("idle")

EnterFailsafe_WithProxy(why) ==
    /\ failsafe' = TRUE /\ cause' = why
    /\ runs' = runs + 1
    /\ FreshProxy("spawn")

(* initNative's empty interface: there is no proxy in this run. *)
EnterFailsafe(why) ==
    /\ failsafe' = TRUE /\ cause' = why
    /\ runs' = runs + 1
    /\ FreshProxy("idle")

(* A wrong version of a definition below, for a mutation run. *)
LaunchAfterCrash_KeepsDump ==
    /\ stage = "off" /\ ~marker /\ dump # "none"
    /\ stage' = "starting"
    /\ EnterFailsafe(dump)
    /\ UNCHANGED <<dump, marker, lost, ends, ordered, kept>>

(* os.Remove, whose error is dropped: the file may stay.                   *)
Removed == UNCHANGED kept
Kept == kept < MaxKept /\ kept' = kept + 1

(* The marker is looked at first, and the dump is left for the next run. *)
LaunchMarked ==
    /\ stage = "off" /\ marker
    /\ stage' = "starting"
    /\ \/ marker' = FALSE /\ Removed
       \/ UNCHANGED marker /\ Kept
    /\ EnterFailsafe("file")
    /\ UNCHANGED <<dump, lost, ends, ordered>>

LaunchAfterCrash ==
    /\ stage = "off" /\ ~marker /\ dump # "none"
    /\ stage' = "starting"
    /\ \/ dump' = "none" /\ Removed
       \/ UNCHANGED dump /\ Kept
    /\ EnterFailsafe(dump)
    /\ UNCHANGED <<marker, lost, ends, ordered>>

(* There is no dump, or there is one that cannot be examined or read: it   *)
(* is left where it is and says nothing to this run.                       *)
LaunchNormal ==
    /\ stage = "off" /\ ~marker
    /\ lost' = (lost \/ dump # "none")
    /\ stage' = "starting"
    /\ failsafe' = FALSE /\ cause' = "none"
    /\ FreshProxy("spawn")
    /\ UNCHANGED <<dump, marker, ends, ordered, kept, runs>>

(* Main goes on once nativeInstance.Start has returned, and at last waits  *)
(* for a signal.                                                           *)
MainReady ==
    /\ stage = "starting" /\ app = "up"
    /\ failsafe \/ started
    /\ stage' = "up"
    /\ UNCHANGED <<vars, failsafe, cause, dump, marker, lost, ends, ordered, kept, runs>>

(* Somebody asks for failsafe mode. *)
MakeMarker ==
    /\ ~marker /\ ordered < MaxEnds
    /\ marker' = TRUE
    /\ ordered' = ordered + 1
    /\ UNCHANGED <<vars, stage, failsafe, cause, dump, lost, ends, kept, runs>>
----------------------------------------------------------------------------
(* The end of a run, and createErrorDump when it is not a clean one.       *)

(* A wrong version of the next definition, for a mutation run. *)
Dumped_Nothing(ending) == UNCHANGED <<dump, lost>>

(* The name of the last dump is given to the new one by removing it first; *)
(* any step before and after that can fail.                                *)
Dumped(ending) ==
    \/ dump' = ending /\ UNCHANGED lost
    \/ lost' = TRUE /\ dump' \in {dump, "none"}

(* The app is gone and its native process gets a SIGTERM with it. *)
Stop == stage' = "off" /\ FreshProxy("idle")

EndsBadly(ending) ==
    /\ stage # "off" /\ ends < MaxEnds
    /\ ends' = ends + 1
    /\ Dumped(ending)
    /\ Stop
    /\ UNCHANGED <<failsafe, cause, marker, ordered, kept, runs>>

(* A Fatal of the native proxy or of initNative, with exit code 1: the     *)
(* first leaves the words by which the next run knows a "video" failure.   *)
ProxyFatal ==
    /\ app # "up"
    /\ EndsBadly(IF app = "max restarts" THEN "video" ELSE "error")

Panic == app = "up" /\ EndsBadly("panic")

(* Before Main waits for it, SIGTERM kills the app. *)
KilledWhileStarting == stage = "starting" /\ app = "up" /\ EndsBadly("signal")

(* Afterwards Main returns, and the supervisor with it. *)
ShutDown ==
    /\ stage = "up" /\ app = "up"
    /\ Stop
    /\ UNCHANGED <<failsafe, cause, dump, marker, lost, ends, ordered, kept, runs>>
----------------------------------------------------------------------------
Launch == LaunchMarked \/ LaunchAfterCrash \/ LaunchNormal

(* Any step of the run's proxy, while there is a run. *)
Proxy == stage # "off" /\ Next /\ UNCHANGED machine

MachineNext ==
    \/ Launch \/ MainReady \/ MakeMarker
    \/ ProxyFatal \/ Panic \/ KilledWhileStarting \/ ShutDown
    \/ Proxy

(* External: the system's init starts the supervisor whenever it ended. *)
MachineFairness == WF_allVars(Launch) /\ WF_allVars(ProxyFatal)

MachineSpec == MachineInit /\ [][MachineNext]_allVars
FairMachineSpec == MachineSpec /\ MachineFairness
----------------------------------------------------------------------------
(* Every run in failsafe mode is paid for by one abnormal end, one order,  *)
(* or one removal of the file that says so which failed: a crash, or a     *)
(* marker, keeps the device in it for the next run and for no more runs    *)
(* after that than the file resists.                                       *)
FailsafeIsEarned ==
    runs + (IF dump # "none" THEN 1 ELSE 0) + (IF marker THEN 1 ELSE 0)
        <= ends + ordered + kept

(* A native process that keeps crashing, or does not start, brings the     *)
(* device to failsafe mode by way of the app's exit, the dump and the next *)
(* run, unless a dump could not be made or read.                           *)
GivingUpReachesFailsafe == (app # "up" /\ ends < MaxEnds) ~> (failsafe \/ lost)

(* A run in failsafe mode, which was chosen for a cause, never starts a    *)
(* native process: nothing that crashed the runs before is run again.      *)
FailsafeIsEmpty == failsafe /\ stage # "off" => gen = 0 /\ cause # "none"

(* The start of the native process is fatal only before Main has gone on:  *)
(* once it has, a restart that fails is tried again, and an app that is up *)
(* ends over its native process for no other reason than the count.        *)
OnlyTheFirstStartIsFatal == app = "failed to start" => stage = "starting"

(* The machine over all runs of the app: types, failsafe runs that are     *)
(* earned and start no native process, and no fatal restart.               *)
MachineSound ==
    /\ MachineTypeOK /\ FailsafeIsEarned
    /\ FailsafeIsEmpty /\ OnlyTheFirstStartIsFatal
=============================================================================
