------------------------------- MODULE MCApp --------------------------------
(***************************************************************************)
(* Instances of the app's two machines that outlive its process.           *)
(* Supervisor: the runs of the app, each with its proxy, under the         *)
(* fairness of both.  OtaUpdate: two releases are enough for an upgrade, a *)
(* withdrawn release and a downgrade.  They share no state, and a reboot   *)
(* is no step of the supervisor, so the run explores their sum, not their  *)
(* product: in each behaviour only one of them moves.  The updater must    *)
(* always have a next step; the machine may stop where its bounds end it.  *)
(***************************************************************************)
EXTENDS Supervisor, OtaUpdate

VARIABLE moves     \* which of the two

Plain(comps) == [comps |-> comps, custom |-> {}, reset |-> FALSE]

\* What the running program asks for: main.go's auto-update and rpcTryUpdate.
ProgramRequests == {Plain({})}

\* What the package accepts and rpcTryUpdateComponents can pass on.
ApiRequests ==
    ProgramRequests \cup
    {Plain({"app"}), Plain({"other"}),
     [comps |-> {"system"}, custom |-> {"system"}, reset |-> TRUE]}

MCInit ==
    /\ MachineInit /\ OtaInit
    /\ \/ moves = "updater"
       \/ moves = "machine" /\ local = [c \in Components |-> 1]
MCNext ==
    /\ \/ moves = "machine" /\ MachineNext /\ UNCHANGED otaVars
       \/ moves = "machine" /\ UNCHANGED <<allVars, otaVars>>
       \/ moves = "updater" /\ OtaNext /\ UNCHANGED allVars
    /\ UNCHANGED moves

\* Fairness of the machine alone: the updater's properties are about its safety.
MCSpec ==
    /\ MCInit /\ [][MCNext]_<<allVars, otaVars, moves>>
    /\ MachineFairness /\ Fairness
=============================================================================
