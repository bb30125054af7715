--------------------------- MODULE SweepDeposits ----------------------------
(***************************************************************************)
(* What becomes of the deposit that travels with the sweep of a token: it  *)
(* leaves the registry once, and either comes back whole or is kept for    *)
(* good.  The extension implements this (TokenSweep); the registry is      *)
(* modelled against it.                                                    *)
(***************************************************************************)
EXTENDS Naturals

CONSTANTS
    Sweeps,        \* bound: the sweeps of a behaviour, by name
    SweepDeposit   \* SWEEP_ATTACHED_REQUIRED

ASSUME SweepConstants == SweepDeposit \in Nat

VARIABLES
    sweep_status,  \* sweep -> where its deposit is
    sweep_back     \* what came back to the registry, over all sweeps

depositVars == <<sweep_status, sweep_back>>

DepositsInit ==
    /\ sweep_status = [s \in Sweeps |-> "unused"]
    /\ sweep_back = 0

Open(s) ==
    /\ sweep_status[s] = "unused"
    /\ sweep_status' = [sweep_status EXCEPT ![s] = "out"]
    /\ UNCHANGED sweep_back

Return(s) ==
    /\ sweep_status[s] = "out"
    /\ sweep_status' = [sweep_status EXCEPT ![s] = "returned"]
    /\ sweep_back' = sweep_back + SweepDeposit

Keep(s) ==
    /\ sweep_status[s] = "out"
    /\ sweep_status' = [sweep_status EXCEPT ![s] = "kept"]
    /\ UNCHANGED sweep_back

DepositsNext == \E s \in Sweeps : Open(s) \/ Return(s) \/ Keep(s)

DepositsSpec == DepositsInit /\ [][DepositsNext]_depositVars

=============================================================================
