---------------------------- MODULE MCTokenSweep ----------------------------
(* The active signer under every sequence of calls by its admins, minter,  *)
(* owners and authorities, and the extension's sweeps of two tokens, on a  *)
(* small instance.  The extension keeps its first admin.                   *)
EXTENDS TokenSweep, TLC

CONSTANTS w1, tla1

MCWallets == {w1}
MCMinters == {tla1}
MCParent  == w1 :> tla1

MCNext ==
    \/ SignerStep
    \/ (pause(FirstAdmin) \/ unpause(FirstAdmin)) /\ UNCHANGED <<signerVars, sweepVars>>
    \/ Skim
    \/ Sweep
    \/ \E s \in Sweeps : RunSweep(s)

MCSpec == TokenSweepInit /\ [][MCNext]_tokenSweepVars /\ SweepDelivery

=============================================================================
