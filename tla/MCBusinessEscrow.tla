-------------------------- MODULE MCBusinessEscrow --------------------------
(***************************************************************************)
(* One request for an escrow of 3 in two milestones, which may be tried    *)
(* twice, with two handlers in flight; or, in other behaviours, the        *)
(* application for the business account itself, submitted twice, with two  *)
(* sessions of Didit, or the verification of its owner, with two notices   *)
(* of Didit and two documents.                                             *)
(***************************************************************************)
EXTENDS BusinessEscrow, Applications, Verifications, TLC

CONSTANTS order, owner

VARIABLE part

MCMilestones == order :> <<1, 2>>
MCTotal == order :> 3

MCInit ==
  /\ Init /\ InitApplications /\ InitVerifications
  /\ part \in {"escrow", "application", "owner"}

MCNext ==
  /\ UNCHANGED part
  /\ \/ part = "escrow" /\ Next /\ UNCHANGED <<applyVars, verifyVars>>
     \/ part = "application" /\ NextApplications /\ UNCHANGED <<vars, verifyVars>>
     \/ part = "owner" /\ NextVerifications /\ UNCHANGED <<vars, applyVars>>

MCSpec == MCInit /\ [][MCNext]_<<part, vars, applyVars, verifyVars>>

\* Handlers, and sessions or documents that are not there yet, are alike.
Symmetry == {p @@ q : p \in Permutations(Calls), q \in Permutations(Checks)}

=============================================================================
