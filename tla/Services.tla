------------------------------ MODULE Services ------------------------------
(***************************************************************************)
(* The components behind the HTTP surface and the registry, side by side:  *)
(* prepare calls and the deletion of an account, the linking of chats, the *)
(* deliveries of the channels, the registry's poller and matcher, and the  *)
(* versions of a profile.  They share no variable, so a step of the whole  *)
(* is a step of one of them; that deleting an account also cascades to its *)
(* chats, profiles and searches is left out.                               *)
(***************************************************************************)
EXTENDS AccountDeletion, AccountLink, ChatDelivery, JobRegistry, Profiles

serviceVars == <<bothVars, linkVars, chatVars, registryVars, profileVars>>

ServicesInit ==
  DeletionInit /\ LinkInit /\ ChatInit /\ RegistryInit /\ ProfilesInit

DeletionMoves == DeletionNext /\ UNCHANGED <<linkVars, chatVars, registryVars, profileVars>>
LinkMoves     == LinkNext /\ UNCHANGED <<bothVars, chatVars, registryVars, profileVars>>
ChatMoves     == ChatNext /\ UNCHANGED <<bothVars, linkVars, registryVars, profileVars>>
RegistryMoves == RegistryNext /\ UNCHANGED <<bothVars, linkVars, chatVars, profileVars>>
ProfilesMove  == ProfilesNext /\ UNCHANGED <<bothVars, linkVars, chatVars, registryVars>>

ServicesNext ==
  DeletionMoves \/ LinkMoves \/ ChatMoves \/ RegistryMoves \/ ProfilesMove

ServicesSpec == ServicesInit /\ [][ServicesNext]_serviceVars

\* The type invariants of the parts.
TypesOK ==
  /\ PrepareTypeOK /\ DeletionTypeOK /\ LinkTypeOK /\ ChatTypeOK
  /\ RegistryTypeOK /\ ProfilesTypeOK
=============================================================================
