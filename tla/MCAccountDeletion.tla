-------------------------- MODULE MCAccountDeletion --------------------------
\* Two calls with one key, for TLC.
EXTENDS AccountDeletion

MCKeyOf == [c \in Call |-> "key"]
=============================================================================
