----------------------------- MODULE MCPetPages -----------------------------
(* PetPages for TLC: one session is about saves, another about creates and  *)
(* deletes.  They share every action and differ in the pets there are at    *)
(* first and in the requests that users send.                               *)
EXTENDS PetPages

VARIABLE session

Make == INSTANCE PetPages WITH Born <- {}, Writes <- {"delete", "create"}

SessionInit ==
  \/ session = "edit" /\ Init
  \/ session = "make" /\ Make!Init

SessionNext ==
  \/ session = "edit" /\ Next /\ UNCHANGED session
  \/ session = "make" /\ Make!Next /\ UNCHANGED session

SessionSpec == SessionInit /\ [][SessionNext]_<<vars, session>> /\ Fairness
=============================================================================
