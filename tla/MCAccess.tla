------------------------------ MODULE MCAccess ------------------------------
(* One address at four doors; a session's long life and the registry's are *)
(* looked at apart from the rest, which they do not meet.                  *)
EXTENDS Access, SequencesExt

CONSTANTS LastInstant, LastRequest

MCTimes == 0..LastInstant
Alike == Permutations(Clients) \cup Permutations(McpSessions)

NoClient == \A c \in Clients : clients[c] = Unregistered

OneTopic ==
    /\ sessions # <<>> => Len(rows) = 1 /\ NoClient
    /\ ~NoClient => Len(rows) <= 1 /\ Len(tokens) <= 1
    /\ active # Untracked => Len(rows) = 1 /\ Len(tokens) = 1 /\ NoClient
    /\ now > LastRequest => sessions # <<>> \/ active # Untracked
    /\ Len(rows) = MaxChallenges => tokens = <<>> /\ visits = {}
=============================================================================
