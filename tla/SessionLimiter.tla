--------------------------- MODULE SessionLimiter ---------------------------
(***************************************************************************)
(* The cap on one user's concurrent MCP sessions:                          *)
(* src/cra/server/session_limiter.py.  The table is in the process's       *)
(* memory.  An idle session is swept when its user's next request comes.   *)
(***************************************************************************)
EXTENDS Integers, FiniteSets

CONSTANTS
    Holders,       \* users with a token
    McpSessions,   \* values of the mcp-session-id header
    SessionCap,    \* CRA_MAX_CONCURRENT_SESSIONS; 0 lifts the cap
    IdleLimit      \* IDLE_SECONDS

ASSUME LimiterAssumption == SessionCap \in Nat /\ IdleLimit \in Nat

Never == -1
NoHeader == "no session id"  \* the request that initialises a session

VARIABLES
    active,    \* _sessions: when each session was last seen
    served     \* when each was last let through in this process (history)

Untracked == [u \in Holders |-> [s \in McpSessions |-> Never]]

LimiterTypeOK(times) ==
    /\ active \in [Holders -> [McpSessions -> times \cup {Never}]]
    /\ served \in [Holders -> [McpSessions -> times \cup {Never}]]

(* what _sweep leaves                                                      *)
KeptEagerly(u, at) ==  \* mutant: swept at the limit, not past it
    {s \in McpSessions : active[u][s] # Never /\ active[u][s] > at - IdleLimit}
Kept(u, at) == {s \in McpSessions : active[u][s] # Never /\ active[u][s] >= at - IdleLimit}

Allowed(u, s, at) ==
    \/ SessionCap = 0
    \/ s \in Kept(u, at)
    \/ Cardinality(Kept(u, at)) < SessionCap

(* check_and_track.  A request without an id is counted and not tracked.   *)
CheckAndTrack(u, s, at) ==
    LET admitted == IF Allowed(u, s, at) THEN {s} \ {NoHeader} ELSE {}
        tracked  == IF SessionCap = 0 THEN {} ELSE admitted
    IN  /\ active' = IF SessionCap = 0 THEN active
                     ELSE [active EXCEPT ![u] = [m \in McpSessions |->
                              IF m \in tracked THEN at
                              ELSE IF m \in Kept(u, at) THEN @[m] ELSE Never]]
        /\ served' = [served EXCEPT ![u] = [m \in McpSessions |->
                              IF m \in admitted THEN at ELSE @[m]]]

Busy(u, at) == {s \in McpSessions : served[u][s] # Never /\ served[u][s] >= at - IdleLimit}
CappedAndSpared(at) ==
    SessionCap # 0 =>
        \A u \in Holders :
            /\ Cardinality(Busy(u, at)) <= SessionCap
            /\ \A s \in Busy(u, at) : Allowed(u, s, at)
=============================================================================
