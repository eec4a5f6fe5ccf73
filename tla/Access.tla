------------------------------- MODULE Access -------------------------------
(***************************************************************************)
(* What a proven address is worth: src/cra/server/oauth.py, sessions.py,   *)
(* connector_tokens.py, and the doors of access.py, billing_web.py and     *)
(* console.py that spend the challenges of SignUp.                         *)
(*                                                                         *)
(* Four doors.  A link shows a connector token.  A code given to the OAuth *)
(* consent page mints a token and an authorization code for it, which the  *)
(* client redeems.  A code given to /billing leads to Stripe, once.  A     *)
(* code given to /app/login issues a session.  Tokens, sessions and        *)
(* clients are rows; authorization codes and the table of MCP sessions are *)
(* in the process's memory.                                                *)
(*                                                                         *)
(* Tokens are account-wide: nothing in src/ mints a product-scoped one.    *)
(* The operators' static bearers (the party forms) are left out.           *)
(***************************************************************************)
EXTENDS SignUp, SessionLimiter

CONSTANTS
    Redirects,       \* redirect URIs a client may name
    AllowedHosts,    \* those on the host allowlist
    Verifiers,       \* PKCE verifiers; a challenge is the verifier's
    OAuthTtl,        \* _CODE_TTL
    MaxCodes,        \* _MAX_CODES
    Clients,         \* client ids, random and never reused
    ClientTtl,       \* _CLIENT_TTL
    MaxClients,      \* _MAX_CLIENTS
    IdleTtl,         \* _IDLE_DAYS
    HardTtl,         \* _HARD_DAYS
    RefreshAfter,    \* _REFRESH_AFTER
    MaxTokens,       \* bound: tokens ever minted
    MaxSessions      \* bound: sessions ever issued

ASSUME AccessAssumption ==
    /\ AllowedHosts \subseteq Redirects
    /\ {OAuthTtl, ClientTtl, IdleTtl, HardTtl, RefreshAfter, MaxTokens, MaxSessions} \subseteq Nat
    /\ Holders = Emails
    /\ MaxCodes \in Nat \ {0} /\ MaxClients \in Nat \ {0}
    /\ RefreshAfter < IdleTtl
    /\ IdleTtl <= HardTtl

VARIABLES
    tokens,     \* connector_tokens, in the order they were minted
    codes,      \* oauth._codes, of which a later one is of a later token
    clients,    \* oauth_clients
    sessions,   \* web_sessions, in the order they were issued
    visits      \* challenges that opened the billing page (history)

memory == <<codes, active, served>>
vars == <<now, rows, accounts, tokens, clients, sessions, visits, memory>>

\* `challenge` and `parent`: what the token was minted on, 0 if it was not.
\* `tried` and `shown` count (history) the requests that found the token's
\* authorization code and the responses that carried its plaintext.
Token == [email : Emails, challenge : 0..MaxChallenges, parent : 0..MaxTokens,
          revoked : BOOLEAN, tried : Nat, shown : Nat]
Code == [token : 1..MaxTokens, redirect : AllowedHosts, verifier : Verifiers, created : Times]
Client == [known : BOOLEAN, uris : SUBSET AllowedHosts, issued : Times \cup {NoTime}]
\* `cookie` is the end of the cookie's Max-Age; a browser sends it no longer
\* after that, a client that kept the value may.
\* `touched` is when the session was last used: history, not last_seen_at.
Session == [email : Emails, challenge : 1..MaxChallenges, expires : Nat, hard : Nat,
            seen : Times, revoked : BOOLEAN, cookie : Nat, browser : BOOLEAN, touched : Times]

Unregistered == [known |-> FALSE, uris |-> {}, issued |-> NoTime]
Minted == 1..Len(tokens)
Issued == 1..Len(sessions)

TypeOK ==
    /\ SignUpTypeOK
    /\ Len(tokens) <= MaxTokens /\ \A t \in Minted : tokens[t] \in Token
    /\ codes \subseteq Code /\ Cardinality(codes) <= MaxCodes
    /\ clients \in [Clients -> Client]
    /\ Len(sessions) <= MaxSessions /\ \A s \in Issued : sessions[s] \in Session
    /\ visits \subseteq Ids
    /\ LimiterTypeOK(Times)

Init ==
    /\ SignUpInit
    /\ tokens = <<>>
    /\ codes = {}
    /\ clients = [c \in Clients |-> Unregistered]
    /\ sessions = <<>>
    /\ visits = {}
    /\ active = Untracked
    /\ served = Untracked

----------------------------------------------------------------------------
(* The process stops, a deploy included: the rows stay.                    *)
Stop ==
    /\ codes' = {}
    /\ active' = Untracked
    /\ served' = Untracked

(* mint_token: a transaction of its own.                                   *)
Mint(email, challenge, parent, shown) ==
    /\ Len(tokens) < MaxTokens
    /\ tokens' = Append(tokens, [email |-> email, challenge |-> challenge, parent |-> parent,
                                 revoked |-> FALSE, tried |-> 0, shown |-> shown])

(* access.complete.  After the link is spent the mint may fail or the      *)
(* process stop; after the mint the page may not get out.                  *)
CompleteLink(i) ==
    /\ SpendLink(i)
    /\ \/ UNCHANGED tokens /\ (Stop \/ UNCHANGED memory)
       \/ \E shown \in {0, 1} : Mint(rows[i].email, i, 0, shown) /\ UNCHANGED memory
    /\ UNCHANGED <<clients, sessions, visits>>

----------------------------------------------------------------------------
(* oauth.py                                                                *)

(* _gc_codes: a code lives through its last second; at the cap the oldest  *)
(* make room for one.                                                      *)
Collected ==
    LET live == {code \in codes : code.created + OAuthTtl >= now}
        Newer(code) == {other \in live : other.token > code.token}
    IN  {code \in live : Cardinality(Newer(code)) < MaxCodes - 1}

(* _redirect_uri_allowed and _redirect_uri_registered; an unknown client,  *)
(* or one whose record cannot be read, is held to the allowlist only.      *)
RedirectAccepted(client, redirect, readable) ==
    /\ redirect \in AllowedHosts
    /\ readable /\ clients[client].known /\ clients[client].uris # {}
       => redirect \in clients[client].uris

(* authorize_post once somebody is identified: mint, collect, issue.  The  *)
(* mint may fail, and the process may stop before or after it.             *)
Approve(email, challenge, parent, redirect, verifier) ==
    \/ UNCHANGED tokens /\ (Stop \/ UNCHANGED memory)
    \/ /\ Mint(email, challenge, parent, 0)
       /\ \/ Stop
          \/ /\ codes' = Collected \cup {[token |-> Len(tokens) + 1, redirect |-> redirect,
                                             verifier |-> verifier, created |-> now]}
             /\ UNCHANGED <<active, served>>

ConnectByCode(i, client, redirect, readable, verifier) ==
    /\ RedirectAccepted(client, redirect, readable)
    /\ Answer(i, "code")
    /\ Approve(rows[i].email, i, 0, redirect, verifier)
    /\ UNCHANGED <<clients, sessions, visits>>

(* verify_token: what is presented is a plaintext somebody was shown, of a *)
(* row that is not revoked; no caller mints one that expires.              *)
Verifies(t) == tokens[t].shown > 0 /\ ~tokens[t].revoked

(* _user_from_connector_token: a pasted token                              *)
ConnectByToken(t, client, redirect, readable, verifier) ==
    /\ RedirectAccepted(client, redirect, readable)
    /\ Verifies(t)
    /\ Approve(tokens[t].email, 0, t, redirect, verifier)
    /\ UNCHANGED <<now, rows, accounts, clients, sessions, visits>>

(* token_endpoint: the code is gone whatever is wrong with the request.    *)
RemainingOnMismatch(code, matches) ==  \* mutant: popped only when all is well
    IF matches THEN Collected \ {code} ELSE Collected
Remaining(code, matches) == Collected \ {code}

Redeem(code, redirect, verifier) ==
    LET found   == code \in Collected
        matches == code.redirect = redirect /\ code.verifier = verifier
    IN  /\ codes' = Remaining(code, matches)
        /\ tokens' = IF found
                     THEN [tokens EXCEPT ![code.token].tried = @ + 1,
                                         ![code.token].shown = IF matches THEN @ + 1 ELSE @]
                     ELSE tokens
        /\ UNCHANGED <<now, rows, accounts, clients, sessions, visits, active, served>>

(* register: _gc_clients, best effort, then the row.                       *)
ExpiredEarly(client) == clients[client].issued + ClientTtl >= now  \* mutant
Expired(client) == clients[client].issued + ClientTtl < now

Known == {c \in Clients : clients[c].known}
Oldest(some, n) ==
    {gone \in SUBSET some :
        /\ Cardinality(gone) = n
        /\ \A c \in gone, kept \in some \ gone : clients[c].issued <= clients[kept].issued}

Evicted ==
    LET live == {c \in Known : ~Expired(c)}
        excess == Cardinality(live) - MaxClients + 1
    IN  {(Known \ live) \cup gone : gone \in Oldest(live, IF excess > 0 THEN excess ELSE 0)}

Register(client, uris) ==
    /\ clients[client] = Unregistered
    /\ uris \subseteq AllowedHosts
    /\ \E gone \in Evicted \cup {{}} :
          clients' = [c \in Clients |->
              IF c = client THEN [known |-> TRUE, uris |-> uris, issued |-> now]
              ELSE IF c \in gone THEN [clients[c] EXCEPT !.known = FALSE]
              ELSE clients[c]]
    /\ UNCHANGED <<now, rows, accounts, tokens, sessions, visits, memory>>

(* unregister, with the registration's own token                           *)
Unregister(client) ==
    /\ clients[client].known
    /\ clients' = [clients EXCEPT ![client].known = FALSE]
    /\ UNCHANGED <<now, rows, accounts, tokens, sessions, visits, memory>>

(* revoke_token, by an operator: no page or tool calls it                  *)
RevokeToken(t) ==
    /\ ~tokens[t].revoked
    /\ tokens' = [tokens EXCEPT ![t].revoked = TRUE]
    /\ UNCHANGED <<now, rows, accounts, clients, sessions, visits, memory>>

----------------------------------------------------------------------------
(* console.login_submit and sessions.issue; the insert may not happen.     *)
(* The cookie is set here and nowhere else: using it does not renew it.    *)
Login(i) ==
    /\ Answer(i, "login")
    /\ \/ UNCHANGED sessions /\ (Stop \/ UNCHANGED memory)
       \/ /\ Len(sessions) < MaxSessions
          /\ \E browser \in BOOLEAN :
                sessions' = Append(sessions,
                   [email |-> rows[i].email, challenge |-> i, expires |-> now + IdleTtl,
                    hard |-> now + HardTtl, seen |-> now, revoked |-> FALSE,
                    cookie |-> now + IdleTtl, browser |-> browser, touched |-> now])
          /\ UNCHANGED memory
    /\ UNCHANGED <<tokens, clients, visits>>

Presented(s) == sessions[s].browser => sessions[s].cookie > now

Resolves(s) == ~sessions[s].revoked /\ sessions[s].expires > now /\ sessions[s].hard > now

(* resolve: the expiry slides only once the timestamp has aged.            *)
SlidFromExpiry(s) == sessions[s].expires + IdleTtl  \* mutant
Slid(s) == IF now + IdleTtl < sessions[s].hard THEN now + IdleTtl ELSE sessions[s].hard

Resolve(s) ==
    LET aged == now - sessions[s].seen > RefreshAfter
    IN  /\ Presented(s)
        /\ Resolves(s)
        /\ sessions' = [sessions EXCEPT
              ![s].touched = now,
              ![s].seen = IF aged THEN now ELSE @,
              ![s].expires = IF aged THEN Slid(s) ELSE @]
        /\ UNCHANGED <<now, rows, accounts, tokens, clients, visits, memory>>

(* logout revokes the cookie's session, revoke_all those that live.        *)
Logout(s) ==
    /\ Presented(s)
    /\ ~sessions[s].revoked
    /\ sessions' = [sessions EXCEPT ![s].revoked = TRUE]
    /\ UNCHANGED <<now, rows, accounts, tokens, clients, visits, memory>>

RevokeAll(email) ==
    LET live == {s \in Issued : /\ sessions[s].email = email
                                /\ ~sessions[s].revoked
                                /\ sessions[s].expires > now}
    IN  /\ live # {}
        /\ sessions' = [s \in Issued |->
              [sessions[s] EXCEPT !.revoked = @ \/ s \in live]]
        /\ UNCHANGED <<now, rows, accounts, tokens, clients, visits, memory>>

(* billing_submit, the code step: on to Stripe, which answers or does not, *)
(* unless the process stops first.                                         *)
OpenBilling(i) ==
    /\ Answer(i, "billing")
    /\ \/ visits' = visits \cup {i} /\ UNCHANGED memory
       \/ Stop /\ UNCHANGED visits
    /\ UNCHANGED <<tokens, clients, sessions>>

----------------------------------------------------------------------------
(* auth._dispatch_coauth: verify_token, then the cap, then the tool.       *)
CallTool(t, s) ==
    /\ Verifies(t)
    /\ CheckAndTrack(tokens[t].email, s, now)
    /\ UNCHANGED <<now, rows, accounts, tokens, codes, clients, sessions, visits>>

Restart ==
    /\ codes # {} \/ active # Untracked
    /\ Stop
    /\ UNCHANGED <<now, rows, accounts, tokens, clients, sessions, visits>>

Proving ==
    /\ \/ \E email \in Emails, mailed \in BOOLEAN :
            \/ RequestLink(email, mailed)
            \/ \E purpose \in CodePurposes : StartCode(email, purpose, mailed)
       \/ \E i \in Ids, door \in CodePurposes : Guess(i, door)
       \/ Tick
    /\ UNCHANGED <<tokens, clients, sessions, visits, memory>>

Connecting(client, redirect, readable, verifier) ==
    \/ \E i \in Ids : ConnectByCode(i, client, redirect, readable, verifier)
    \/ \E t \in Minted : ConnectByToken(t, client, redirect, readable, verifier)

Next ==
    \/ Proving
    \/ \E i \in Ids : CompleteLink(i) \/ Login(i) \/ OpenBilling(i)
    \/ \E client \in Clients, redirect \in Redirects, readable \in BOOLEAN, verifier \in Verifiers :
          Connecting(client, redirect, readable, verifier)
    \/ \E code \in codes, redirect \in Redirects, verifier \in Verifiers :
          Redeem(code, redirect, verifier)
    \/ \E client \in Clients :
          Unregister(client) \/ \E uris \in SUBSET AllowedHosts : Register(client, uris)
    \/ \E t \in Minted : RevokeToken(t) \/ \E s \in McpSessions \cup {NoHeader} : CallTool(t, s)
    \/ \E s \in Issued : Resolve(s) \/ Logout(s)
    \/ \E email \in Emails : RevokeAll(email)
    \/ Restart

Spec == Init /\ [][Next]_vars

----------------------------------------------------------------------------
(* A mailed challenge opens one door once: one token, one session or one   *)
(* visit to Stripe, through double clicks, stops and retries.              *)
GrantsOf(i) ==
    Cardinality({t \in Minted : tokens[t].challenge = i})
    + Cardinality({s \in Issued : sessions[s].challenge = i})
    + IF i \in visits THEN 1 ELSE 0

OneGrantPerChallenge == \A i \in Ids : GrantsOf(i) <= 1

(* The door is the one the mail named, and what came out belongs to the    *)
(* address it went to; a pasted token passes on only its own account's.    *)
AnswersOpenTheirDoor ==
    /\ \A t \in Minted :
          LET token == tokens[t]
          IN  IF token.challenge # 0
              THEN /\ rows[token.challenge].mailed
                   /\ rows[token.challenge].purpose \in {"link", "code"}
                   /\ rows[token.challenge].email = token.email
              ELSE token.parent \in 1..(t - 1) /\ tokens[token.parent].email = token.email
    /\ \A s \in Issued :
          LET row == rows[sessions[s].challenge]
          IN  row.mailed /\ row.purpose = "login" /\ row.email = sessions[s].email
    /\ \A i \in visits : rows[i].mailed /\ rows[i].purpose = "billing"

(* Twenty bits hold because an address has few challenges at a time, of     *)
(* whatever kind, each is compared with few wrong codes, and none opens    *)
(* anything after the last of them: what the codes that live now have been *)
(* tried with is bounded, however often somebody asks and guesses.         *)
GuessesAreBounded ==
    /\ \A email \in Emails :
          LET tried == UNION {{i} \X (1..rows[i].wrong) : i \in Live(email)}
          IN  Cardinality(tried) <= MaxLive * (MaxAttempts - 1)
    /\ \A i \in Ids : GrantsOf(i) > 0 => rows[i].wrong < MaxAttempts

(* A token's plaintext leaves the server in one response, and a request    *)
(* that found its authorization code, right or wrong, was the only one.    *)
HandedOverOnce == \A t \in Minted : tokens[t].shown <= 1 /\ tokens[t].tried <= 1

(* The row of a session neither outlives its use nor cuts it short, though *)
(* last_seen_at is not written at every use and the cookie never renewed:  *)
(* an idle session ends; what is presented often enough is accepted up to  *)
(* the hard limit; and a browser that still holds the cookie is let in.    *)
RowsServeTheirCookies ==
    \A s \in Issued :
        LET session == sessions[s]
            idle    == now - session.touched
        IN  /\ Resolves(s) => idle < IdleTtl
            /\ ~session.revoked =>
                  /\ session.hard > now /\ idle < IdleTtl - RefreshAfter => Resolves(s)
                  /\ session.cookie > now => Resolves(s)

(* A registration is forgotten only when its client deletes it, when it is *)
(* old, or when the table is full and it is among the oldest: not because  *)
(* of a restart, and not on account of an older one.                       *)
RegistrationsStand ==
    [][\A c \in Clients :
         clients[c].known /\ ~clients'[c].known =>
            \/ clients' = [clients EXCEPT ![c].known = FALSE]
            \/ clients[c].issued + ClientTtl < now
            \/ /\ Cardinality(Known) >= MaxClients
               /\ \A kept \in Known :
                     clients'[kept].known => clients[c].issued <= clients[kept].issued]_vars

(* Of the sessions let through within the idle limit there are no more     *)
(* than the cap, and none of them is turned away: at the cap, and while    *)
(* others idle out.                                                        *)
ConnectedAreCapped == CappedAndSpared(now)

----------------------------------------------------------------------------
(* What the documentation says of this program and the code does not do.   *)

(* "expires_at slides forward as the session is used": the row's does, the *)
(* cookie's Max-Age does not, so that who reads the console every day in a *)
(* browser is signed out IdleTtl after the login, at the latest.           *)
UsedSessionLasts ==
    \A s \in Issued :
        /\ ~sessions[s].revoked
        /\ sessions[s].hard > now
        /\ now - sessions[s].touched < IdleTtl - RefreshAfter
        => Presented(s)

(* "That code has already been used ... most likely connected already":    *)
(* what verify_code answers to the right code of a spent challenge, also   *)
(* when five wrong ones spent it and nothing was connected.                *)
SpentMeansConnected ==
    \A i \in Ids :
        rows[i].purpose = "code" /\ rows[i].used # NoTime =>
            \E t \in Minted : tokens[t].challenge = i

(* "Request a new link and this one stops working": the page says so of    *)
(* the token it shows; a later link's token leaves the earlier one live.   *)
NewLinkReplacesToken ==
    \A s, t \in Minted :
        /\ s < t
        /\ tokens[s].email = tokens[t].email
        /\ tokens[t].challenge # 0 /\ rows[tokens[t].challenge].purpose = "link"
        => tokens[s].revoked
=============================================================================
