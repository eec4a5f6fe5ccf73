------------------------------- MODULE SignUp -------------------------------
(***************************************************************************)
(* Proving an e-mail address: src/cra/server/signup.py.  A challenge is a  *)
(* row of signup_links: a link, whose 256 bits come back in one request,   *)
(* or a six-digit code issued for one of three doors.  Handlers run on the *)
(* event loop one at a time, but each is several transactions with a mail  *)
(* in between, and the process may stop between any two.                   *)
(*                                                                         *)
(* The right code or secret of a row is known to who read the mail; any    *)
(* other presentation of the row is a wrong guess.  Self-serve is on.      *)
(***************************************************************************)
EXTENDS Integers, Sequences, FiniteSets

CONSTANTS
    Times,
    Emails,
    LinkTtl,        \* _LINK_TTL_MINUTES
    CodeTtl,        \* _CODE_TTL_MINUTES
    MaxLive,        \* _MAX_LIVE_LINKS_PER_EMAIL
    MaxAttempts,    \* _MAX_CODE_ATTEMPTS
    MaxChallenges   \* bound: rows ever written

ASSUME SignUpAssumption ==
    /\ Times \subseteq Nat /\ 0 \in Times
    /\ LinkTtl \in Nat \ {0} /\ CodeTtl \in Nat \ {0}
    /\ MaxLive \in Nat \ {0} /\ MaxAttempts \in Nat \ {0}
    /\ MaxChallenges \in Nat

CodePurposes == {"code", "billing", "login"}
Purposes == CodePurposes \cup {"link"}
NoTime == -1

VARIABLES
    now,
    rows,       \* signup_links, in the order they were written
    accounts    \* addresses with a verified account

signUpVars == <<now, rows, accounts>>

\* `mailed` and `wrong` are history: the mail left; wrong codes compared.
Challenge == [email : Emails, purpose : Purposes, expires : Nat,
              used : Times \cup {NoTime}, attempts : 0..MaxAttempts,
              mailed : BOOLEAN, wrong : Nat]
Ids == 1..Len(rows)

SignUpTypeOK ==
    /\ now \in Times
    /\ Len(rows) <= MaxChallenges
    /\ \A i \in Ids : rows[i] \in Challenge
    /\ accounts \subseteq Emails

SignUpInit ==
    /\ now = 0
    /\ rows = <<>>
    /\ accounts = {}

----------------------------------------------------------------------------
Unspent(i) == rows[i].used = NoTime /\ rows[i].expires > now

(* _live_challenges counts links and codes together.                       *)
Live(email) == {i \in Ids : rows[i].email = email /\ Unspent(i)}

(* request_access and start_code_challenge: a row, then the mail.  When    *)
(* the mail fails _discard deletes the row, so nothing is left of it; the  *)
(* row stays unmailed if the process stops before the send or the discard. *)
Ask(email, purpose, mailed) ==
    /\ Len(rows) < MaxChallenges
    /\ Cardinality(Live(email)) < MaxLive
    /\ rows' = Append(rows,
          [email |-> email, purpose |-> purpose,
           expires |-> now + IF purpose = "link" THEN LinkTtl ELSE CodeTtl,
           used |-> NoTime, attempts |-> 0, mailed |-> mailed, wrong |-> 0])
    /\ UNCHANGED <<now, accounts>>

RequestLink(email, mailed) == Ask(email, "link", mailed)
StartCode(email, purpose, mailed) == purpose \in CodePurposes /\ Ask(email, purpose, mailed)

(* verify_code's `usable`: the purpose is that of the door it came to.     *)
UsableAnywhere(i, door) == rows[i].purpose \in CodePurposes /\ Unspent(i)  \* mutant
Usable(i, door) == rows[i].purpose = door /\ door \in CodePurposes /\ Unspent(i)

(* _claim_account, in the transaction that spends the challenge.           *)
Spend(i) ==
    /\ rows' = [rows EXCEPT ![i].used = now]
    /\ accounts' = accounts \cup {rows[i].email}
    /\ UNCHANGED now

(* verify_code with the right code ...                                     *)
Answer(i, door) ==
    /\ i \in Ids
    /\ rows[i].mailed
    /\ Usable(i, door)
    /\ Spend(i)

(* ... and with a wrong one: counted in a transaction that commits, the    *)
(* row spent at the last attempt.                                          *)
CountedUncommitted(row) == [row EXCEPT !.wrong = @ + 1]  \* mutant: raised inside the transaction
Counted(row) ==
    [row EXCEPT !.attempts = @ + 1, !.wrong = @ + 1,
                !.used = IF row.attempts + 1 >= MaxAttempts THEN now ELSE @]

Guess(i, door) ==
    /\ i \in Ids
    /\ Usable(i, door)
    /\ rows' = [rows EXCEPT ![i] = Counted(@)]
    /\ UNCHANGED <<now, accounts>>

(* complete, its first transaction.                                        *)
FollowRepeatedly(i) == rows[i].purpose = "link" /\ rows[i].expires > now  \* mutant
Follow(i) == rows[i].purpose = "link" /\ Unspent(i)

SpendLink(i) ==
    /\ i \in Ids
    /\ rows[i].mailed
    /\ Follow(i)
    /\ Spend(i)

Tick ==
    /\ now + 1 \in Times
    /\ now' = now + 1
    /\ UNCHANGED <<rows, accounts>>
=============================================================================
