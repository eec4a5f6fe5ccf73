------------------------------ MODULE AccessProofs ------------------------------
(***************************************************************************)
(* Theorems about Access and the parts it composes, SignUp and             *)
(* SessionLimiter, for any addresses, clients, sessions and limits, and    *)
(* any number of challenges, tokens and restarts.                          *)
(***************************************************************************)
EXTENDS Access, FiniteSetTheorems, SequenceTheorems, TLAPS

----------------------------------------------------------------------------
(* The inductive invariants, one for each part *)

\* What is appended to is a sequence, what is counted is finite.
Typed ==
    /\ TypeOK
    /\ rows \in Seq(Challenge) /\ tokens \in Seq(Token) /\ sessions \in Seq(Session)
    /\ IsFiniteSet(codes)

\* A challenge that was not spent has attempts left, and the attempts are the
\* wrong codes it was compared with; an address has few that live.
ChallengesCount ==
    /\ \A i \in Ids : /\ rows[i].wrong = rows[i].attempts
                      /\ rows[i].used = NoTime => rows[i].attempts < MaxAttempts
    /\ \A email \in Emails : Cardinality(Live(email)) <= MaxLive

\* Spent by the right answer, with attempts to spare.
Answered(i) == i \in Ids /\ rows[i].used # NoTime /\ rows[i].wrong < MaxAttempts

\* Whatever opened a door was answered, and opened one of that kind only.
GrantsAreAnswers ==
    /\ \A t \in Minted : tokens[t].challenge # 0 => Answered(tokens[t].challenge)
    /\ \A s \in Issued : Answered(sessions[s].challenge)
    /\ \A i \in visits : Answered(i)
    /\ \A t, u \in Minted :
          tokens[t].challenge # 0 /\ tokens[t].challenge = tokens[u].challenge => t = u
    /\ \A s, u \in Issued : sessions[s].challenge = sessions[u].challenge => s = u

\* An authorization code in memory is the only one of its token, which nobody
\* asked for and nobody was shown.
CodesWait ==
    /\ \A code \in codes : /\ code.token \in Minted
                           /\ tokens[code.token].shown = 0
                           /\ tokens[code.token].tried = 0
    /\ \A c, d \in codes : c.token = d.token => c = d

\* last_seen_at lags behind the last use by no more than it may, the expiry is
\* an idle period after it, or the hard limit, and the cookie ends before both.
ExpiryFollowsUse ==
    \A s \in Issued :
        LET session == sessions[s]
        IN  /\ session.touched <= now
            /\ session.seen <= session.touched
            /\ session.touched <= session.seen + RefreshAfter
            /\ session.expires <= session.seen + IdleTtl
            /\ session.expires = session.seen + IdleTtl \/ session.expires >= session.hard
            /\ session.cookie <= now + IdleTtl
            /\ session.cookie <= session.expires /\ session.cookie <= session.hard

\* The table holds no more than the cap, and every session let through
\* recently at the instant it was.
TableFollowsUse ==
    \A u \in Holders :
        /\ IsFiniteSet(Kept(u, now))
        /\ SessionCap # 0 => /\ Cardinality(Kept(u, now)) <= SessionCap
                             /\ \A s \in Busy(u, now) : active[u][s] = served[u][s]

IInv ==
    /\ Typed
    /\ ChallengesCount
    /\ GrantsAreAnswers
    /\ AnswersOpenTheirDoor
    /\ CodesWait
    /\ HandedOverOnce
    /\ ExpiryFollowsUse
    /\ TableFollowsUse
    /\ IsFiniteSet(Known)

----------------------------------------------------------------------------
(* Counting *)

\* A part of a set that has at most n elements has at most n.
LEMMA PartsAreNoMore ==
    ASSUME NEW S, IsFiniteSet(S), NEW T \in SUBSET S, NEW n \in Int, Cardinality(S) <= n
    PROVE  IsFiniteSet(T) /\ Cardinality(T) \in Nat /\ Cardinality(T) <= n
  <1>1. IsFiniteSet(T) /\ Cardinality(T) <= Cardinality(S)
    BY FS_Subset
  <1>2. Cardinality(S) \in Nat /\ Cardinality(T) \in Nat
    BY <1>1, FS_CardinalityType
  <1> QED
    BY <1>1, <1>2

\* A set of fewer than n elements has room for one.
LEMMA OneMoreElement ==
    ASSUME NEW S, IsFiniteSet(S), NEW x, NEW n \in Int, Cardinality(S) < n
    PROVE  IsFiniteSet(S \cup {x}) /\ Cardinality(S \cup {x}) <= n
  <1>1. Cardinality(S) \in Nat
    BY FS_CardinalityType
  <1>2. /\ IsFiniteSet(S \cup {x})
        /\ Cardinality(S \cup {x}) = Cardinality(S)
           \/ Cardinality(S \cup {x}) = Cardinality(S) + 1
    BY FS_AddElement
  <1> QED
    BY <1>1, <1>2

----------------------------------------------------------------------------
(* The challenges *)

ChallengesMove ==
    \/ \E email \in Emails, purpose \in Purposes, mailed \in BOOLEAN : Ask(email, purpose, mailed)
    \/ \E i \in Ids, door \in CodePurposes : Guess(i, door)
    \/ Tick
    \/ \E i \in Ids : Unspent(i) /\ Spend(i)
    \/ UNCHANGED <<now, rows, accounts>>

\* Rows are never rewritten but to count a guess or to be spent, once.
RowsGrow ==
    /\ Len(rows) \in Nat /\ Len(rows') \in Nat /\ Len(rows) <= Len(rows')
    /\ \A i \in Ids :
          /\ rows'[i].email = rows[i].email
          /\ rows'[i].purpose = rows[i].purpose
          /\ rows'[i].mailed = rows[i].mailed
          /\ rows[i].used # NoTime => /\ rows'[i].used # NoTime
                                      /\ rows'[i].wrong = rows[i].wrong

\* Live challenges can be counted.
LEMMA IdsAreFinite ==
    ASSUME Typed
    PROVE  \A email : IsFiniteSet(Live(email)) /\ Cardinality(Live(email)) \in Nat
  <1>1. Len(rows) \in Nat
    BY DEF Typed
  <1>2. IsFiniteSet(Ids)
    BY <1>1, FS_Interval DEF Ids
  <1>3. \A email : Live(email) \in SUBSET Ids
    BY DEF Live
  <1> QED
    BY <1>2, <1>3, FS_Subset, FS_CardinalityType

\* A new row is the only one more that lives, and it is of its own address.
LEMMA AskStep ==
    ASSUME Typed, ChallengesCount,
           NEW email \in Emails, NEW purpose \in Purposes, NEW mailed \in BOOLEAN,
           Ask(email, purpose, mailed)
    PROVE  /\ SignUpTypeOK' /\ rows' \in Seq(Challenge)
           /\ ChallengesCount' /\ RowsGrow /\ now' = now
  <1> DEFINE row == [email |-> email, purpose |-> purpose,
                     expires |-> now + IF purpose = "link" THEN LinkTtl ELSE CodeTtl,
                     used |-> NoTime, attempts |-> 0, mailed |-> mailed, wrong |-> 0]
  <1>1. /\ rows \in Seq(Challenge) /\ Len(rows) \in Nat /\ Len(rows) < MaxChallenges
        /\ MaxChallenges \in Nat /\ MaxAttempts \in Nat \ {0} /\ MaxLive \in Nat
        /\ now \in Nat /\ now \in Times /\ accounts \subseteq Emails
    BY SignUpAssumption DEF Typed, TypeOK, SignUpTypeOK, Ask
  <1>2. /\ row \in Challenge
        /\ row.email = email /\ row.used = NoTime /\ row.attempts = 0 /\ row.wrong = 0
    BY <1>1, SignUpAssumption DEF Challenge
  <1>3. rows' = Append(rows, row) /\ now' = now /\ accounts' = accounts
    BY DEF Ask
  <1> HIDE DEF row
  <1>4. /\ rows' \in Seq(Challenge) /\ Len(rows') = Len(rows) + 1
        /\ \A i \in Ids : rows'[i] = rows[i]
        /\ rows'[Len(rows) + 1] = row
    BY <1>1, <1>2, <1>3 DEF Ids
  <1>5. Ids' = Ids \cup {Len(rows) + 1}
    BY <1>1, <1>4 DEF Ids
  <1>6. SignUpTypeOK'
    <2>1. \A i \in Ids' : rows'[i] \in Challenge
      BY <1>4, <1>5, <1>2, <1>1 DEF Typed, TypeOK, SignUpTypeOK
    <2>2. Len(rows)' <= MaxChallenges
      BY <1>1, <1>4
    <2> QED
      BY <2>1, <2>2, <1>1, <1>3 DEF SignUpTypeOK
  <1>7. \A i \in Ids' : (rows[i].wrong = rows[i].attempts)'
                        /\ (rows[i].used = NoTime => rows[i].attempts < MaxAttempts)'
    BY <1>1, <1>2, <1>4, <1>5 DEF ChallengesCount
  <1>8. ASSUME NEW e \in Emails PROVE Cardinality(Live(e)') <= MaxLive
    <2>1. IsFiniteSet(Live(e)) /\ Cardinality(Live(e)) \in Nat
      BY IdsAreFinite
    <2>2. CASE e = email
      <3>1. Live(e)' \in SUBSET (Live(e) \cup {Len(rows) + 1})
        BY <1>3, <1>4, <1>5 DEF Live, Unspent
      <3>2. Cardinality(Live(e)) < MaxLive
        BY <2>2 DEF Ask
      <3>3. /\ IsFiniteSet(Live(e) \cup {Len(rows) + 1})
            /\ Cardinality(Live(e) \cup {Len(rows) + 1}) <= MaxLive
        <4> DEFINE live == Live(e)
                   new == Len(rows) + 1
        <4>1. IsFiniteSet(live) /\ MaxLive \in Int /\ Cardinality(live) < MaxLive
          BY <1>1, <2>1, <3>2
        <4> HIDE DEF live, new
        <4>2. IsFiniteSet(live \cup {new}) /\ Cardinality(live \cup {new}) <= MaxLive
          BY <4>1, OneMoreElement
        <4> QED
          BY <4>2 DEF live, new
      <3> QED
        BY <1>1, <3>1, <3>3, PartsAreNoMore
    <2>3. CASE e # email
      <3>1. Live(e)' \in SUBSET Live(e)
        BY <1>2, <1>3, <1>4, <1>5, <2>3 DEF Live, Unspent
      <3>2. Cardinality(Live(e)) <= MaxLive
        BY DEF ChallengesCount
      <3> QED
        BY <1>1, <2>1, <3>1, <3>2, PartsAreNoMore
    <2> QED
      BY <2>2, <2>3
  <1>9. RowsGrow
    BY <1>1, <1>4 DEF RowsGrow
  <1> QED
    BY <1>3, <1>4, <1>6, <1>7, <1>8, <1>9 DEF ChallengesCount

\* What does not write a row leaves no more of them alive than there were.
LEMMA FewStayLive ==
    ASSUME Typed, ChallengesCount, Ids' = Ids, now' \in Nat, now' >= now,
           \A i \in Ids : /\ rows'[i].email = rows[i].email
                          /\ rows'[i].expires = rows[i].expires
                          /\ rows[i].used # NoTime => rows'[i].used # NoTime
    PROVE  \A email \in Emails : Cardinality(Live(email)') <= MaxLive
  <1> SUFFICES ASSUME NEW email \in Emails PROVE Cardinality(Live(email)') <= MaxLive
    OBVIOUS
  <1>1. Live(email)' \in SUBSET Live(email)
    <2>1. \A i \in Ids : rows[i].expires \in Nat
      BY DEF Typed, TypeOK, SignUpTypeOK, Challenge
    <2>2. now \in Nat
      BY SignUpAssumption DEF Typed, TypeOK, SignUpTypeOK
    <2>3. \A i \in Ids : Unspent(i)' => Unspent(i)
      BY <2>1, <2>2 DEF Unspent
    <2> QED
      BY <2>3 DEF Live
  <1>2. IsFiniteSet(Live(email)) /\ Cardinality(Live(email)) \in Nat
    BY IdsAreFinite
  <1>3. Cardinality(Live(email)) <= MaxLive
    BY DEF ChallengesCount
  <1> QED
    BY <1>1, <1>2, <1>3, PartsAreNoMore, SignUpAssumption

\* The last wrong guess spends the row, and none is compared after it.
LEMMA GuessStep ==
    ASSUME Typed, ChallengesCount, NEW i \in Ids, NEW door \in CodePurposes, Guess(i, door)
    PROVE  /\ SignUpTypeOK' /\ rows' \in Seq(Challenge)
           /\ ChallengesCount' /\ RowsGrow /\ now' = now
  <1>1. /\ rows \in Seq(Challenge) /\ Len(rows) \in Nat /\ now \in Times /\ now \in Nat
        /\ Len(rows) <= MaxChallenges /\ accounts \subseteq Emails
        /\ MaxAttempts \in Nat \ {0}
    BY SignUpAssumption DEF Typed, TypeOK, SignUpTypeOK
  <1>2. /\ rows[i] \in Challenge /\ rows[i].used = NoTime
        /\ rows[i].wrong = rows[i].attempts /\ rows[i].attempts < MaxAttempts
        /\ rows[i].attempts \in Nat /\ rows[i].wrong \in Nat
    BY DEF Typed, TypeOK, SignUpTypeOK, ChallengesCount, Guess, Usable, Unspent, Challenge
  <1> DEFINE row == Counted(rows[i])
  <1>3. row \in Challenge
    <2>1. /\ rows[i].attempts + 1 \in 0..MaxAttempts /\ rows[i].wrong + 1 \in Nat
          /\ (IF rows[i].attempts + 1 >= MaxAttempts THEN now ELSE rows[i].used)
                \in Times \cup {NoTime}
      BY <1>1, <1>2
    <2> QED
      BY <1>2, <2>1 DEF Counted, Challenge
  <1>4. /\ row.email = rows[i].email /\ row.purpose = rows[i].purpose
        /\ row.mailed = rows[i].mailed /\ row.expires = rows[i].expires
        /\ row.attempts = rows[i].attempts + 1 /\ row.wrong = rows[i].wrong + 1
        /\ row.used = IF rows[i].attempts + 1 >= MaxAttempts THEN now ELSE rows[i].used
    BY <1>2 DEF Counted, Challenge
  <1>5. rows' = [rows EXCEPT ![i] = row] /\ now' = now /\ accounts' = accounts
    BY DEF Guess
  <1> HIDE DEF row
  <1>6. /\ rows' \in Seq(Challenge) /\ Len(rows') = Len(rows)
        /\ rows'[i] = row /\ \A k \in Ids \ {i} : rows'[k] = rows[k]
    BY <1>1, <1>3, <1>5 DEF Ids
  <1>7. Ids' = Ids
    BY <1>6 DEF Ids
  <1>8. SignUpTypeOK'
    BY <1>1, <1>3, <1>5, <1>6, <1>7 DEF Typed, TypeOK, SignUpTypeOK
  <1>9. \A k \in Ids' : (rows[k].wrong = rows[k].attempts)'
                        /\ (rows[k].used = NoTime => rows[k].attempts < MaxAttempts)'
    <2>1. row.used = NoTime => row.attempts < MaxAttempts
      BY <1>1, <1>2, <1>4 DEF NoTime
    <2>2. row.wrong = row.attempts
      BY <1>2, <1>4
    <2> QED
      BY <1>6, <1>7, <2>1, <2>2 DEF ChallengesCount
  <1>10. /\ RowsGrow
         /\ \A k \in Ids : rows'[k].expires = rows[k].expires
    BY <1>1, <1>2, <1>4, <1>6 DEF RowsGrow
  <1>11. \A email \in Emails : Cardinality(Live(email)') <= MaxLive
    BY <1>1, <1>5, <1>7, <1>10, FewStayLive DEF RowsGrow
  <1> QED
    BY <1>5, <1>6, <1>8, <1>9, <1>10, <1>11 DEF ChallengesCount

\* A row is spent with attempts to spare, and stays spent.
LEMMA SpendStep ==
    ASSUME Typed, ChallengesCount, NEW i \in Ids, Unspent(i), Spend(i)
    PROVE  /\ SignUpTypeOK' /\ rows' \in Seq(Challenge) /\ now' = now
           /\ ChallengesCount' /\ RowsGrow /\ Answered(i)'
  <1>1. /\ rows \in Seq(Challenge) /\ Len(rows) \in Nat /\ now \in Times /\ now \in Nat
        /\ Len(rows) <= MaxChallenges /\ accounts \subseteq Emails
    BY SignUpAssumption DEF Typed, TypeOK, SignUpTypeOK
  <1>2. /\ rows[i] \in Challenge /\ rows[i].used = NoTime /\ rows[i].email \in Emails
        /\ rows[i].wrong = rows[i].attempts /\ rows[i].attempts < MaxAttempts
    BY DEF Typed, TypeOK, SignUpTypeOK, ChallengesCount, Unspent, Challenge
  <1> DEFINE row == [rows[i] EXCEPT !.used = now]
  <1>3. /\ row \in Challenge
        /\ row.email = rows[i].email /\ row.purpose = rows[i].purpose
        /\ row.mailed = rows[i].mailed /\ row.expires = rows[i].expires
        /\ row.attempts = rows[i].attempts /\ row.wrong = rows[i].wrong /\ row.used = now
    BY <1>1, <1>2 DEF Challenge
  <1>4. rows' = [rows EXCEPT ![i] = row] /\ now' = now /\ accounts' = accounts \cup {rows[i].email}
    BY DEF Spend
  <1> HIDE DEF row
  <1>5. /\ rows' \in Seq(Challenge) /\ Len(rows') = Len(rows)
        /\ rows'[i] = row /\ \A k \in Ids \ {i} : rows'[k] = rows[k]
    BY <1>1, <1>3, <1>4 DEF Ids
  <1>6. Ids' = Ids
    BY <1>5 DEF Ids
  <1>7. SignUpTypeOK'
    BY <1>1, <1>2, <1>3, <1>4, <1>5, <1>6 DEF Typed, TypeOK, SignUpTypeOK
  <1>8. now # NoTime
    BY <1>1 DEF NoTime
  <1>9. \A k \in Ids' : (rows[k].wrong = rows[k].attempts)'
                        /\ (rows[k].used = NoTime => rows[k].attempts < MaxAttempts)'
    BY <1>2, <1>3, <1>5, <1>6, <1>8 DEF ChallengesCount
  <1>10. /\ RowsGrow
         /\ \A k \in Ids : rows'[k].expires = rows[k].expires
    BY <1>1, <1>2, <1>3, <1>5, <1>8 DEF RowsGrow
  <1>11. \A email \in Emails : Cardinality(Live(email)') <= MaxLive
    BY <1>1, <1>4, <1>6, <1>10, FewStayLive DEF RowsGrow
  <1>12. Answered(i)'
    BY <1>2, <1>3, <1>5, <1>6, <1>8 DEF Answered
  <1> QED
    BY <1>4, <1>5, <1>7, <1>9, <1>10, <1>11, <1>12 DEF ChallengesCount

\* The challenges count as they should after any step.
LEMMA ChallengesStep ==
    ASSUME Typed, ChallengesCount, ChallengesMove
    PROVE  /\ SignUpTypeOK' /\ rows' \in Seq(Challenge)
           /\ ChallengesCount' /\ RowsGrow /\ now' >= now
  <1>1. now \in Nat /\ now \in Times /\ Len(rows) \in Nat
    BY SignUpAssumption DEF Typed, TypeOK, SignUpTypeOK
  <1>2. CASE now' \in Times /\ now' >= now /\ rows' = rows /\ accounts' = accounts
    <2>1. Ids' = Ids /\ now' \in Nat
      BY <1>2, SignUpAssumption DEF Ids
    <2>2. RowsGrow
      BY <1>1, <1>2 DEF RowsGrow
    <2>3. \A email \in Emails : Cardinality(Live(email)') <= MaxLive
      BY <1>2, <2>1, FewStayLive
    <2>4. SignUpTypeOK' /\ rows' \in Seq(Challenge)
      BY <1>2, <2>1 DEF Typed, TypeOK, SignUpTypeOK
    <2> QED
      BY <1>2, <2>1, <2>2, <2>3, <2>4 DEF ChallengesCount
  <1>3. CASE Tick
    BY <1>1, <1>2, <1>3 DEF Tick
  <1>4. CASE UNCHANGED <<now, rows, accounts>>
    BY <1>1, <1>2, <1>4
  <1>5. CASE \E email \in Emails, purpose \in Purposes, mailed \in BOOLEAN :
                 Ask(email, purpose, mailed)
    BY <1>1, <1>5, AskStep
  <1>6. CASE \E i \in Ids, door \in CodePurposes : Guess(i, door)
    BY <1>1, <1>6, GuessStep
  <1>7. CASE \E i \in Ids : Unspent(i) /\ Spend(i)
    BY <1>1, <1>7, SpendStep
  <1> QED
    BY <1>3, <1>4, <1>5, <1>6, <1>7 DEF ChallengesMove

----------------------------------------------------------------------------
(* The doors *)

\* The step leaves challenge i spent by its right answer.
AnsweredNow(i) == i \in Ids' /\ rows'[i].used # NoTime /\ rows'[i].wrong < MaxAttempts

\* A challenge that is being answered now, at one of these doors.
Opened(i, doors) ==
    /\ i \in Ids /\ Unspent(i) /\ AnsweredNow(i)
    /\ rows[i].mailed /\ rows[i].purpose \in doors

TokensTyped ==
    tokens \in Seq(Token) /\ Len(tokens) <= MaxTokens /\ \A t \in Minted : tokens[t] \in Token

SessionsTyped ==
    /\ sessions \in Seq(Session) /\ Len(sessions) <= MaxSessions
    /\ \A s \in Issued : sessions[s] \in Session

TokensGrow ==
    /\ Minted \subseteq Minted'
    /\ \A t \in Minted' :
          \/ /\ t \in Minted
             /\ tokens'[t].email = tokens[t].email
             /\ tokens'[t].challenge = tokens[t].challenge
             /\ tokens'[t].parent = tokens[t].parent
          \/ /\ t = Len(tokens) + 1
             /\ \/ /\ tokens'[t].challenge = 0
                   /\ tokens'[t].parent \in Minted
                   /\ tokens'[t].email = tokens[tokens'[t].parent].email
                \/ /\ Opened(tokens'[t].challenge, {"link", "code"})
                   /\ tokens'[t].email = rows[tokens'[t].challenge].email

SessionsGrow ==
    \A s \in Issued' :
        \/ /\ s \in Issued
           /\ sessions'[s].email = sessions[s].email
           /\ sessions'[s].challenge = sessions[s].challenge
        \/ /\ s = Len(sessions) + 1
           /\ Opened(sessions'[s].challenge, {"login"})
           /\ sessions'[s].email = rows[sessions'[s].challenge].email

VisitsGrow == \A i \in visits' : i \in visits \/ Opened(i, {"billing"})

\* What an answer opened stays answered, by the same challenge, and a challenge
\* that is opened now had opened nothing.
LEMMA AnswersStand ==
    ASSUME RowsGrow
    PROVE  /\ Ids \subseteq Ids'
           /\ \A i : Answered(i) => /\ Answered(i)' /\ ~Unspent(i)
                                    /\ rows'[i].email = rows[i].email
                                    /\ rows'[i].purpose = rows[i].purpose
                                    /\ rows'[i].mailed = rows[i].mailed
  <1>1. Ids \subseteq Ids'
    BY DEF RowsGrow, Ids
  <1> QED
    BY <1>1 DEF RowsGrow, Answered, Unspent

\* What was opened stays opened by its answer, and what opens now is opened
\* by a challenge that had opened nothing.
LEMMA GrantsStep ==
    ASSUME Typed, RowsGrow, GrantsAreAnswers, AnswersOpenTheirDoor,
           TokensGrow, SessionsGrow, VisitsGrow
    PROVE  GrantsAreAnswers' /\ AnswersOpenTheirDoor'
  <1>1. Len(tokens) \in Nat /\ Len(sessions) \in Nat
    BY DEF Typed
  <1>2. /\ Ids \subseteq Ids'
        /\ \A i : Answered(i) => /\ Answered(i)' /\ ~Unspent(i)
                                 /\ rows'[i].email = rows[i].email
                                 /\ rows'[i].purpose = rows[i].purpose
                                 /\ rows'[i].mailed = rows[i].mailed
    BY AnswersStand
  <1>3. \A i, doors : Opened(i, doors) => /\ Answered(i)' /\ Unspent(i) /\ i # 0
                                          /\ rows'[i].email = rows[i].email
                                          /\ rows'[i].purpose \in doors /\ rows'[i].mailed
    BY DEF Opened, AnsweredNow, Answered, RowsGrow, Ids
  <1>4. \A t \in Minted : /\ t \in Minted' /\ t # Len(tokens) + 1
                          /\ tokens'[t].email = tokens[t].email
                          /\ tokens'[t].challenge = tokens[t].challenge
                          /\ tokens'[t].parent = tokens[t].parent
    <2>1. \A t \in Minted : t # Len(tokens) + 1
      BY <1>1 DEF Minted
    <2> QED
      BY <2>1 DEF TokensGrow
  <1>5. ASSUME NEW t \in Minted', t \notin Minted
        PROVE  /\ t = Len(tokens) + 1
               /\ \/ /\ tokens'[t].challenge = 0
                     /\ tokens'[t].parent \in Minted
                     /\ tokens'[t].email = tokens[tokens'[t].parent].email
                  \/ /\ Opened(tokens'[t].challenge, {"link", "code"})
                     /\ tokens'[t].email = rows[tokens'[t].challenge].email
    BY <1>5 DEF TokensGrow
  <1>6. \A s \in Issued' : s \in Issued \/ s = Len(sessions) + 1
    BY DEF SessionsGrow
  <1>7. \A s \in Issued : s # Len(sessions) + 1
    BY <1>1 DEF Issued
  <1>8. GrantsAreAnswers'
    <2>1. \A t \in Minted' : (tokens[t].challenge # 0 => Answered(tokens[t].challenge))'
      <3> SUFFICES ASSUME NEW t \in Minted', tokens'[t].challenge # 0
                   PROVE  Answered(tokens[t].challenge)'
        OBVIOUS
      <3>1. CASE t \in Minted
        BY <1>2, <1>4, <3>1 DEF GrantsAreAnswers
      <3>2. CASE t \notin Minted
        BY <1>3, <1>5, <3>2
      <3> QED
        BY <3>1, <3>2
    <2>2. \A s \in Issued' : Answered(sessions[s].challenge)'
      BY <1>2, <1>3 DEF SessionsGrow, GrantsAreAnswers
    <2>3. \A i \in visits' : Answered(i)'
      BY <1>2, <1>3 DEF VisitsGrow, GrantsAreAnswers
    <2>4. ASSUME NEW t \in Minted', NEW u \in Minted', tokens'[t].challenge # 0,
                 tokens'[t].challenge = tokens'[u].challenge
          PROVE  t = u
      <3>1. CASE t \in Minted /\ u \in Minted
        BY <1>4, <2>4, <3>1 DEF GrantsAreAnswers
      <3>2. CASE t \notin Minted /\ u \notin Minted
        BY <1>5, <3>2
      <3>3. \A v \in Minted, w \in Minted' :
               w \notin Minted /\ tokens'[w].challenge # 0
               => tokens'[v].challenge # tokens'[w].challenge
        <4> SUFFICES ASSUME NEW v \in Minted, NEW w \in Minted',
                            w \notin Minted, tokens'[w].challenge # 0,
                            tokens'[v].challenge = tokens'[w].challenge
                     PROVE  FALSE
          OBVIOUS
        <4>1. Unspent(tokens'[w].challenge)
          BY <1>3, <1>5
        <4>2. Answered(tokens[v].challenge) /\ tokens'[v].challenge = tokens[v].challenge
          BY <1>4 DEF GrantsAreAnswers
        <4> QED
          BY <1>2, <4>1, <4>2
      <3> QED
        BY <2>4, <3>1, <3>2, <3>3
    <2>5. ASSUME NEW s \in Issued', NEW u \in Issued',
                 sessions'[s].challenge = sessions'[u].challenge
          PROVE  s = u
      <3>1. CASE s \in Issued /\ u \in Issued
        BY <1>7, <2>5, <3>1 DEF SessionsGrow, GrantsAreAnswers
      <3>2. CASE s \notin Issued /\ u \notin Issued
        BY <1>6, <3>2
      <3>3. \A v, w \in Issued' : v \in Issued /\ w \notin Issued
                                  => sessions'[v].challenge # sessions'[w].challenge
        <4> SUFFICES ASSUME NEW v \in Issued', NEW w \in Issued',
                            v \in Issued, w \notin Issued,
                            sessions'[v].challenge = sessions'[w].challenge
                     PROVE  FALSE
          OBVIOUS
        <4>1. Unspent(sessions'[w].challenge)
          BY <1>3 DEF SessionsGrow
        <4>2. Answered(sessions[v].challenge) /\ sessions'[v].challenge = sessions[v].challenge
          BY <1>7 DEF GrantsAreAnswers, SessionsGrow
        <4> QED
          BY <1>2, <4>1, <4>2
      <3> QED
        BY <2>5, <3>1, <3>2, <3>3
    <2> QED
      BY <2>1, <2>2, <2>3, <2>4, <2>5 DEF GrantsAreAnswers
  <1>9. AnswersOpenTheirDoor'
    <2>1. ASSUME NEW t \in Minted', tokens'[t].challenge # 0
          PROVE  /\ rows'[tokens'[t].challenge].mailed
                 /\ rows'[tokens'[t].challenge].purpose \in {"link", "code"}
                 /\ rows'[tokens'[t].challenge].email = tokens'[t].email
      <3>1. CASE t \in Minted
        <4>1. Answered(tokens[t].challenge) /\ tokens[t].challenge # 0
          BY <1>4, <2>1, <3>1 DEF GrantsAreAnswers
        <4>2. /\ rows[tokens[t].challenge].mailed
              /\ rows[tokens[t].challenge].purpose \in {"link", "code"}
              /\ rows[tokens[t].challenge].email = tokens[t].email
          BY <3>1, <4>1 DEF AnswersOpenTheirDoor
        <4> QED
          BY <1>2, <1>4, <3>1, <4>1, <4>2
      <3>2. CASE t \notin Minted
        BY <1>3, <1>5, <2>1, <3>2
      <3> QED
        BY <3>1, <3>2
    <2>2. ASSUME NEW t \in Minted', tokens'[t].challenge = 0
          PROVE  /\ tokens'[t].parent \in 1..(t - 1)
                 /\ tokens'[tokens'[t].parent].email = tokens'[t].email
      <3>1. CASE t \in Minted
        <4>1. /\ tokens[t].parent \in 1..(t - 1)
              /\ tokens[tokens[t].parent].email = tokens[t].email
          BY <1>4, <2>2, <3>1 DEF AnswersOpenTheirDoor
        <4>2. tokens[t].parent \in Minted
          BY <1>1, <3>1, <4>1 DEF Minted
        <4> QED
          BY <1>4, <3>1, <4>1, <4>2
      <3>2. CASE t \notin Minted
        <4>1. /\ t = Len(tokens) + 1 /\ tokens'[t].parent \in Minted
              /\ tokens'[t].email = tokens[tokens'[t].parent].email
          BY <1>3, <1>5, <2>2, <3>2
        <4>2. tokens'[t].parent \in 1..(t - 1)
          BY <1>1, <4>1 DEF Minted
        <4> QED
          BY <1>4, <4>1, <4>2
      <3> QED
        BY <3>1, <3>2
    <2>3. ASSUME NEW s \in Issued'
          PROVE  /\ rows'[sessions'[s].challenge].mailed
                 /\ rows'[sessions'[s].challenge].purpose = "login"
                 /\ rows'[sessions'[s].challenge].email = sessions'[s].email
      <3>1. CASE s \in Issued
        <4>1. Answered(sessions[s].challenge)
          BY <3>1 DEF GrantsAreAnswers
        <4>2. /\ rows[sessions[s].challenge].mailed
              /\ rows[sessions[s].challenge].purpose = "login"
              /\ rows[sessions[s].challenge].email = sessions[s].email
          BY <3>1 DEF AnswersOpenTheirDoor
        <4>3. /\ sessions'[s].challenge = sessions[s].challenge
              /\ sessions'[s].email = sessions[s].email
          BY <1>7, <3>1 DEF SessionsGrow
        <4> QED
          BY <1>2, <4>1, <4>2, <4>3
      <3>2. CASE s \notin Issued
        BY <1>3, <3>2 DEF SessionsGrow
      <3> QED
        BY <3>1, <3>2
    <2>4. \A i \in visits' : rows'[i].mailed /\ rows'[i].purpose = "billing"
      BY <1>2, <1>3 DEF VisitsGrow, GrantsAreAnswers, AnswersOpenTheirDoor
    <2> QED
      BY <2>1, <2>2, <2>3, <2>4 DEF AnswersOpenTheirDoor
  <1> QED
    BY <1>8, <1>9

----------------------------------------------------------------------------
(* Tokens and authorization codes *)

\* A mint appends one row.
LEMMA MintStep ==
    ASSUME Typed, NEW email \in Emails, NEW challenge \in 0..MaxChallenges,
           NEW parent \in 0..MaxTokens, NEW shown \in {0, 1},
           Mint(email, challenge, parent, shown)
    PROVE  /\ TokensTyped'
           /\ Len(tokens) \in Nat /\ Len(tokens) < MaxTokens
           /\ Minted' = Minted \cup {Len(tokens) + 1} /\ Len(tokens) + 1 \notin Minted
           /\ \A t \in Minted : tokens'[t] = tokens[t]
           /\ tokens'[Len(tokens) + 1].email = email
           /\ tokens'[Len(tokens) + 1].challenge = challenge
           /\ tokens'[Len(tokens) + 1].parent = parent
           /\ tokens'[Len(tokens) + 1].shown = shown
           /\ tokens'[Len(tokens) + 1].tried = 0
  <1> DEFINE token == [email |-> email, challenge |-> challenge, parent |-> parent,
                       revoked |-> FALSE, tried |-> 0, shown |-> shown]
  <1>1. /\ tokens \in Seq(Token) /\ Len(tokens) \in Nat /\ Len(tokens) < MaxTokens
        /\ MaxTokens \in Nat /\ \A t \in Minted : tokens[t] \in Token
    BY AccessAssumption DEF Typed, TypeOK, Mint
  <1>2. /\ token \in Token /\ token.email = email /\ token.challenge = challenge
        /\ token.parent = parent /\ token.shown = shown /\ token.tried = 0
    BY DEF Token
  <1>3. tokens' = Append(tokens, token)
    BY DEF Mint
  <1> HIDE DEF token
  <1>4. /\ tokens' \in Seq(Token) /\ Len(tokens') = Len(tokens) + 1
        /\ \A t \in Minted : tokens'[t] = tokens[t]
        /\ tokens'[Len(tokens) + 1] = token
    BY <1>1, <1>2, <1>3 DEF Minted
  <1>5. Minted' = Minted \cup {Len(tokens) + 1} /\ Len(tokens) + 1 \notin Minted
    BY <1>1, <1>4 DEF Minted
  <1>6. TokensTyped'
    <2>1. Len(tokens)' <= MaxTokens
      BY <1>1, <1>4
    <2>2. \A t \in Minted' : tokens'[t] \in Token
      BY <1>1, <1>2, <1>4, <1>5
    <2> QED
      BY <1>4, <2>1, <2>2 DEF TokensTyped
  <1> QED
    BY <1>1, <1>2, <1>4, <1>5, <1>6

CodesTyped == codes \subseteq Code /\ Cardinality(codes) <= MaxCodes /\ IsFiniteSet(codes)

\* Each token is as much asked for and shown as it was, or it is new.
UsesKept ==
    /\ Minted \subseteq Minted'
    /\ \A t \in Minted' :
          \/ t \in Minted /\ tokens'[t].shown = tokens[t].shown /\ tokens'[t].tried = tokens[t].tried
          \/ t = Len(tokens) + 1 /\ tokens'[t].shown \in {0, 1} /\ tokens'[t].tried = 0

\* Nothing but a redemption asks for a token, and forgetting codes is safe.
LEMMA CodesForgotten ==
    ASSUME Typed, CodesWait, HandedOverOnce, UsesKept, codes' \in SUBSET codes
    PROVE  CodesTyped' /\ CodesWait' /\ HandedOverOnce'
  <1>1. /\ codes \subseteq Code /\ IsFiniteSet(codes) /\ Cardinality(codes) <= MaxCodes
        /\ MaxCodes \in Int /\ Len(tokens) \in Nat
    BY AccessAssumption DEF Typed, TypeOK
  <1>2. CodesTyped'
    BY <1>1, PartsAreNoMore DEF CodesTyped
  <1>3. \A t \in Minted : tokens'[t].shown = tokens[t].shown /\ tokens'[t].tried = tokens[t].tried
    <2>1. \A t \in Minted : t # Len(tokens) + 1
      BY <1>1 DEF Minted
    <2> QED
      BY <2>1 DEF UsesKept
  <1>4. CodesWait'
    BY <1>3 DEF CodesWait, UsesKept
  <1>5. HandedOverOnce'
    BY DEF HandedOverOnce, UsesKept
  <1> QED
    BY <1>2, <1>4, <1>5

\* Collecting leaves room for one: a code that is left has fewer than
\* MaxCodes - 1 of later tokens, and no two have as many.
LEMMA CollectedAreFew ==
    ASSUME Typed, CodesWait
    PROVE  /\ Collected \in SUBSET codes
           /\ IsFiniteSet(Collected) /\ Cardinality(Collected) < MaxCodes
  <1> DEFINE live == {code \in codes : code.created + OAuthTtl >= now}
             Newer(code) == {other \in live : other.token > code.token}
             Rank == [code \in Collected |-> Cardinality(Newer(code))]
  <1>1. Collected = {code \in live : Cardinality(Newer(code)) < MaxCodes - 1}
    BY DEF Collected
  <1>2. /\ Collected \in SUBSET codes /\ live \in SUBSET codes /\ Collected \in SUBSET live
        /\ IsFiniteSet(codes) /\ MaxCodes \in Nat \ {0} /\ codes \subseteq Code
    BY <1>1, AccessAssumption DEF Typed, TypeOK
  <1>3. IsFiniteSet(live) /\ IsFiniteSet(Collected)
    <2> HIDE DEF live
    <2> QED
      BY <1>2, FS_Subset
  <1>4. \A code : IsFiniteSet(Newer(code)) /\ Cardinality(Newer(code)) \in Nat
    <2>1. \A code : Newer(code) \in SUBSET live
      OBVIOUS
    <2> HIDE DEF live, Newer
    <2> QED
      BY <1>3, <2>1, FS_Subset, FS_CardinalityType
  <1>5. \A code \in codes : code.token \in Nat
    <2>1. \A code \in codes : code.token \in 1..MaxTokens
      BY <1>2 DEF Code
    <2> QED
      BY <2>1
  <1>6. ASSUME NEW c \in live, NEW d \in live, c.token < d.token
        PROVE  Cardinality(Newer(c)) # Cardinality(Newer(d))
    <2>1. Newer(d) \in SUBSET Newer(c)
      <3>1. \A other \in live : other.token > d.token => other.token > c.token
        BY <1>2, <1>5, <1>6
      <3> QED
        BY <3>1
    <2>2. d \in Newer(c) /\ d \notin Newer(d)
      BY <1>2, <1>5, <1>6
    <2> HIDE DEF live, Newer
    <2> QED
      BY <1>4, <2>1, <2>2, FS_Subset
  <1>7. Rank \in [Collected -> 0..(MaxCodes - 2)]
    <2>1. \A code \in Collected : Cardinality(Newer(code)) < MaxCodes - 1
      BY <1>1
    <2>2. \A code \in Collected : Cardinality(Newer(code)) \in 0..(MaxCodes - 2)
      <3> HIDE DEF Newer
      <3> QED
        BY <1>2, <1>4, <2>1
    <2> QED
      BY <2>2
  <1>8. \A c, d \in Collected : Rank[c] = Rank[d] => c = d
    <2> SUFFICES ASSUME NEW c \in Collected, NEW d \in Collected, Rank[c] = Rank[d], c # d
                 PROVE  FALSE
      OBVIOUS
    <2>1. c \in live /\ d \in live /\ c \in codes /\ d \in codes
      BY <1>2
    <2>2. c.token < d.token \/ d.token < c.token
      BY <1>5, <2>1 DEF CodesWait
    <2>3. Cardinality(Newer(c)) = Cardinality(Newer(d))
      OBVIOUS
    <2> HIDE DEF live, Newer, Rank
    <2> QED
      BY <1>6, <2>1, <2>2, <2>3
  <1>9. Rank \in Injection(Collected, 0..(MaxCodes - 2))
    BY <1>7, <1>8 DEF Injection, IsInjective
  <1>10. IsFiniteSet(0..(MaxCodes - 2)) /\ Cardinality(0..(MaxCodes - 2)) = MaxCodes - 1
    BY <1>2, FS_Interval
  <1>11. Cardinality(Collected) <= Cardinality(0..(MaxCodes - 2))
    <2> HIDE DEF Rank
    <2> QED
      BY <1>9, <1>10, FS_Injection
  <1>12. Cardinality(Collected) \in Nat
    BY <1>3, FS_CardinalityType
  <1> QED
    BY <1>2, <1>3, <1>10, <1>11, <1>12

\* A code is issued for the token minted with it, which no other code is for.
LEMMA CodeIssued ==
    ASSUME Typed, CodesWait, HandedOverOnce,
           NEW email \in Emails, NEW challenge \in 0..MaxChallenges, NEW parent \in 0..MaxTokens,
           Mint(email, challenge, parent, 0),
           NEW redirect \in AllowedHosts, NEW verifier \in Verifiers,
           codes' = Collected \cup {[token |-> Len(tokens) + 1, redirect |-> redirect,
                                     verifier |-> verifier, created |-> now]}
    PROVE  CodesTyped' /\ CodesWait' /\ HandedOverOnce'
  <1> DEFINE new == [token |-> Len(tokens) + 1, redirect |-> redirect,
                     verifier |-> verifier, created |-> now]
  <1>1. /\ Len(tokens) \in Nat /\ Len(tokens) < MaxTokens
        /\ Minted' = Minted \cup {Len(tokens) + 1} /\ Len(tokens) + 1 \notin Minted
        /\ \A t \in Minted : tokens'[t] = tokens[t]
        /\ tokens'[Len(tokens) + 1].shown = 0
        /\ tokens'[Len(tokens) + 1].tried = 0
    BY MintStep
  <1>2. /\ Collected \in SUBSET codes
        /\ IsFiniteSet(Collected) /\ Cardinality(Collected) < MaxCodes
    BY CollectedAreFew
  <1>3. MaxCodes \in Int /\ MaxTokens \in Nat /\ now \in Times /\ codes \subseteq Code
    BY AccessAssumption DEF Typed, TypeOK, SignUpTypeOK
  <1>4. new \in Code /\ new.token = Len(tokens) + 1
    BY <1>1, <1>3 DEF Code
  <1>5. codes' = Collected \cup {new}
    OBVIOUS
  <1> HIDE DEF new
  <1>6. CodesTyped'
    <2>1. IsFiniteSet(codes') /\ Cardinality(codes') <= MaxCodes
      BY <1>2, <1>3, <1>5, OneMoreElement
    <2> QED
      BY <1>2, <1>3, <1>4, <1>5, <2>1 DEF CodesTyped
  <1>7. CodesWait'
    <2>1. \A code \in Collected : /\ code.token \in Minted
                                  /\ tokens[code.token].shown = 0
                                  /\ tokens[code.token].tried = 0
      BY <1>2 DEF CodesWait
    <2>2. \A c, d \in Collected : c.token = d.token => c = d
      BY <1>2 DEF CodesWait
    <2>3. \A code \in codes' : /\ code.token \in Minted'
                               /\ tokens'[code.token].shown = 0
                               /\ tokens'[code.token].tried = 0
      BY <1>1, <1>4, <1>5, <2>1
    <2>4. \A c, d \in codes' : c.token = d.token => c = d
      BY <1>1, <1>4, <1>5, <2>1, <2>2
    <2> QED
      BY <2>3, <2>4 DEF CodesWait
  <1>8. HandedOverOnce'
    BY <1>1 DEF HandedOverOnce
  <1> QED
    BY <1>6, <1>7, <1>8

\* A request takes the code with it, so its token is never asked for again.
LEMMA RedeemStep ==
    ASSUME Typed, CodesWait, HandedOverOnce, NEW code \in codes,
           NEW redirect \in Redirects, NEW verifier \in Verifiers,
           Redeem(code, redirect, verifier)
    PROVE  /\ TokensTyped' /\ CodesTyped' /\ CodesWait' /\ HandedOverOnce' /\ TokensGrow
  <1> DEFINE found == code \in Collected
             matches == code.redirect = redirect /\ code.verifier = verifier
             n == code.token
             shown == IF matches THEN tokens[n].shown + 1 ELSE tokens[n].shown
             token == [tokens[n] EXCEPT !.tried = tokens[n].tried + 1, !.shown = shown]
  <1>1. /\ tokens \in Seq(Token) /\ Len(tokens) \in Nat /\ Len(tokens) <= MaxTokens
        /\ \A t \in Minted : tokens[t] \in Token
        /\ MaxCodes \in Int /\ codes \subseteq Code /\ IsFiniteSet(codes)
        /\ Cardinality(codes) <= MaxCodes
    BY AccessAssumption DEF Typed, TypeOK
  <1>2. /\ n \in Minted /\ tokens[n] \in Token /\ tokens[n].shown = 0 /\ tokens[n].tried = 0
    BY <1>1 DEF CodesWait
  <1>3. codes' = Collected \ {code}
    BY DEF Redeem, Remaining
  <1>4. codes' \in SUBSET codes
    BY <1>3, CollectedAreFew
  <1>5. CASE ~found
    <2>1. tokens' = tokens
      BY <1>5 DEF Redeem
    <2>2. Minted' = Minted
      BY <2>1 DEF Minted
    <2>3. UsesKept
      BY <2>1, <2>2 DEF UsesKept
    <2>4. CodesTyped' /\ CodesWait' /\ HandedOverOnce'
      BY <1>4, <2>3, CodesForgotten
    <2> QED
      BY <1>1, <2>1, <2>2, <2>4 DEF TokensTyped, TokensGrow
  <1>6. CASE found
    <2>1. /\ token \in Token /\ token.email = tokens[n].email
          /\ token.challenge = tokens[n].challenge /\ token.parent = tokens[n].parent
          /\ token.tried = 1 /\ token.shown \in {0, 1}
      <3>1. shown \in {0, 1} /\ shown \in Nat /\ tokens[n].tried + 1 = 1
        BY <1>2
      <3> DEFINE asked == tokens[n].tried + 1
                 old == tokens[n]
      <3>2. asked \in Nat /\ asked = 1 /\ old \in Token
        BY <1>2, <3>1
      <3>3. token = [old EXCEPT !.tried = asked, !.shown = shown]
        OBVIOUS
      <3> HIDE DEF shown, n, asked, token
      <3>4. token \in Token
        BY <3>2, <3>1, <3>3 DEF Token
      <3>5. /\ token.email = old.email /\ token.challenge = old.challenge
            /\ token.parent = old.parent /\ token.tried = asked /\ token.shown = shown
        BY <3>2, <3>3 DEF Token
      <3> QED
        BY <3>1, <3>2, <3>4, <3>5
    <2>2. tokens' = [tokens EXCEPT ![n] = token]
      BY <1>6 DEF Redeem
    <2> HIDE DEF token, n
    <2>3. /\ tokens' \in Seq(Token) /\ Len(tokens') = Len(tokens)
          /\ tokens'[n] = token /\ \A t \in Minted \ {n} : tokens'[t] = tokens[t]
      BY <1>1, <1>2, <2>1, <2>2 DEF Minted
    <2>4. Minted' = Minted
      BY <2>3 DEF Minted
    <2>5. TokensTyped'
      BY <1>1, <2>1, <2>3, <2>4 DEF TokensTyped
    <2>6. CodesTyped'
      BY <1>1, <1>4, PartsAreNoMore DEF CodesTyped
    <2>7. CodesWait'
      <3>1. \A other \in codes' : other.token # n /\ other \in codes
        BY <1>3, <1>4 DEF CodesWait, n
      <3> QED
        BY <1>4, <2>3, <2>4, <3>1 DEF CodesWait
    <2>8. HandedOverOnce'
      BY <2>1, <2>3, <2>4 DEF HandedOverOnce
    <2>9. TokensGrow
      BY <2>1, <2>3, <2>4 DEF TokensGrow
    <2> QED
      BY <2>5, <2>6, <2>7, <2>8, <2>9
  <1> QED
    BY <1>5, <1>6

----------------------------------------------------------------------------
(* Sessions *)

\* Each session is timed as it was, or as ExpiryFollowsUse asks at `now'`.
SessionTimed(session, at) ==
    /\ session.touched <= at
    /\ session.seen <= session.touched
    /\ session.touched <= session.seen + RefreshAfter
    /\ session.expires <= session.seen + IdleTtl
    /\ session.expires = session.seen + IdleTtl \/ session.expires >= session.hard
    /\ session.cookie <= at + IdleTtl
    /\ session.cookie <= session.expires /\ session.cookie <= session.hard

SessionsTimed ==
    \A s \in Issued' :
        \/ /\ s \in Issued
           /\ sessions'[s].touched = sessions[s].touched
           /\ sessions'[s].seen = sessions[s].seen
           /\ sessions'[s].expires = sessions[s].expires
           /\ sessions'[s].hard = sessions[s].hard
           /\ sessions'[s].cookie = sessions[s].cookie
        \/ SessionTimed(sessions'[s], now')

\* Time passing keeps the timing of what no step touched.
LEMMA SessionsStayTimed ==
    ASSUME Typed, ExpiryFollowsUse, now' \in Nat, now' >= now, SessionsTimed
    PROVE  ExpiryFollowsUse'
  <1> SUFFICES ASSUME NEW s \in Issued' PROVE SessionTimed(sessions'[s], now')
    BY DEF ExpiryFollowsUse, SessionTimed
  <1>1. CASE SessionTimed(sessions'[s], now')
    BY <1>1
  <1>2. CASE ~SessionTimed(sessions'[s], now')
    <2>1. s \in Issued /\ sessions[s] \in Session
      BY <1>2 DEF SessionsTimed, Typed, TypeOK
    <2>2. sessions[s].touched \in Nat /\ sessions[s].cookie \in Nat /\ now \in Nat /\ IdleTtl \in Nat
      BY <2>1, SignUpAssumption, AccessAssumption DEF Session, Typed, TypeOK, SignUpTypeOK
    <2>3. /\ sessions'[s].touched = sessions[s].touched
          /\ sessions'[s].seen = sessions[s].seen
          /\ sessions'[s].expires = sessions[s].expires
          /\ sessions'[s].hard = sessions[s].hard
          /\ sessions'[s].cookie = sessions[s].cookie
      BY <1>2 DEF SessionsTimed
    <2> QED
      BY <2>1, <2>2, <2>3 DEF ExpiryFollowsUse, SessionTimed
  <1> QED
    BY <1>1, <1>2

\* A session begins with a whole idle period.
LEMMA LoginStep ==
    ASSUME Typed, now' = now, NEW i \in Ids, Len(sessions) < MaxSessions, NEW browser \in BOOLEAN,
           sessions' = Append(sessions,
                [email |-> rows[i].email, challenge |-> i, expires |-> now + IdleTtl,
                 hard |-> now + HardTtl, seen |-> now, revoked |-> FALSE,
                 cookie |-> now + IdleTtl, browser |-> browser, touched |-> now])
    PROVE  /\ SessionsTyped' /\ SessionsTimed
           /\ Issued' = Issued \cup {Len(sessions) + 1}
           /\ \A s \in Issued : sessions'[s] = sessions[s]
           /\ sessions'[Len(sessions) + 1].email = rows[i].email
           /\ sessions'[Len(sessions) + 1].challenge = i
  <1> DEFINE session ==
               [email |-> rows[i].email, challenge |-> i, expires |-> now + IdleTtl,
                hard |-> now + HardTtl, seen |-> now, revoked |-> FALSE,
                cookie |-> now + IdleTtl, browser |-> browser, touched |-> now]
  <1>1. /\ sessions \in Seq(Session) /\ Len(sessions) \in Nat /\ now \in Times /\ now \in Nat
        /\ \A s \in Issued : sessions[s] \in Session
        /\ Len(rows) \in Nat /\ Len(rows) <= MaxChallenges /\ MaxChallenges \in Nat
        /\ IdleTtl \in Nat /\ HardTtl \in Nat /\ RefreshAfter \in Nat /\ MaxSessions \in Nat
    BY SignUpAssumption, AccessAssumption DEF Typed, TypeOK, SignUpTypeOK
  <1>2. rows[i].email \in Emails /\ i \in 1..MaxChallenges
    <2>1. i \in 1..Len(rows)
      BY DEF Ids
    <2>2. rows[i] \in Challenge
      BY <2>1, ElementOfSeq DEF Typed
    <2> QED
      BY ONLY <1>1, <2>1, <2>2 DEF Challenge
  <1>3. session \in Session /\ session.email = rows[i].email /\ session.challenge = i
    BY <1>1, <1>2 DEF Session
  <1>4. SessionTimed(session, now)
    BY <1>1, AccessAssumption DEF SessionTimed
  <1>5. sessions' = Append(sessions, session)
    OBVIOUS
  <1> HIDE DEF session
  <1>6. /\ sessions' \in Seq(Session) /\ Len(sessions') = Len(sessions) + 1
        /\ \A s \in Issued : sessions'[s] = sessions[s]
        /\ sessions'[Len(sessions) + 1] = session
    BY <1>1, <1>3, <1>5 DEF Issued
  <1>7. Issued' = Issued \cup {Len(sessions) + 1}
    BY <1>1, <1>6 DEF Issued
  <1>8. SessionsTyped'
    <2>1. Len(sessions') <= MaxSessions
      BY <1>1, <1>6
    <2>2. \A s \in Issued' : sessions'[s] \in Session
      BY <1>1, <1>3, <1>6, <1>7
    <2> QED
      BY <1>6, <2>1, <2>2 DEF SessionsTyped
  <1>9. SessionsTimed
    BY <1>4, <1>6, <1>7 DEF SessionsTimed
  <1> QED
    BY <1>3, <1>6, <1>7, <1>8, <1>9

\* A use slides the expiry, or leaves it be while the timestamp is fresh.
LEMMA ResolveStep ==
    ASSUME Typed, ExpiryFollowsUse, NEW s \in Issued, Resolve(s)
    PROVE  SessionsTyped' /\ SessionsTimed /\ SessionsGrow
  <1> DEFINE old == sessions[s]
             aged == now - old.seen > RefreshAfter
             seen == IF aged THEN now ELSE old.seen
             expires == IF aged THEN Slid(s) ELSE old.expires
             session == [old EXCEPT !.touched = now, !.seen = seen, !.expires = expires]
  <1>1. /\ sessions \in Seq(Session) /\ Len(sessions) \in Nat /\ now \in Times /\ now \in Nat
        /\ \A n \in Issued : sessions[n] \in Session
        /\ Len(sessions) <= MaxSessions
        /\ IdleTtl \in Nat /\ RefreshAfter \in Nat
    BY SignUpAssumption, AccessAssumption DEF Typed, TypeOK, SignUpTypeOK
  <1>2. /\ old \in Session /\ old.seen \in Nat /\ old.seen \in Times /\ old.touched \in Nat
        /\ old.expires \in Nat /\ old.hard \in Nat /\ old.cookie \in Nat
    BY <1>1, SignUpAssumption DEF Session
  <1>3. SessionTimed(old, now)
    BY DEF ExpiryFollowsUse, SessionTimed
  <1>4. /\ seen \in Times /\ seen \in Nat /\ expires \in Nat
        /\ seen <= now /\ now <= seen + RefreshAfter
        /\ expires <= seen + IdleTtl
        /\ expires = seen + IdleTtl \/ expires >= old.hard
        /\ old.cookie <= now + IdleTtl /\ old.cookie <= expires /\ old.cookie <= old.hard
    <2>1. CASE aged
      BY <1>1, <1>2, <1>3, <2>1 DEF Slid, SessionTimed
    <2>2. CASE ~aged
      BY <1>1, <1>2, <1>3, <2>2 DEF SessionTimed
    <2> QED
      BY <2>1, <2>2
  <1>5. sessions' = [sessions EXCEPT ![s] = session]
    BY DEF Resolve
  <1> HIDE DEF seen, expires, old
  <1>6. session \in Session
    BY <1>1, <1>2, <1>4 DEF Session
  <1>7. /\ session.email = old.email /\ session.challenge = old.challenge
        /\ session.hard = old.hard /\ session.touched = now
        /\ session.seen = seen /\ session.expires = expires /\ session.cookie = old.cookie
    BY <1>2 DEF Session
  <1>8. SessionTimed(session, now)
    BY <1>1, <1>4, <1>7 DEF SessionTimed
  <1>9. now' = now
    BY DEF Resolve
  <1> HIDE DEF session
  <1> USE DEF old
  <1>10. /\ sessions' \in Seq(Session) /\ Len(sessions') = Len(sessions)
         /\ sessions'[s] = session /\ \A n \in Issued \ {s} : sessions'[n] = sessions[n]
    BY <1>1, <1>5, <1>6 DEF Issued
  <1>11. Issued' = Issued
    BY <1>10 DEF Issued
  <1>12. SessionsTyped'
    BY <1>1, <1>6, <1>10, <1>11 DEF SessionsTyped
  <1>13. SessionsTimed
    BY <1>8, <1>9, <1>10, <1>11 DEF SessionsTimed
  <1>14. SessionsGrow
    BY <1>7, <1>10, <1>11 DEF SessionsGrow
  <1> QED
    BY <1>12, <1>13, <1>14

\* Revoking changes nothing else of a session.
LEMMA RevokedStep ==
    ASSUME Typed, NEW live \in SUBSET Issued,
           sessions' = [s \in Issued |-> [sessions[s] EXCEPT !.revoked = @ \/ s \in live]]
    PROVE  SessionsTyped' /\ SessionsTimed /\ SessionsGrow
  <1>1. /\ sessions \in Seq(Session) /\ Len(sessions) \in Nat /\ Len(sessions) <= MaxSessions
        /\ \A s \in Issued : sessions[s] \in Session
    BY DEF Typed, TypeOK
  <1>2. ASSUME NEW s \in Issued
        PROVE  /\ sessions'[s] \in Session
               /\ sessions'[s].email = sessions[s].email
               /\ sessions'[s].challenge = sessions[s].challenge
               /\ sessions'[s].touched = sessions[s].touched
               /\ sessions'[s].seen = sessions[s].seen
               /\ sessions'[s].expires = sessions[s].expires
               /\ sessions'[s].hard = sessions[s].hard
               /\ sessions'[s].cookie = sessions[s].cookie
    <2> DEFINE old == sessions[s]
               revoked == old.revoked \/ s \in live
    <2>1. old \in Session /\ sessions'[s] = [old EXCEPT !.revoked = revoked] /\ revoked \in BOOLEAN
      BY <1>1 DEF Session
    <2> HIDE DEF revoked, old
    <2>2. /\ sessions'[s] \in Session
          /\ sessions'[s].email = old.email
          /\ sessions'[s].challenge = old.challenge
          /\ sessions'[s].touched = old.touched
          /\ sessions'[s].seen = old.seen
          /\ sessions'[s].expires = old.expires
          /\ sessions'[s].hard = old.hard
          /\ sessions'[s].cookie = old.cookie
      BY <2>1 DEF Session
    <2> QED
      BY <2>2 DEF old
  <1>3. sessions' \in Seq(Session) /\ Len(sessions') = Len(sessions)
    <2>1. sessions' \in [1..Len(sessions) -> Session]
      BY <1>2 DEF Issued
    <2> QED
      BY <1>1, <2>1, IsASeq, LenProperties
  <1>4. Issued' = Issued
    BY <1>3 DEF Issued
  <1> QED
    BY <1>1, <1>2, <1>3, <1>4 DEF SessionsTyped, SessionsTimed, SessionsGrow

----------------------------------------------------------------------------
(* The table of MCP sessions *)

LimiterTyped == LimiterTypeOK(Times)

\* The table holds instants.
LEMMA SeenAtInstants ==
    ASSUME Typed
    PROVE  \A u \in Holders, s \in McpSessions : active[u][s] \in Int /\ served[u][s] \in Int
  <1>1. Times \cup {Never} \subseteq Int
    BY SignUpAssumption DEF Never
  <1>2. /\ active \in [Holders -> [McpSessions -> Times \cup {Never}]]
        /\ served \in [Holders -> [McpSessions -> Times \cup {Never}]]
    BY DEF Typed, TypeOK, LimiterTypeOK
  <1>3. \A u \in Holders, s \in McpSessions :
           active[u][s] \in Times \cup {Never} /\ served[u][s] \in Times \cup {Never}
    BY <1>2
  <1> QED
    BY <1>1, <1>3

\* An empty table follows whatever is let through from then on.
LEMMA TableEmptied ==
    ASSUME now' \in Nat, active' = Untracked, served' = Untracked
    PROVE  LimiterTyped' /\ TableFollowsUse'
  <1>1. \A u \in Holders, s \in McpSessions : active'[u][s] = Never /\ served'[u][s] = Never
    BY DEF Untracked
  <1>2. LimiterTyped'
    BY DEF LimiterTyped, LimiterTypeOK, Untracked
  <1>3. \A u \in Holders : Kept(u, now)' = {} /\ Busy(u, now)' = {}
    BY <1>1 DEF Kept, Busy
  <1> QED
    BY <1>2, <1>3, FS_EmptySet, LimiterAssumption DEF TableFollowsUse

\* Time only takes sessions out of those that are counted.
LEMMA TableAges ==
    ASSUME Typed, TableFollowsUse, now' \in Nat, now' >= now, UNCHANGED <<active, served>>
    PROVE  LimiterTyped' /\ TableFollowsUse'
  <1>1. LimiterTyped'
    BY DEF LimiterTyped, LimiterTypeOK, Typed, TypeOK
  <1>2. now \in Nat /\ IdleLimit \in Nat /\ SessionCap \in Nat /\ Times \subseteq Nat
    BY SignUpAssumption, LimiterAssumption DEF Typed, TypeOK, SignUpTypeOK
  <1>3. ASSUME NEW u \in Holders
        PROVE  Kept(u, now)' \in SUBSET Kept(u, now) /\ Busy(u, now)' \in SUBSET Busy(u, now)
    <2>1. \A s \in McpSessions : active[u][s] \in Int /\ served[u][s] \in Int
      BY SeenAtInstants
    <2> QED
      BY <1>2, <2>1 DEF Kept, Busy
  <1>4. ASSUME NEW u \in Holders
        PROVE  /\ IsFiniteSet(Kept(u, now)')
               /\ SessionCap # 0 => Cardinality(Kept(u, now)') <= SessionCap
    <2>1. IsFiniteSet(Kept(u, now)) /\ (SessionCap # 0 => Cardinality(Kept(u, now)) <= SessionCap)
      BY DEF TableFollowsUse
    <2>2. IsFiniteSet(Kept(u, now)')
      BY <1>3, <2>1, FS_Subset
    <2>3. ASSUME SessionCap # 0 PROVE Cardinality(Kept(u, now)') <= SessionCap
      BY <1>2, <1>3, <2>1, <2>3, PartsAreNoMore
    <2> QED
      BY <2>2, <2>3
  <1> QED
    BY <1>1, <1>3, <1>4 DEF TableFollowsUse

\* Who is let through is tracked, unless the request carried no session, and a
\* session that is new to the table finds room in it.
LEMMA CheckAndTrackStep ==
    ASSUME Typed, TableFollowsUse, now' = now,
           NEW u \in Holders, NEW s \in McpSessions \cup {NoHeader}, CheckAndTrack(u, s, now)
    PROVE  LimiterTyped' /\ TableFollowsUse'
  <1> DEFINE admitted == IF Allowed(u, s, now) THEN {s} \ {NoHeader} ELSE {}
             tracked  == IF SessionCap = 0 THEN {} ELSE admitted
             seen     == [m \in McpSessions |->
                             IF m \in tracked THEN now
                             ELSE IF m \in Kept(u, now) THEN active[u][m] ELSE Never]
             through  == [m \in McpSessions |-> IF m \in admitted THEN now ELSE served[u][m]]
  <1>1. /\ active \in [Holders -> [McpSessions -> Times \cup {Never}]]
        /\ served \in [Holders -> [McpSessions -> Times \cup {Never}]]
        /\ now \in Times /\ now \in Nat /\ IdleLimit \in Nat /\ SessionCap \in Nat
        /\ Times \subseteq Nat
    BY SignUpAssumption, LimiterAssumption
       DEF Typed, TypeOK, SignUpTypeOK, LimiterTypeOK
  <1>2. /\ active' = IF SessionCap = 0 THEN active ELSE [active EXCEPT ![u] = seen]
        /\ served' = [served EXCEPT ![u] = through]
    BY DEF CheckAndTrack
  <1>3. /\ seen \in [McpSessions -> Times \cup {Never}]
        /\ through \in [McpSessions -> Times \cup {Never}]
    BY <1>1
  <1>4. LimiterTyped'
    <2> HIDE DEF seen, through
    <2> QED
      BY <1>1, <1>2, <1>3 DEF LimiterTyped, LimiterTypeOK
  <1>5. ASSUME NEW v \in Holders, v # u \/ SessionCap = 0
        PROVE  /\ IsFiniteSet(Kept(v, now)')
               /\ SessionCap # 0 => /\ Cardinality(Kept(v, now)') <= SessionCap
                                    /\ \A m \in Busy(v, now)' : active'[v][m] = served'[v][m]
    <2>1. active'[v] = active[v]
      <3> HIDE DEF seen
      <3> QED
        BY <1>1, <1>2, <1>5
    <2>2. Kept(v, now)' = Kept(v, now)
      BY <2>1 DEF Kept
    <2>3. v # u => served'[v] = served[v]
      <3> HIDE DEF through
      <3> QED
        BY <1>1, <1>2
    <2>4. v # u => Busy(v, now)' = Busy(v, now)
      BY <2>3 DEF Busy
    <2> QED
      BY <1>5, <2>1, <2>2, <2>3, <2>4 DEF TableFollowsUse
  <1>6. ASSUME SessionCap # 0
        PROVE  /\ IsFiniteSet(Kept(u, now)')
               /\ Cardinality(Kept(u, now)') <= SessionCap
               /\ \A m \in Busy(u, now)' : active'[u][m] = served'[u][m]
    <2>1. active'[u] = seen /\ served'[u] = through
      <3> HIDE DEF seen, through
      <3> QED
        BY <1>1, <1>2, <1>6
    <2>2. /\ IsFiniteSet(Kept(u, now)) /\ Cardinality(Kept(u, now)) <= SessionCap
          /\ \A m \in Busy(u, now) : active[u][m] = served[u][m]
      BY <1>6 DEF TableFollowsUse
    <2>3. \A m \in McpSessions : active[u][m] \in Int /\ served[u][m] \in Int
      BY SeenAtInstants
    <2>4. Kept(u, now)' \in SUBSET (Kept(u, now) \cup tracked)
      BY <2>1 DEF Kept, Never
    <2>5. IsFiniteSet(Kept(u, now)') /\ Cardinality(Kept(u, now)') <= SessionCap
      <3>1. CASE tracked \subseteq Kept(u, now)
        <4>1. Kept(u, now)' \in SUBSET Kept(u, now)
          BY <2>4, <3>1
        <4> QED
          BY <1>1, <2>2, <4>1, PartsAreNoMore
      <3>2. CASE ~(tracked \subseteq Kept(u, now))
        <4>1. tracked = {s} /\ Cardinality(Kept(u, now)) < SessionCap
          BY <1>6, <3>2 DEF Allowed
        <4> DEFINE kept == Kept(u, now)
        <4>2. IsFiniteSet(kept \cup {s}) /\ Cardinality(kept \cup {s}) <= SessionCap
          <5>1. IsFiniteSet(kept) /\ Cardinality(kept) < SessionCap /\ SessionCap \in Int
            BY <1>1, <2>2, <4>1
          <5> HIDE DEF kept
          <5> QED
            BY <5>1, OneMoreElement
        <4> HIDE DEF kept, tracked
        <4>3. Kept(u, now)' \in SUBSET (kept \cup {s})
          BY <2>4, <4>1 DEF kept
        <4> QED
          BY <1>1, <4>2, <4>3, PartsAreNoMore
      <3> QED
        BY <3>1, <3>2
    <2>6. ASSUME NEW m \in Busy(u, now)' PROVE active'[u][m] = served'[u][m]
      <3>1. m \in McpSessions /\ through[m] # Never /\ through[m] >= now - IdleLimit
        BY <2>1 DEF Busy, CheckAndTrack
      <3>2. CASE m \in admitted
        BY <1>6, <2>1, <3>1, <3>2
      <3>3. CASE m \notin admitted
        <4>1. m \in Busy(u, now) /\ through[m] = served[u][m]
          BY <3>1, <3>3 DEF Busy
        <4>2. active[u][m] = served[u][m]
          BY <2>2, <4>1
        <4>3. m \in Kept(u, now)
          BY <4>1, <4>2 DEF Kept, Busy
        <4> QED
          BY <2>1, <3>1, <3>3, <4>1, <4>2, <4>3
      <3> QED
        BY <3>2, <3>3
    <2> QED
      BY <2>5, <2>6
  <1> QED
    BY <1>4, <1>5, <1>6 DEF TableFollowsUse

----------------------------------------------------------------------------
(* Every step *)

ClientsTyped == clients \in [Clients -> Client] /\ IsFiniteSet(Known)

\* What a step owes the invariant, part by part.
LEMMA PartsMakeIInv ==
    ASSUME IInv, ChallengesMove,
           TokensTyped', TokensGrow, CodesTyped', CodesWait', HandedOverOnce',
           SessionsTyped', SessionsTimed, SessionsGrow, VisitsGrow,
           LimiterTyped', TableFollowsUse', ClientsTyped'
    PROVE  IInv'
  <1>1. /\ Typed /\ ChallengesCount /\ GrantsAreAnswers /\ AnswersOpenTheirDoor
        /\ ExpiryFollowsUse
    BY DEF IInv
  <1>2. /\ SignUpTypeOK' /\ rows' \in Seq(Challenge)
        /\ ChallengesCount' /\ RowsGrow /\ now' >= now
    BY <1>1, ChallengesStep
  <1>3. GrantsAreAnswers' /\ AnswersOpenTheirDoor'
    BY <1>1, <1>2, GrantsStep
  <1>4. now' \in Nat
    BY <1>2, SignUpAssumption DEF SignUpTypeOK
  <1>5. ExpiryFollowsUse'
    BY <1>1, <1>2, <1>4, SessionsStayTimed
  <1>6. visits' \subseteq Ids'
    BY <1>3 DEF GrantsAreAnswers, Answered
  <1>7. Typed'
    BY <1>2, <1>6
       DEF Typed, TypeOK, TokensTyped, CodesTyped, SessionsTyped, LimiterTyped, ClientsTyped
  <1> QED
    BY <1>2, <1>3, <1>5, <1>7 DEF IInv, ClientsTyped

\* What a step leaves alone keeps its part of the invariant: tokens ...
LEMMA TokensStand ==
    ASSUME IInv, tokens' = tokens
    PROVE  TokensTyped' /\ TokensGrow /\ UsesKept
  <1>1. Minted' = Minted
    BY DEF Minted
  <1> QED
    BY <1>1 DEF IInv, Typed, TypeOK, TokensTyped, TokensGrow, UsesKept

\* ... sessions ...
LEMMA SessionsStand ==
    ASSUME IInv, sessions' = sessions
    PROVE  SessionsTyped' /\ SessionsTimed /\ SessionsGrow
  <1>1. Issued' = Issued
    BY DEF Issued
  <1> QED
    BY <1>1 DEF IInv, Typed, TypeOK, SessionsTyped, SessionsTimed, SessionsGrow

\* ... and registrations.
LEMMA ClientsStand ==
    ASSUME IInv, clients' = clients
    PROVE  ClientsTyped'
  <1> QED
    BY DEF IInv, Typed, TypeOK, ClientsTyped, Known

\* What is in memory is forgotten or left alone.
LEMMA MemoryStands ==
    ASSUME IInv, ChallengesMove, UsesKept, Stop \/ UNCHANGED memory
    PROVE  /\ CodesTyped' /\ CodesWait' /\ HandedOverOnce'
           /\ LimiterTyped' /\ TableFollowsUse'
  <1>1. Typed /\ ChallengesCount /\ CodesWait /\ HandedOverOnce /\ TableFollowsUse
    BY DEF IInv
  <1>2. SignUpTypeOK' /\ now' >= now
    BY <1>1, ChallengesStep
  <1>3. now' \in Nat
    BY <1>2, SignUpAssumption DEF SignUpTypeOK
  <1>4. codes' \in SUBSET codes
    BY DEF Stop, memory
  <1>5. CodesTyped' /\ CodesWait' /\ HandedOverOnce'
    BY <1>1, <1>4, CodesForgotten
  <1>6. CASE Stop
    BY <1>3, <1>5, <1>6, TableEmptied DEF Stop
  <1>7. CASE UNCHANGED memory
    BY <1>1, <1>2, <1>3, <1>5, <1>7, TableAges DEF memory
  <1> QED
    BY <1>6, <1>7

\* The token that is minted for an answer, or for a pasted token.
MintedRightly(email, challenge, parent) ==
    /\ email \in Emails /\ challenge \in 0..MaxChallenges /\ parent \in 0..MaxTokens
    /\ \/ challenge = 0 /\ parent \in Minted /\ email = tokens[parent].email
       \/ Opened(challenge, {"link", "code"}) /\ email = rows[challenge].email

\* A token minted rightly is a new grant, and is not asked for yet.
LEMMA MintGrows ==
    ASSUME IInv, NEW email, NEW challenge, NEW parent, NEW shown \in {0, 1},
           MintedRightly(email, challenge, parent), Mint(email, challenge, parent, shown)
    PROVE  TokensTyped' /\ TokensGrow /\ UsesKept
  <1>1. Typed
    BY DEF IInv
  <1>2. /\ TokensTyped'
        /\ Minted' = Minted \cup {Len(tokens) + 1}
        /\ \A t \in Minted : tokens'[t] = tokens[t]
        /\ tokens'[Len(tokens) + 1].email = email
        /\ tokens'[Len(tokens) + 1].challenge = challenge
        /\ tokens'[Len(tokens) + 1].parent = parent
        /\ tokens'[Len(tokens) + 1].shown = shown
        /\ tokens'[Len(tokens) + 1].tried = 0
    BY <1>1, MintStep DEF MintedRightly
  <1>3. TokensGrow
    BY <1>2 DEF TokensGrow, MintedRightly
  <1>4. UsesKept
    BY <1>2 DEF UsesKept
  <1> QED
    BY <1>2, <1>3, <1>4

\* Consent given: no token, a token without a code, or both.
LEMMA ApproveStep ==
    ASSUME IInv, ChallengesMove, now' = now, NEW email, NEW challenge, NEW parent,
           MintedRightly(email, challenge, parent),
           NEW redirect \in AllowedHosts, NEW verifier \in Verifiers,
           Approve(email, challenge, parent, redirect, verifier)
    PROVE  /\ TokensTyped' /\ TokensGrow /\ CodesTyped' /\ CodesWait' /\ HandedOverOnce'
           /\ LimiterTyped' /\ TableFollowsUse'
  <1>1. CASE UNCHANGED tokens /\ (Stop \/ UNCHANGED memory)
    BY <1>1, TokensStand, MemoryStands
  <1>2. CASE Mint(email, challenge, parent, 0) /\ Stop
    BY <1>2, MintGrows, MemoryStands
  <1>3. CASE /\ Mint(email, challenge, parent, 0)
             /\ codes' = Collected \cup {[token |-> Len(tokens) + 1, redirect |-> redirect,
                                          verifier |-> verifier, created |-> now]}
             /\ UNCHANGED <<active, served>>
    <2>1. Typed /\ ChallengesCount /\ CodesWait /\ HandedOverOnce /\ TableFollowsUse
      BY DEF IInv
    <2>2. CodesTyped' /\ CodesWait' /\ HandedOverOnce'
      BY <1>3, <2>1, CodeIssued DEF MintedRightly
    <2>3. TokensTyped' /\ TokensGrow
      BY <1>3, MintGrows
    <2>4. now' \in Nat /\ now' >= now
      BY <2>1, SignUpAssumption DEF Typed, TypeOK, SignUpTypeOK
    <2>5. LimiterTyped' /\ TableFollowsUse'
      BY <1>3, <2>1, <2>4, TableAges
    <2> QED
      BY <2>2, <2>3, <2>5
  <1> QED
    BY <1>1, <1>2, <1>3 DEF Approve

\* A row has a number a token can refer to, and an address.
LEMMA RowsHaveAddresses ==
    ASSUME Typed
    PROVE  \A i \in Ids : i \in 1..MaxChallenges /\ rows[i].email \in Emails
  <1>1. /\ Len(rows) \in Nat /\ Len(rows) <= MaxChallenges /\ MaxChallenges \in Nat
        /\ \A i \in Ids : rows[i] \in Challenge
    BY SignUpAssumption DEF Typed, TypeOK, SignUpTypeOK
  <1>2. \A i \in Ids : i \in 1..MaxChallenges
    BY <1>1 DEF Ids
  <1> QED
    BY <1>1, <1>2 DEF Challenge

\* A right answer opens the door it was given at.
LEMMA AnswerOpens ==
    ASSUME IInv, NEW i \in Ids, NEW door \in CodePurposes, Answer(i, door)
    PROVE  /\ ChallengesMove /\ now' = now /\ Opened(i, {door})
           /\ i \in 1..MaxChallenges /\ rows[i].email \in Emails
  <1>1. Typed /\ ChallengesCount
    BY DEF IInv
  <1>2. Unspent(i) /\ Spend(i) /\ rows[i].mailed /\ rows[i].purpose = door
    BY DEF Answer, Usable
  <1>3. now' = now /\ Answered(i)'
    BY <1>1, <1>2, SpendStep
  <1>4. i \in 1..MaxChallenges /\ rows[i].email \in Emails
    BY <1>1, RowsHaveAddresses
  <1> QED
    BY <1>2, <1>3, <1>4 DEF ChallengesMove, Opened, AnsweredNow, Answered

\* A link that is followed opens the page that shows the token.
LEMMA LinkOpens ==
    ASSUME IInv, NEW i \in Ids, SpendLink(i)
    PROVE  /\ ChallengesMove /\ now' = now /\ Opened(i, {"link"})
           /\ i \in 1..MaxChallenges /\ rows[i].email \in Emails
  <1>1. Typed /\ ChallengesCount
    BY DEF IInv
  <1>2. Unspent(i) /\ Spend(i) /\ rows[i].mailed /\ rows[i].purpose = "link"
    BY DEF SpendLink, Follow
  <1>3. now' = now /\ Answered(i)'
    BY <1>1, <1>2, SpendStep
  <1>4. i \in 1..MaxChallenges /\ rows[i].email \in Emails
    BY <1>1, RowsHaveAddresses
  <1> QED
    BY <1>2, <1>3, <1>4 DEF ChallengesMove, Opened, AnsweredNow, Answered

\* Each action keeps the invariant.
LEMMA ProvingStep ==
    ASSUME IInv, Proving
    PROVE  IInv'
  <1>1. ChallengesMove
    <2>1. \A purpose \in CodePurposes : purpose \in Purposes
      BY DEF Purposes
    <2>2. "link" \in Purposes
      BY DEF Purposes
    <2> QED
      BY <2>1, <2>2 DEF Proving, ChallengesMove, RequestLink, StartCode
  <1>2. UNCHANGED <<tokens, clients, sessions, visits, memory>>
    BY DEF Proving
  <1>3. VisitsGrow
    BY <1>2 DEF VisitsGrow
  <1> QED
    BY <1>1, <1>2, <1>3, TokensStand, SessionsStand, ClientsStand, MemoryStands, PartsMakeIInv

LEMMA CompleteLinkStep ==
    ASSUME IInv, NEW i \in Ids, CompleteLink(i)
    PROVE  IInv'
  <1>1. /\ ChallengesMove /\ now' = now /\ Opened(i, {"link"})
        /\ i \in 1..MaxChallenges /\ rows[i].email \in Emails
    BY LinkOpens DEF CompleteLink
  <1>2. UNCHANGED <<clients, sessions, visits>> /\ VisitsGrow
    BY DEF CompleteLink, VisitsGrow
  <1>3. MintedRightly(rows[i].email, i, 0)
    <2>1. i \in 0..MaxChallenges /\ 0 \in 0..MaxTokens
      BY <1>1, AccessAssumption, SignUpAssumption
    <2>2. Opened(i, {"link", "code"})
      BY <1>1 DEF Opened, AnsweredNow
    <2> QED
      BY <1>1, <2>1, <2>2 DEF MintedRightly
  <1>4. /\ TokensTyped' /\ TokensGrow /\ CodesTyped' /\ CodesWait' /\ HandedOverOnce'
        /\ LimiterTyped' /\ TableFollowsUse'
    <2>1. CASE UNCHANGED tokens /\ (Stop \/ UNCHANGED memory)
      BY <1>1, <2>1, TokensStand, MemoryStands
    <2>2. CASE \E shown \in {0, 1} : Mint(rows[i].email, i, 0, shown) /\ UNCHANGED memory
      BY <1>1, <1>3, <2>2, MintGrows, MemoryStands
    <2> QED
      BY <2>1, <2>2 DEF CompleteLink
  <1> QED
    BY <1>1, <1>2, <1>4, SessionsStand, ClientsStand, PartsMakeIInv

LEMMA LoginIntoSession ==
    ASSUME IInv, NEW i \in Ids, Login(i)
    PROVE  IInv'
  <1>1. /\ ChallengesMove /\ now' = now /\ Opened(i, {"login"})
        /\ i \in 1..MaxChallenges /\ rows[i].email \in Emails
    BY AnswerOpens DEF Login, CodePurposes
  <1>2. UNCHANGED <<tokens, clients, visits>> /\ VisitsGrow
    BY DEF Login, VisitsGrow
  <1>3. TokensTyped' /\ TokensGrow /\ UsesKept
    BY <1>2, TokensStand
  <1>4. Stop \/ UNCHANGED memory
    BY DEF Login
  <1>5. /\ CodesTyped' /\ CodesWait' /\ HandedOverOnce'
        /\ LimiterTyped' /\ TableFollowsUse'
    BY <1>1, <1>3, <1>4, MemoryStands
  <1>6. SessionsTyped' /\ SessionsTimed /\ SessionsGrow
    <2>1. CASE UNCHANGED sessions
      BY <2>1, SessionsStand
    <2>2. CASE sessions' # sessions
      <3>1. /\ SessionsTyped' /\ SessionsTimed
            /\ Issued' = Issued \cup {Len(sessions) + 1}
            /\ \A s \in Issued : sessions'[s] = sessions[s]
            /\ sessions'[Len(sessions) + 1].email = rows[i].email
            /\ sessions'[Len(sessions) + 1].challenge = i
        BY <1>1, <2>2, LoginStep DEF Login, IInv
      <3>2. SessionsGrow
        BY <1>1, <3>1 DEF SessionsGrow
      <3> QED
        BY <3>1, <3>2
    <2> QED
      BY <2>1, <2>2
  <1> QED
    BY <1>1, <1>2, <1>3, <1>5, <1>6, ClientsStand, PartsMakeIInv

LEMMA OpenBillingStep ==
    ASSUME IInv, NEW i \in Ids, OpenBilling(i)
    PROVE  IInv'
  <1>1. ChallengesMove /\ Opened(i, {"billing"})
    BY AnswerOpens DEF OpenBilling, CodePurposes
  <1>2. UNCHANGED <<tokens, clients, sessions>> /\ (Stop \/ UNCHANGED memory)
    BY DEF OpenBilling
  <1>3. VisitsGrow
    BY <1>1 DEF OpenBilling, VisitsGrow
  <1> QED
    BY <1>1, <1>2, <1>3, TokensStand, SessionsStand, ClientsStand, MemoryStands, PartsMakeIInv

LEMMA ConnectByCodeStep ==
    ASSUME IInv, NEW i \in Ids, NEW client \in Clients, NEW redirect \in Redirects,
           NEW readable \in BOOLEAN, NEW verifier \in Verifiers,
           ConnectByCode(i, client, redirect, readable, verifier)
    PROVE  IInv'
  <1>1. /\ ChallengesMove /\ now' = now /\ Opened(i, {"code"})
        /\ i \in 1..MaxChallenges /\ rows[i].email \in Emails
    BY AnswerOpens DEF ConnectByCode, CodePurposes
  <1>2. UNCHANGED <<clients, sessions, visits>> /\ VisitsGrow /\ redirect \in AllowedHosts
    BY DEF ConnectByCode, VisitsGrow, RedirectAccepted
  <1>3. MintedRightly(rows[i].email, i, 0)
    <2>1. i \in 0..MaxChallenges /\ 0 \in 0..MaxTokens
      BY <1>1, AccessAssumption, SignUpAssumption
    <2>2. Opened(i, {"link", "code"})
      BY <1>1 DEF Opened, AnsweredNow
    <2> QED
      BY <1>1, <2>1, <2>2 DEF MintedRightly
  <1>4. Approve(rows[i].email, i, 0, redirect, verifier)
    BY DEF ConnectByCode
  <1>5. /\ TokensTyped' /\ TokensGrow /\ CodesTyped' /\ CodesWait' /\ HandedOverOnce'
        /\ LimiterTyped' /\ TableFollowsUse'
    BY <1>1, <1>2, <1>3, <1>4, ApproveStep
  <1> QED
    BY <1>1, <1>2, <1>5, SessionsStand, ClientsStand, PartsMakeIInv

LEMMA ConnectByTokenStep ==
    ASSUME IInv, NEW t \in Minted, NEW client \in Clients, NEW redirect \in Redirects,
           NEW readable \in BOOLEAN, NEW verifier \in Verifiers,
           ConnectByToken(t, client, redirect, readable, verifier)
    PROVE  IInv'
  <1>1. /\ UNCHANGED <<now, rows, accounts, clients, sessions, visits>>
        /\ VisitsGrow /\ redirect \in AllowedHosts /\ ChallengesMove
    BY DEF ConnectByToken, VisitsGrow, RedirectAccepted, ChallengesMove
  <1>2. MintedRightly(tokens[t].email, 0, t)
    <2>1. /\ Len(tokens) \in Nat /\ Len(tokens) <= MaxTokens /\ MaxTokens \in Nat
          /\ MaxChallenges \in Nat /\ tokens[t] \in Token
      BY AccessAssumption, SignUpAssumption DEF IInv, Typed, TypeOK
    <2>2. t \in 0..MaxTokens /\ 0 \in 0..MaxChallenges
      BY <2>1 DEF Minted
    <2> QED
      BY <2>1, <2>2 DEF MintedRightly, Token
  <1>3. Approve(tokens[t].email, 0, t, redirect, verifier)
    BY DEF ConnectByToken
  <1>4. /\ TokensTyped' /\ TokensGrow /\ CodesTyped' /\ CodesWait' /\ HandedOverOnce'
        /\ LimiterTyped' /\ TableFollowsUse'
    BY <1>1, <1>2, <1>3, ApproveStep
  <1> QED
    BY <1>1, <1>4, SessionsStand, ClientsStand, PartsMakeIInv

LEMMA RedeemIsFinal ==
    ASSUME IInv, NEW code \in codes, NEW redirect \in Redirects, NEW verifier \in Verifiers,
           Redeem(code, redirect, verifier)
    PROVE  IInv'
  <1>1. /\ UNCHANGED <<now, rows, accounts, clients, sessions, visits, active, served>>
        /\ VisitsGrow /\ ChallengesMove
    BY DEF Redeem, VisitsGrow, ChallengesMove
  <1>2. Typed /\ CodesWait /\ HandedOverOnce /\ TableFollowsUse
    BY DEF IInv
  <1>3. TokensTyped' /\ CodesTyped' /\ CodesWait' /\ HandedOverOnce' /\ TokensGrow
    BY <1>2, RedeemStep
  <1>4. now' \in Nat /\ now' >= now
    BY <1>1, <1>2, SignUpAssumption DEF Typed, TypeOK, SignUpTypeOK
  <1>5. LimiterTyped' /\ TableFollowsUse'
    BY <1>1, <1>2, <1>4, TableAges
  <1> QED
    BY <1>1, <1>3, <1>5, SessionsStand, ClientsStand, PartsMakeIInv

\* The steps that leave the challenges, the tokens and the memory alone.
LEMMA RestStands ==
    ASSUME IInv, UNCHANGED <<now, rows, accounts, tokens, visits, memory>>,
           SessionsTyped', SessionsTimed, SessionsGrow, ClientsTyped'
    PROVE  IInv'
  <1>1. ChallengesMove /\ VisitsGrow
    BY DEF ChallengesMove, VisitsGrow
  <1> QED
    BY <1>1, TokensStand, MemoryStands, PartsMakeIInv

LEMMA RegisterStep ==
    ASSUME IInv, NEW client \in Clients, NEW uris \in SUBSET AllowedHosts, Register(client, uris)
    PROVE  IInv'
  <1>1. clients \in [Clients -> Client] /\ IsFiniteSet(Known) /\ now \in Times
    BY DEF IInv, Typed, TypeOK, SignUpTypeOK
  <1>2. PICK gone \in Evicted \cup {{}} :
          clients' = [c \in Clients |->
              IF c = client THEN [known |-> TRUE, uris |-> uris, issued |-> now]
              ELSE IF c \in gone THEN [clients[c] EXCEPT !.known = FALSE]
              ELSE clients[c]]
    BY DEF Register
  <1>3. ASSUME NEW c \in Clients PROVE clients'[c] \in Client
    <2>1. clients[c] \in Client
      BY <1>1
    <2>2. [clients[c] EXCEPT !.known = FALSE] \in Client
      BY <2>1 DEF Client
    <2>3. [known |-> TRUE, uris |-> uris, issued |-> now] \in Client
      BY <1>1 DEF Client
    <2> QED
      BY <1>2, <2>1, <2>2, <2>3
  <1>4. \A c \in Clients \ {client} : clients'[c].known => clients[c].known
    <2>1. \A c \in Clients : ~[clients[c] EXCEPT !.known = FALSE].known
      BY <1>1 DEF Client
    <2> QED
      BY <1>2, <2>1
  <1>5. Known' \in SUBSET (Known \cup {client})
    BY <1>4 DEF Known
  <1>6. IsFiniteSet(Known \cup {client})
    BY <1>1, FS_AddElement
  <1>7. ClientsTyped'
    <2>1. IsFiniteSet(Known')
      BY <1>5, <1>6, FS_Subset
    <2>2. clients' \in [Clients -> Client]
      BY <1>2, <1>3
    <2> QED
      BY <2>1, <2>2 DEF ClientsTyped
  <1>8. UNCHANGED <<now, rows, accounts, tokens, sessions, visits, memory>>
    BY DEF Register
  <1> QED
    BY <1>7, <1>8, SessionsStand, RestStands

LEMMA UnregisterStep ==
    ASSUME IInv, NEW client \in Clients, Unregister(client)
    PROVE  IInv'
  <1>1. clients \in [Clients -> Client] /\ IsFiniteSet(Known)
    BY DEF IInv, Typed, TypeOK
  <1>2. clients' = [clients EXCEPT ![client].known = FALSE]
    BY DEF Unregister
  <1>3. clients' \in [Clients -> Client]
    BY <1>1, <1>2 DEF Client
  <1>4. Known' \in SUBSET Known
    BY <1>1, <1>2 DEF Known, Client
  <1>5. ClientsTyped'
    BY <1>1, <1>3, <1>4, FS_Subset DEF ClientsTyped
  <1>6. UNCHANGED <<now, rows, accounts, tokens, sessions, visits, memory>>
    BY DEF Unregister
  <1> QED
    BY <1>5, <1>6, SessionsStand, RestStands

LEMMA RevokeTokenStep ==
    ASSUME IInv, NEW t \in Minted, RevokeToken(t)
    PROVE  IInv'
  <1>1. /\ UNCHANGED <<now, rows, accounts, clients, sessions, visits, memory>>
        /\ VisitsGrow /\ ChallengesMove
    BY DEF RevokeToken, VisitsGrow, ChallengesMove
  <1>2. /\ tokens \in Seq(Token) /\ Len(tokens) <= MaxTokens /\ Len(tokens) \in Nat
        /\ \A u \in Minted : tokens[u] \in Token
    BY DEF IInv, Typed, TypeOK
  <1> DEFINE token == [tokens[t] EXCEPT !.revoked = TRUE]
  <1>3. /\ token \in Token /\ token.email = tokens[t].email
        /\ token.challenge = tokens[t].challenge /\ token.parent = tokens[t].parent
        /\ token.shown = tokens[t].shown /\ token.tried = tokens[t].tried
    BY <1>2 DEF Token
  <1>4. tokens' = [tokens EXCEPT ![t] = token]
    BY DEF RevokeToken
  <1> HIDE DEF token
  <1>5. /\ tokens' \in Seq(Token) /\ Len(tokens') = Len(tokens)
        /\ tokens'[t] = token /\ \A u \in Minted \ {t} : tokens'[u] = tokens[u]
    BY <1>2, <1>3, <1>4 DEF Minted
  <1>6. Minted' = Minted
    BY <1>5 DEF Minted
  <1>7. TokensTyped' /\ TokensGrow /\ UsesKept
    BY <1>2, <1>3, <1>5, <1>6 DEF TokensTyped, TokensGrow, UsesKept
  <1> QED
    BY <1>1, <1>7, SessionsStand, ClientsStand, MemoryStands, PartsMakeIInv

LEMMA CallToolStep ==
    ASSUME IInv, NEW t \in Minted, NEW s \in McpSessions \cup {NoHeader}, CallTool(t, s)
    PROVE  IInv'
  <1>1. /\ UNCHANGED <<now, rows, accounts, tokens, codes, clients, sessions, visits>>
        /\ VisitsGrow /\ ChallengesMove
    BY DEF CallTool, VisitsGrow, ChallengesMove
  <1>2. Typed /\ CodesWait /\ HandedOverOnce /\ TableFollowsUse
    BY DEF IInv
  <1>3. tokens[t].email \in Holders
    BY <1>2, AccessAssumption DEF Typed, TypeOK, Token
  <1>4. LimiterTyped' /\ TableFollowsUse'
    BY <1>1, <1>2, <1>3, CheckAndTrackStep DEF CallTool
  <1>5. TokensTyped' /\ TokensGrow /\ UsesKept
    BY <1>1, TokensStand
  <1>6. CodesTyped' /\ CodesWait' /\ HandedOverOnce'
    BY <1>1, <1>2, <1>5, CodesForgotten
  <1> QED
    BY <1>1, <1>4, <1>5, <1>6, SessionsStand, ClientsStand, PartsMakeIInv

LEMMA SessionUsed ==
    ASSUME IInv, NEW s \in Issued, Resolve(s)
    PROVE  IInv'
  <1>1. SessionsTyped' /\ SessionsTimed /\ SessionsGrow
    BY ResolveStep DEF IInv
  <1>2. UNCHANGED <<now, rows, accounts, tokens, clients, visits, memory>>
    BY DEF Resolve
  <1> QED
    BY <1>1, <1>2, ClientsStand, RestStands

LEMMA SessionsRevoked ==
    ASSUME IInv,
           \/ \E s \in Issued : Logout(s)
           \/ \E email \in Emails : RevokeAll(email)
    PROVE  IInv'
  <1>1. Typed /\ sessions \in Seq(Session) /\ Len(sessions) \in Nat
        /\ \A s \in Issued : sessions[s] \in Session
    BY DEF IInv, Typed, TypeOK
  <1>2. \E live \in SUBSET Issued :
          sessions' = [s \in Issued |-> [sessions[s] EXCEPT !.revoked = @ \/ s \in live]]
    <2>1. ASSUME NEW s \in Issued, Logout(s)
          PROVE  sessions' = [n \in Issued |-> [sessions[n] EXCEPT !.revoked = @ \/ n \in {s}]]
      <3>1. sessions' = [sessions EXCEPT ![s].revoked = TRUE] /\ DOMAIN sessions = Issued
        BY <1>1, <2>1 DEF Logout, Issued
      <3>2. \A n \in Issued \ {s} :
               [sessions[n] EXCEPT !.revoked = @ \/ n \in {s}] = sessions[n]
        BY <1>1 DEF Session
      <3>3. [sessions[s] EXCEPT !.revoked = @ \/ s \in {s}] = [sessions[s] EXCEPT !.revoked = TRUE]
        BY <1>1 DEF Session
      <3> QED
        BY <3>1, <3>2, <3>3
    <2>2. ASSUME NEW email \in Emails, RevokeAll(email)
          PROVE  \E live \in SUBSET Issued :
                    sessions' = [n \in Issued |-> [sessions[n] EXCEPT !.revoked = @ \/ n \in live]]
      BY <2>2 DEF RevokeAll
    <2> QED
      BY <2>1, <2>2
  <1>3. SessionsTyped' /\ SessionsTimed /\ SessionsGrow
    BY <1>1, <1>2, RevokedStep
  <1>4. UNCHANGED <<now, rows, accounts, tokens, clients, visits, memory>>
    BY DEF Logout, RevokeAll
  <1> QED
    BY <1>3, <1>4, ClientsStand, RestStands

LEMMA RestartStep ==
    ASSUME IInv, Restart
    PROVE  IInv'
  <1>1. /\ UNCHANGED <<now, rows, accounts, tokens, clients, sessions, visits>>
        /\ Stop /\ VisitsGrow /\ ChallengesMove
    BY DEF Restart, VisitsGrow, ChallengesMove
  <1> QED
    BY <1>1, TokensStand, SessionsStand, ClientsStand, MemoryStands, PartsMakeIInv

LEMMA InitIInv == Init => IInv
  <1> SUFFICES ASSUME Init PROVE IInv
    OBVIOUS
  <1>1. /\ now = 0 /\ rows = <<>> /\ accounts = {} /\ tokens = <<>> /\ sessions = <<>>
        /\ codes = {} /\ visits = {} /\ active = Untracked /\ served = Untracked
        /\ clients = [c \in Clients |-> Unregistered]
    BY DEF Init, SignUpInit
  <1>2. Ids = {} /\ Minted = {} /\ Issued = {}
    BY <1>1 DEF Ids, Minted, Issued
  <1>3. Known = {}
    BY <1>1 DEF Known, Unregistered
  <1>4. IsFiniteSet({}) /\ Cardinality({}) = 0
    BY FS_EmptySet
  <1>5. Unregistered \in Client
    BY DEF Unregistered, Client
  <1>6. clients \in [Clients -> Client]
    BY <1>1, <1>5
  <1>7. LimiterTypeOK(Times)
    BY <1>1 DEF LimiterTypeOK, Untracked
  <1>8. SignUpTypeOK
    BY <1>1, <1>2, SignUpAssumption DEF SignUpTypeOK
  <1>9. TypeOK
    <2>1. Len(tokens) = 0 /\ Len(sessions) = 0
      BY <1>1
    <2>2. MaxTokens \in Nat /\ MaxSessions \in Nat /\ MaxCodes \in Nat
      BY AccessAssumption
    <2> QED
      BY <1>1, <1>2, <1>4, <1>6, <1>7, <1>8, <2>1, <2>2 DEF TypeOK
  <1>10. Typed
    BY <1>1, <1>4, <1>9 DEF Typed
  <1>11. ChallengesCount
    <2>1. \A email : Live(email) = {}
      BY <1>2 DEF Live
    <2> QED
      BY <1>2, <1>4, <2>1, SignUpAssumption DEF ChallengesCount
  <1>12. GrantsAreAnswers /\ AnswersOpenTheirDoor /\ CodesWait /\ HandedOverOnce /\ ExpiryFollowsUse
    BY <1>1, <1>2 DEF GrantsAreAnswers, AnswersOpenTheirDoor, CodesWait, HandedOverOnce,
       ExpiryFollowsUse
  <1>13. TableFollowsUse
    <2>1. \A u \in Holders, s \in McpSessions : active[u][s] = Never /\ served[u][s] = Never
      BY <1>1 DEF Untracked
    <2>2. \A u \in Holders : Kept(u, now) = {} /\ Busy(u, now) = {}
      BY <2>1 DEF Kept, Busy
    <2> QED
      BY <1>4, <2>2, LimiterAssumption DEF TableFollowsUse
  <1> QED
    BY <1>3, <1>4, <1>10, <1>11, <1>12, <1>13 DEF IInv

LEMMA StutterStep ==
    ASSUME IInv, UNCHANGED vars
    PROVE  IInv'
  <1>1. /\ UNCHANGED <<now, rows, accounts, tokens, visits, memory>>
        /\ sessions' = sessions /\ clients' = clients
    BY DEF vars
  <1> QED
    BY <1>1, SessionsStand, ClientsStand, RestStands

LEMMA NextStep == IInv /\ [Next]_vars => IInv'
  <1> SUFFICES ASSUME IInv, [Next]_vars PROVE IInv'
    OBVIOUS
  <1>1. CASE Proving
    BY <1>1, ProvingStep
  <1>2. CASE \E i \in Ids : CompleteLink(i) \/ Login(i) \/ OpenBilling(i)
    BY <1>2, CompleteLinkStep, LoginIntoSession, OpenBillingStep
  <1>3. CASE \E client \in Clients, redirect \in Redirects, readable \in BOOLEAN,
                verifier \in Verifiers : Connecting(client, redirect, readable, verifier)
    BY <1>3, ConnectByCodeStep, ConnectByTokenStep DEF Connecting
  <1>4. CASE \E code \in codes, redirect \in Redirects, verifier \in Verifiers :
                Redeem(code, redirect, verifier)
    BY <1>4, RedeemIsFinal
  <1>5. CASE \E client \in Clients :
                Unregister(client) \/ \E uris \in SUBSET AllowedHosts : Register(client, uris)
    BY <1>5, RegisterStep, UnregisterStep
  <1>6. CASE \E t \in Minted :
                RevokeToken(t) \/ \E s \in McpSessions \cup {NoHeader} : CallTool(t, s)
    BY <1>6, RevokeTokenStep, CallToolStep
  <1>7. CASE \E s \in Issued : Resolve(s) \/ Logout(s)
    BY <1>7, SessionUsed, SessionsRevoked
  <1>8. CASE \E email \in Emails : RevokeAll(email)
    BY <1>8, SessionsRevoked
  <1>9. CASE Restart
    BY <1>9, RestartStep
  <1>10. CASE UNCHANGED vars
    BY <1>10, StutterStep
  <1> QED
    BY <1>1, <1>2, <1>3, <1>4, <1>5, <1>6, <1>7, <1>8, <1>9, <1>10 DEF Next

----------------------------------------------------------------------------
(* What follows *)

\* The inductive invariant holds of every behaviour.
THEOREM Invariant == Spec => []IInv
  <1>1. Init => IInv
    BY InitIInv
  <1>2. IInv /\ [Next]_vars => IInv'
    BY NextStep
  <1> QED
    BY <1>1, <1>2, PTL DEF Spec

\* Every variable keeps its type, the memory of codes and the table of MCP
\* sessions through every restart.
THEOREM TypesHold == Spec => []TypeOK
  <1>1. IInv => TypeOK
    BY DEF IInv, Typed
  <1> QED
    BY <1>1, Invariant, PTL

\* A set with no two elements has at most one.
LEMMA AtMostOne ==
    ASSUME NEW S, \A x, y \in S : x = y
    PROVE  IsFiniteSet(S) /\ Cardinality(S) \in {0, 1} /\ (Cardinality(S) = 0 <=> S = {})
  <1>1. CASE S = {}
    BY <1>1, FS_EmptySet
  <1>2. CASE S # {}
    <2>1. PICK x : S = {x}
      BY <1>2
    <2>2. IsFiniteSet(S) /\ Cardinality(S) = 1
      BY <2>1, FS_Singleton
    <2> QED
      BY <1>2, <2>2
  <1> QED
    BY <1>1, <1>2

\* A token, a session and a visit are of challenges of three purposes, and no
\* two of a kind are of one challenge.
LEMMA GrantsCount ==
    ASSUME IInv, NEW i \in Ids
    PROVE  GrantsOf(i) <= 1 /\ (GrantsOf(i) > 0 => rows[i].wrong < MaxAttempts)
  <1> DEFINE shown == {t \in Minted : tokens[t].challenge = i}
             issued == {s \in Issued : sessions[s].challenge = i}
             opened == IF i \in visits THEN 1 ELSE 0
  <1>1. i # 0
    BY DEF Ids
  <1>2. Cardinality(shown) \in {0, 1} /\ (Cardinality(shown) = 0 <=> shown = {})
    <2>1. \A t, u \in shown : t = u
      BY <1>1 DEF IInv, GrantsAreAnswers
    <2> HIDE DEF shown
    <2> QED
      BY <2>1, AtMostOne
  <1>3. Cardinality(issued) \in {0, 1} /\ (Cardinality(issued) = 0 <=> issued = {})
    <2>1. \A s, u \in issued : s = u
      BY DEF IInv, GrantsAreAnswers
    <2> HIDE DEF issued
    <2> QED
      BY <2>1, AtMostOne
  <1>4. GrantsOf(i) = Cardinality(shown) + Cardinality(issued) + opened
    BY DEF GrantsOf
  <1>5. /\ shown # {} => rows[i].purpose \in {"link", "code"} /\ Answered(i)
        /\ issued # {} => rows[i].purpose = "login" /\ Answered(i)
        /\ opened # 0 => rows[i].purpose = "billing" /\ Answered(i)
    BY <1>1 DEF IInv, GrantsAreAnswers, AnswersOpenTheirDoor
  <1>6. opened \in {0, 1}
    OBVIOUS
  <1> HIDE DEF shown, issued, opened
  <1>7. GrantsOf(i) <= 1
    BY <1>2, <1>3, <1>4, <1>5, <1>6
  <1>8. ASSUME GrantsOf(i) > 0 PROVE rows[i].wrong < MaxAttempts
    <2>1. Answered(i)
      BY <1>2, <1>3, <1>4, <1>5, <1>6, <1>8
    <2> QED
      BY <2>1 DEF Answered
  <1> QED
    BY <1>7, <1>8

\* A mailed challenge opens one door once: the row is spent in the transaction
\* that precedes the grant, and a spent row is not answered again.
THEOREM OneGrant == Spec => []OneGrantPerChallenge
  <1>1. IInv => OneGrantPerChallenge
    BY GrantsCount DEF OneGrantPerChallenge
  <1> QED
    BY <1>1, Invariant, PTL

\* The door is the one the mail named, and what came out belongs to the address
\* it was mailed to, or is passed on within the account.
THEOREM OpensItsDoor == Spec => []AnswersOpenTheirDoor
  <1>1. IInv => AnswersOpenTheirDoor
    BY DEF IInv
  <1> QED
    BY <1>1, Invariant, PTL

\* Multiplication by a natural number is monotone.
LEMMA ProductsGrow ==
    ASSUME NEW m \in Nat, NEW n \in Nat, NEW k \in Nat, m <= n
    PROVE  m * k <= n * k
  <1>1. n - m \in Nat /\ n = m + (n - m)
    OBVIOUS
  <1>2. n * k = m * k + (n - m) * k
    BY <1>1
  <1>3. (n - m) * k \in Nat
    BY <1>1
  <1> QED
    BY <1>2, <1>3

\* Live challenges times the attempts each allows short of the last.
LEMMA FewAreTried ==
    ASSUME IInv, NEW email \in Emails
    PROVE  Cardinality(UNION {{i} \X (1..rows[i].wrong) : i \in Live(email)})
             <= MaxLive * (MaxAttempts - 1)
  <1> DEFINE tried == UNION {{i} \X (1..rows[i].wrong) : i \in Live(email)}
             most == Live(email) \X (1..(MaxAttempts - 1))
  <1>1. Typed /\ ChallengesCount /\ MaxLive \in Nat /\ MaxAttempts \in Nat \ {0}
    BY SignUpAssumption DEF IInv
  <1>2. /\ IsFiniteSet(Live(email)) /\ Cardinality(Live(email)) \in Nat
        /\ Cardinality(Live(email)) <= MaxLive
    BY <1>1, IdsAreFinite DEF ChallengesCount
  <1>3. \A i \in Live(email) : rows[i].wrong \in Nat /\ rows[i].wrong <= MaxAttempts - 1
    <2>1. \A i \in Live(email) : i \in Ids /\ rows[i].used = NoTime
      BY DEF Live, Unspent
    <2>2. \A i \in Ids : rows[i].wrong \in Nat
      BY <1>1 DEF Typed, TypeOK, SignUpTypeOK, Challenge
    <2> QED
      BY <1>1, <2>1, <2>2 DEF ChallengesCount
  <1>4. tried \in SUBSET most
    <2>1. \A i \in Live(email) : 1..rows[i].wrong \subseteq 1..(MaxAttempts - 1)
      BY <1>1, <1>3
    <2> QED
      BY <2>1
  <1>5. IsFiniteSet(1..(MaxAttempts - 1)) /\ Cardinality(1..(MaxAttempts - 1)) = MaxAttempts - 1
    BY <1>1, FS_Interval
  <1>6. IsFiniteSet(most) /\ Cardinality(most) = Cardinality(Live(email)) * (MaxAttempts - 1)
    BY <1>2, <1>5, FS_Product
  <1>7. Cardinality(most) <= MaxLive * (MaxAttempts - 1)
    BY <1>1, <1>2, <1>6, ProductsGrow
  <1>8. MaxLive * (MaxAttempts - 1) \in Int
    BY <1>1
  <1> HIDE DEF tried, most
  <1>9. Cardinality(tried) <= MaxLive * (MaxAttempts - 1)
    BY <1>4, <1>6, <1>7, <1>8, PartsAreNoMore
  <1> QED
    BY <1>9 DEF tried

\* What the codes alive at an address have been tried with is bounded, and
\* none of them opens anything after the last attempt.
THEOREM GuessesBounded == Spec => []GuessesAreBounded
  <1>1. IInv => GuessesAreBounded
    BY FewAreTried, GrantsCount DEF GuessesAreBounded
  <1> QED
    BY <1>1, Invariant, PTL

\* A token is shown in one response, and asked for by one request.
THEOREM HandsOverOnce == Spec => []HandedOverOnce
  <1>1. IInv => HandedOverOnce
    BY DEF IInv
  <1> QED
    BY <1>1, Invariant, PTL

\* The row of a session ends with its use and not before, because last_seen_at
\* lags behind the last use by RefreshAfter at most; and not before the cookie,
\* because sliding only adds to the idle period that both began with.
THEOREM SessionRowsLast == Spec => []RowsServeTheirCookies
  <1>1. ASSUME IInv, NEW s \in Issued
        PROVE  LET session == sessions[s]
                   idle    == now - session.touched
               IN  /\ Resolves(s) => idle < IdleTtl
                   /\ ~session.revoked =>
                         /\ session.hard > now /\ idle < IdleTtl - RefreshAfter => Resolves(s)
                         /\ session.cookie > now => Resolves(s)
    <2>1. /\ sessions[s].touched \in Nat /\ sessions[s].seen \in Nat
          /\ sessions[s].expires \in Nat /\ sessions[s].hard \in Nat /\ sessions[s].cookie \in Nat
          /\ now \in Nat /\ IdleTtl \in Nat /\ RefreshAfter \in Nat
      BY <1>1, SignUpAssumption, AccessAssumption
         DEF IInv, Typed, TypeOK, SignUpTypeOK, Session
    <2>2. SessionTimed(sessions[s], now)
      BY <1>1 DEF IInv, ExpiryFollowsUse, SessionTimed
    <2> QED
      BY <2>1, <2>2 DEF SessionTimed, Resolves
  <1>2. IInv => RowsServeTheirCookies
    BY <1>1 DEF RowsServeTheirCookies
  <1> QED
    BY <1>2, Invariant, PTL

\* At most the cap of an account's sessions are in use, and none of them is
\* turned away: what the table keeps covers what was let through.
THEOREM CapHolds == Spec => []ConnectedAreCapped
  <1>1. ASSUME IInv, SessionCap # 0, NEW u \in Holders
        PROVE  /\ Cardinality(Busy(u, now)) <= SessionCap
               /\ \A s \in Busy(u, now) : Allowed(u, s, now)
    <2>1. /\ IsFiniteSet(Kept(u, now)) /\ Cardinality(Kept(u, now)) <= SessionCap
          /\ \A s \in Busy(u, now) : active[u][s] = served[u][s]
      BY <1>1 DEF IInv, TableFollowsUse
    <2>2. Busy(u, now) \in SUBSET Kept(u, now)
      BY <2>1 DEF Busy, Kept
    <2>3. Cardinality(Busy(u, now)) <= SessionCap
      BY <2>1, <2>2, PartsAreNoMore, LimiterAssumption
    <2> QED
      BY <2>2, <2>3 DEF Allowed
  <1>2. IInv => ConnectedAreCapped
    BY <1>1 DEF ConnectedAreCapped, CappedAndSpared
  <1> QED
    BY <1>2, Invariant, PTL

\* A registration goes only with its own request, with age, or when the table
\* is full and it is among the oldest.
THEOREM RegistrationsLast == Spec => RegistrationsStand
  <1> DEFINE Stands ==
        \A c \in Clients :
          clients[c].known /\ ~clients'[c].known =>
             \/ clients' = [clients EXCEPT ![c].known = FALSE]
             \/ clients[c].issued + ClientTtl < now
             \/ /\ Cardinality(Known) >= MaxClients
                /\ \A kept \in Known :
                      clients'[kept].known => clients[c].issued <= clients[kept].issued
  <1>1. ASSUME IInv, NEW client \in Clients, NEW uris \in SUBSET AllowedHosts,
               Register(client, uris)
        PROVE  Stands
    <2>1. clients \in [Clients -> Client] /\ IsFiniteSet(Known) /\ MaxClients \in Nat \ {0}
      BY <1>1, AccessAssumption DEF IInv, Typed, TypeOK
    <2>2. PICK gone \in Evicted \cup {{}} :
            clients' = [c \in Clients |->
                IF c = client THEN [known |-> TRUE, uris |-> uris, issued |-> now]
                ELSE IF c \in gone THEN [clients[c] EXCEPT !.known = FALSE]
                ELSE clients[c]]
      BY <1>1 DEF Register
    <2>3. ~clients[client].known
      BY <1>1 DEF Register, Unregistered
    <2> SUFFICES ASSUME NEW c \in Clients, clients[c].known, ~clients'[c].known
                 PROVE  \/ clients[c].issued + ClientTtl < now
                        \/ /\ Cardinality(Known) >= MaxClients
                           /\ \A kept \in Known : clients'[kept].known
                                => clients[c].issued <= clients[kept].issued
      OBVIOUS
    <2>4. c \in gone /\ c \in Known
      BY <2>2 DEF Known
    <2>5. gone \in Evicted
      BY <2>4
    <2> DEFINE live == {k \in Known : ~Expired(k)}
               excess == Cardinality(live) - MaxClients + 1
               few == IF excess > 0 THEN excess ELSE 0
    <2>6. PICK oldest \in Oldest(live, few) : gone = (Known \ live) \cup oldest
      BY <2>5 DEF Evicted
    <2>7. IsFiniteSet(live) /\ Cardinality(live) \in Nat /\ Cardinality(live) <= Cardinality(Known)
      <3>1. live \in SUBSET Known
        OBVIOUS
      <3> HIDE DEF live
      <3> QED
        BY <2>1, <3>1, FS_Subset, FS_CardinalityType
    <2>8. CASE c \notin oldest
      BY <2>4, <2>6, <2>8 DEF Expired
    <2>9. CASE c \in oldest
      <3>1. /\ oldest \in SUBSET live /\ Cardinality(oldest) = few
            /\ \A kept \in live \ oldest : clients[c].issued <= clients[kept].issued
        BY <2>9 DEF Oldest
      <3>2. excess > 0
        <4>1. IsFiniteSet(oldest)
          <5> HIDE DEF live
          <5> QED
            BY <2>7, <3>1, FS_Subset
        <4>2. Cardinality(oldest) # 0
          BY <2>9, <4>1, FS_EmptySet
        <4> QED
          BY <3>1, <4>2
      <3>3. Cardinality(Known) >= MaxClients
        <4>1. Cardinality(Known) \in Nat
          BY <2>1, FS_CardinalityType
        <4> HIDE DEF live
        <4> QED
          BY <2>1, <2>7, <3>2, <4>1
      <3>4. ASSUME NEW kept \in Known, clients'[kept].known
            PROVE  clients[c].issued <= clients[kept].issued
        <4>1. kept \in Clients /\ kept # client /\ clients[kept] \in Client
          BY <2>1, <2>3 DEF Known
        <4>2. kept \notin gone
          <5>1. ~[clients[kept] EXCEPT !.known = FALSE].known
            BY <4>1 DEF Client
          <5> QED
            BY <2>2, <3>4, <4>1, <5>1
        <4>3. kept \in live \ oldest
          BY <2>6, <4>2
        <4> QED
          BY <3>1, <4>3
      <3> QED
        BY <3>3, <3>4
    <2> QED
      BY <2>8, <2>9
  <1>2. ASSUME IInv, NEW client \in Clients, Unregister(client)
        PROVE  Stands
    <2>1. \A c \in Clients \ {client} : clients'[c] = clients[c]
      BY <1>2 DEF Unregister, IInv, Typed, TypeOK
    <2> QED
      BY <1>2, <2>1 DEF Unregister
  <1>3. ASSUME clients' = clients
        PROVE  Stands
    BY <1>3
  <1>4. IInv /\ [Next]_vars => [Stands]_vars
    <2> HIDE DEF Stands
    <2> SUFFICES ASSUME IInv, Next PROVE Stands
      OBVIOUS
    <2>1. CASE clients' = clients
      BY <1>3, <2>1
    <2>2. CASE clients' # clients
      <3>1. \E client \in Clients :
               Unregister(client) \/ \E uris \in SUBSET AllowedHosts : Register(client, uris)
        BY <2>2 DEF Next, Proving, CompleteLink, Login, OpenBilling, Connecting, ConnectByCode,
           ConnectByToken, Redeem, RevokeToken, CallTool, Resolve, Logout, RevokeAll, Restart
      <3> QED
        BY <1>1, <1>2, <3>1
    <2> QED
      BY <2>1, <2>2
  <1> QED
    BY <1>4, Invariant, PTL DEF Spec, RegistrationsStand

=============================================================================
