---------------------------- MODULE TokensProofs ----------------------------
(***************************************************************************)
(* The tokens of Tokens, for every ttl, every end of time, every way the   *)
(* clock is set and any number of tokens.                                  *)
(*                                                                         *)
(* Only the last issue time is kept, so the invariant says of every token  *)
(* that it does not outlive one issued at that time, and of that time that *)
(* it is at most one second per earlier token ahead of the clock's maximum.*)
(***************************************************************************)
EXTENDS Tokens, RoomStoreProofs

Expiry(issued) == Saturated(issued + Ttl)

TokensOK ==
    /\ last_jwt_issue_seconds = Never => tokens = << >>
    /\ last_jwt_issue_seconds # Never =>
          last_jwt_issue_seconds < latest_clock + Len(tokens)
    /\ \A i \in DOMAIN tokens :
          /\ Expiry(tokens[i].at) <= tokens[i].exp
          /\ tokens[i].exp <= latest_clock + Ttl + (i - 1)
          /\ last_jwt_issue_seconds # Never => tokens[i].exp <= Expiry(last_jwt_issue_seconds)
    /\ ExpiriesIncrease

TInv ==
    /\ IInv
    /\ TokenTypeOK
    /\ TokensOK

-----------------------------------------------------------------------------
(* Saturating addition keeps the order and stays within time.               *)
LEMMA SaturatedTime ==
    ASSUME NEW m \in Nat, NEW n \in Nat
    PROVE  /\ Saturated(m) \in Time /\ Saturated(m) <= m
           /\ m <= n => Saturated(m) <= Saturated(n)
           /\ m < n => Saturated(m) < Saturated(n) \/ Saturated(n) = MaxTime
  BY TokenAssumption DEF Saturated, Time

(* The next token's issue time is not before the clock and later than the   *)
(* last one's, except at the end of time.                                   *)
LEMMA IssueTimeIs ==
    ASSUME TokenTypeOK
    PROVE  /\ IssueTime \in Time /\ IssueTime # Never /\ clock <= IssueTime
           /\ \/ IssueTime = clock
              \/ last_jwt_issue_seconds # Never /\ IssueTime <= last_jwt_issue_seconds + 1
           /\ last_jwt_issue_seconds # Never =>
                 \/ last_jwt_issue_seconds < IssueTime
                 \/ last_jwt_issue_seconds = MaxTime /\ IssueTime = MaxTime
<1>1. /\ clock \in Nat /\ clock <= MaxTime /\ MaxTime \in Nat /\ Never \notin Time
      /\ last_jwt_issue_seconds # Never =>
            last_jwt_issue_seconds \in Nat /\ last_jwt_issue_seconds <= MaxTime
  BY TokenAssumption DEF TokenTypeOK, Time
<1>2. CASE last_jwt_issue_seconds = Never
  BY <1>1, <1>2 DEF IssueTime, Time
<1>3. CASE last_jwt_issue_seconds # Never
  BY <1>1, <1>3 DEF IssueTime, Time, Saturated
<1> QED
  BY <1>2, <1>3

(* What the type says of one token.                                         *)
LEMMA TokenFields ==
    ASSUME tokens \in Seq(Token), NEW i \in DOMAIN tokens
    PROVE  /\ i \in Nat
           /\ tokens[i].exp \in Nat /\ tokens[i].exp <= MaxTime
           /\ tokens[i].at \in Nat
<1>1. i \in 1..Len(tokens) /\ Len(tokens) \in Nat
  OBVIOUS
<1>2. tokens[i] \in Token
  BY <1>1
<1>3. tokens[i].exp \in Time /\ tokens[i].at \in Time
  BY <1>2 DEF Token
<1> QED
  BY <1>1, <1>3, TokenAssumption DEF Time

LEMMA TokenSaved ==
    ASSUME TInv, NEW r \in DOMAIN rooms, NEW raw \in RawNames, NEW granted \in SUBSET BucketIds,
           create_room_token(r, raw, granted)
    PROVE  TokenTypeOK' /\ TokensOK'
<1> DEFINE I == IssueTime
           new == [sub |-> Trim[raw], room_id |-> r, buckets |-> granted \cup {PublicBucket},
                   exp |-> Expiry(I), at |-> clock]
           L == last_jwt_issue_seconds
           n == Len(tokens)
<1>1. /\ L' = I /\ tokens' = Append(tokens, new)
      /\ clock' = clock /\ latest_clock' = latest_clock
  BY Zenon DEF create_room_token, Expiry
<1>2. /\ clock \in Nat /\ latest_clock \in Nat /\ clock <= latest_clock
      /\ latest_clock <= MaxTime /\ clock \in Time /\ MaxTime \in Nat /\ Ttl \in Nat
      /\ L # Never => L \in Nat /\ L <= MaxTime
      /\ tokens \in Seq(Token) /\ n \in Nat
  BY TokenAssumption DEF TInv, TokenTypeOK, Time
<1>3. /\ I \in Time /\ I \in Nat /\ I # Never /\ clock <= I
      /\ I = clock \/ (L # Never /\ I <= L + 1)
      /\ L # Never => L < I \/ (L = MaxTime /\ I = MaxTime)
  BY IssueTimeIs, TokenAssumption DEF TInv, Time
<1> HIDE DEF I
<1>4. new \in Token
  <2>1. Expiry(I) \in Time
    BY <1>2, <1>3, SaturatedTime DEF Expiry
  <2>2. granted \cup {PublicBucket} \in SUBSET BucketIds /\ Trim[raw] \in RawNames
        /\ r \in RoomIds
    BY RoomAssumption DEF TInv, IInv, TypeOK
  <2> QED
    BY <1>2, <2>1, <2>2 DEF Token
<1>5. new.exp = Expiry(I) /\ new.at = clock
  OBVIOUS
<1> HIDE DEF new
<1>6. /\ tokens' \in Seq(Token) /\ Len(tokens') = n + 1 /\ tokens'[n + 1] = new
      /\ \A i \in DOMAIN tokens : tokens'[i] = tokens[i]
      /\ DOMAIN tokens' = 1..(n + 1) /\ DOMAIN tokens = 1..n
      /\ n + 1 \in DOMAIN tokens' /\ \A i \in DOMAIN tokens' : i \in DOMAIN tokens \/ i = n + 1
  BY <1>1, <1>2, <1>4
<1>7. TokenTypeOK'
  BY <1>1, <1>2, <1>3, <1>6 DEF TInv, TokenTypeOK
<1>8. \A i \in DOMAIN tokens : tokens[i].exp \in Nat /\ tokens[i].exp <= MaxTime
                               /\ tokens[i].at \in Nat
  BY <1>2, TokenFields
<1>9. L = Never => n = 0
  BY DEF TInv, TokensOK
<1>10. L # Never => Expiry(L) <= Expiry(I) /\ (Expiry(L) < Expiry(I) \/ Expiry(I) = MaxTime)
                    /\ Expiry(L) \in Nat /\ Expiry(L) <= MaxTime
  BY <1>2, <1>3, SaturatedTime DEF Expiry, Saturated, Time
<1>11. /\ Expiry(I) \in Nat /\ Expiry(I) <= I + Ttl /\ Expiry(clock) <= Expiry(I)
       /\ Expiry(I) <= MaxTime
  BY <1>2, <1>3, SaturatedTime DEF Expiry, Time
<1>12. I < latest_clock + (n + 1)
  <2>1. L # Never => L < latest_clock + n
    BY DEF TInv, TokensOK
  <2> QED
    BY <1>2, <1>3, <2>1
<1>13. ASSUME NEW i \in DOMAIN tokens'
       PROVE  /\ Expiry(tokens'[i].at) <= tokens'[i].exp
              /\ tokens'[i].exp <= latest_clock' + Ttl + (i - 1)
              /\ tokens'[i].exp <= Expiry(I)
  <2>1. CASE i \in DOMAIN tokens
    <3>1. L # Never
      BY <1>6, <1>9, <2>1
    <3>2. /\ Expiry(tokens[i].at) <= tokens[i].exp
          /\ tokens[i].exp <= latest_clock + Ttl + (i - 1)
          /\ tokens[i].exp <= Expiry(L)
      BY <2>1, <3>1 DEF TInv, TokensOK
    <3>3. tokens[i].exp <= Expiry(I)
      BY <1>8, <1>10, <1>11, <2>1, <3>1, <3>2
    <3> QED
      BY <1>1, <1>6, <2>1, <3>2, <3>3
  <2>2. CASE i = n + 1
    <3>1. tokens'[i].exp = Expiry(I) /\ tokens'[i].at = clock
      BY <1>5, <1>6, <2>2
    <3>2. Expiry(I) <= latest_clock + Ttl + ((n + 1) - 1)
      BY <1>2, <1>3, <1>11, <1>12
    <3> QED
      BY <1>1, <1>2, <1>11, <2>2, <3>1, <3>2
  <2> QED
    BY <1>6, <2>1, <2>2
<1>14. ExpiriesIncrease'
  <2> SUFFICES ASSUME NEW i \in DOMAIN tokens', NEW j \in DOMAIN tokens', i < j
               PROVE  tokens'[i].exp < tokens'[j].exp \/ tokens'[j].exp = MaxTime
    BY DEF ExpiriesIncrease
  <2>1. i \in DOMAIN tokens
    BY <1>2, <1>6
  <2>2. CASE j \in DOMAIN tokens
    BY <1>6, <2>1, <2>2 DEF TInv, TokensOK, ExpiriesIncrease
  <2>3. CASE j = n + 1
    <3>1. L # Never
      BY <1>6, <1>9, <2>1
    <3>2. tokens[i].exp <= Expiry(L)
      BY <2>1, <3>1 DEF TInv, TokensOK
    <3>3. tokens[i].exp < Expiry(I) \/ Expiry(I) = MaxTime
      BY <1>8, <1>10, <1>11, <2>1, <3>1, <3>2
    <3> QED
      BY <1>5, <1>6, <2>1, <2>3, <3>3
  <2> QED
    BY <1>6, <2>2, <2>3
<1>15. L' # Never /\ L' < latest_clock' + Len(tokens')
  BY <1>1, <1>3, <1>6, <1>12
<1>16. TokensOK'
  BY <1>1, <1>13, <1>14, <1>15 DEF TokensOK
<1> QED
  BY <1>7, <1>16

(* Setting the clock leaves the tokens, and never lowers its maximum.       *)
LEMMA ClockSet ==
    ASSUME TInv, NEW t \in Time, SetClock(t)
    PROVE  TokenTypeOK' /\ TokensOK'
<1>1. /\ clock' = t /\ latest_clock' = IF t > latest_clock THEN t ELSE latest_clock
      /\ last_jwt_issue_seconds' = last_jwt_issue_seconds /\ tokens' = tokens
  BY DEF SetClock
<1>2. /\ latest_clock \in Nat /\ latest_clock <= MaxTime /\ t \in Nat /\ t <= MaxTime
      /\ MaxTime \in Nat /\ Ttl \in Nat /\ tokens \in Seq(Token)
      /\ last_jwt_issue_seconds # Never => last_jwt_issue_seconds \in Nat
  BY TokenAssumption DEF TInv, TokenTypeOK, Time
<1>3. latest_clock' \in Nat /\ latest_clock <= latest_clock' /\ latest_clock' \in t..MaxTime
  BY <1>1, <1>2
<1>4. TokenTypeOK'
  BY <1>1, <1>3 DEF TInv, TokenTypeOK
<1>5. \A i \in DOMAIN tokens : tokens[i].exp \in Nat /\ i \in Nat
  BY <1>2, TokenFields
<1>6. ASSUME NEW i \in DOMAIN tokens
      PROVE  tokens[i].exp <= latest_clock' + Ttl + (i - 1)
  <2>1. tokens[i].exp <= latest_clock + Ttl + (i - 1)
    BY DEF TInv, TokensOK
  <2> QED
    BY <1>2, <1>3, <1>5, <2>1, SMTT(30)
<1>7. Len(tokens) \in Nat
  BY <1>2
<1>8. last_jwt_issue_seconds # Never => last_jwt_issue_seconds < latest_clock' + Len(tokens)
  BY <1>2, <1>3, <1>7 DEF TInv, TokensOK
<1>9. ExpiriesIncrease'
  BY <1>1 DEF TInv, TokensOK, ExpiriesIncrease
<1>10. TokensOK'
  BY <1>1, <1>6, <1>8, <1>9 DEF TInv, TokensOK
<1> QED
  BY <1>4, <1>10

-----------------------------------------------------------------------------
LEMMA InitTInv == TokenInit => TInv
<1> SUFFICES ASSUME TokenInit PROVE TInv
  OBVIOUS
<1>1. /\ Init /\ clock \in Time /\ latest_clock = clock
      /\ last_jwt_issue_seconds = Never /\ tokens = << >>
  BY DEF TokenInit
<1>2. latest_clock \in clock..MaxTime
  BY <1>1, TokenAssumption DEF Time
<1>3. TokenTypeOK
  BY <1>1, <1>2 DEF TokenTypeOK
<1>4. TokensOK
  BY <1>1 DEF TokensOK, ExpiriesIncrease
<1> QED
  BY <1>1, <1>3, <1>4, InitIInv DEF TInv

LEMMA TokenNextIsStoreNext == [TokenNext]_allVars => [Next]_vars
  BY DEF TokenNext, allVars, vars, SetClock, create_room_token

LEMMA NextKeepsTInv == TInv /\ [TokenNext]_allVars => TInv'
<1> SUFFICES ASSUME TInv, [TokenNext]_allVars PROVE TInv'
  OBVIOUS
<1>1. IInv'
  BY TokenNextIsStoreNext, NextKeepsIInv DEF TInv
<1>2. ASSUME UNCHANGED tokenVars PROVE TokenTypeOK' /\ TokensOK'
  BY <1>2 DEF tokenVars, TInv, TokenTypeOK, TokensOK, ExpiriesIncrease
<1>3. ASSUME NEW t \in Time, SetClock(t) PROVE TokenTypeOK' /\ TokensOK'
  BY <1>3, ClockSet
<1>4. ASSUME NEW r \in DOMAIN rooms, NEW raw \in RawNames, NEW granted \in SUBSET BucketIds,
             create_room_token(r, raw, granted)
      PROVE  TokenTypeOK' /\ TokensOK'
  BY <1>4, TokenSaved
<1>5. UNCHANGED allVars => UNCHANGED tokenVars
  BY DEF allVars, tokenVars
<1> QED
  BY <1>1, <1>2, <1>3, <1>4, <1>5 DEF TokenNext, TInv

LEMMA TInvAlways == TokenSpec => []TInv
  BY InitTInv, NextKeepsTInv, PTL DEF TokenSpec

(* The clock's maximum is really one, and a token is well formed.           *)
THEOREM TokenTypeCorrect == TokenSpec => []TokenTypeOK
<1>1. TInv => TokenTypeOK
  BY DEF TInv
<1> QED
  BY <1>1, TInvAlways, PTL

(* However the clock is set, each token expires later than the one before.  *)
THEOREM TokensDiffer == TokenSpec => []ExpiriesIncrease
<1>1. TInv => ExpiriesIncrease
  BY DEF TInv, TokensOK
<1> QED
  BY <1>1, TInvAlways, PTL

(* A token is honoured for its ttl, and at most one second per earlier      *)
(* token longer than the latest clock justifies.                            *)
THEOREM TtlKept == TokenSpec => []HonouredForItsTtl
<1>1. ASSUME TInv PROVE HonouredForItsTtl
  <2> SUFFICES ASSUME NEW i \in DOMAIN tokens, NEW now \in Time
               PROVE  /\ now < Saturated(tokens[i].at + Ttl) => tokens[i].exp > now
                      /\ tokens[i].exp > now => now < latest_clock + Ttl + (i - 1)
    BY DEF HonouredForItsTtl, Accepts
  <2>1. /\ tokens \in Seq(Token) /\ now \in Nat /\ latest_clock \in Nat /\ Ttl \in Nat
        /\ Expiry(tokens[i].at) <= tokens[i].exp
        /\ tokens[i].exp <= latest_clock + Ttl + (i - 1)
    BY <1>1, TokenAssumption DEF TInv, TokenTypeOK, TokensOK, Time
  <2>2. tokens[i].exp \in Nat /\ tokens[i].at \in Nat /\ i \in Nat
    BY <2>1, TokenFields
  <2>3. Saturated(tokens[i].at + Ttl) \in Nat
    BY <2>1, <2>2, TokenAssumption DEF Saturated
  <2> QED
    BY <2>1, <2>2, <2>3 DEF Expiry
<1> QED
  BY <1>1, TInvAlways, PTL

(* Making tokens and setting the clock leave AppState's rooms alone, so     *)
(* what is proved of Spec holds here: labels name live rooms, and the id a  *)
(* token names is never given to another room.                              *)
THEOREM TokensLeaveStoreAlone == TokenSpec => Spec
<1>1. TokenInit => Init
  BY DEF TokenInit
<1> QED
  BY <1>1, TokenNextIsStoreNext, PTL DEF TokenSpec, Spec

(* The room a token was made for is the only one its id ever names.         *)
THEOREM TokenRoomsNeverReused == TokenSpec => RoomIdsNeverReused
  BY TokensLeaveStoreAlone, IdsNeverReused
=============================================================================
