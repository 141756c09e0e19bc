------------------------------- MODULE Tokens -------------------------------
(***************************************************************************)
(* The tokens of one run of the server: create_room_token (state/mod.rs)   *)
(* on top of RoomStore, validate_jwt (sp-downstream/src/auth.rs), and the  *)
(* wall clock both read, which may be set forwards or backwards at any     *)
(* time.  Time is in whole seconds and saturates at MaxTime (u64::MAX).    *)
(* The signing key, issuer and audience are configured; a token is its     *)
(* claims, since nobody else can sign one.                                 *)
(***************************************************************************)
EXTENDS RoomStore

CONSTANTS
    Empty,      \* the empty string
    Ttl,        \* jwt_ttl_seconds
    MaxTime,    \* the largest time
    Never,      \* last_jwt_issue_seconds == None
    MaxTokens   \* bound: tokens made

Time == 0..MaxTime

ASSUME TokenAssumption ==
    /\ Empty \in RawNames
    /\ Ttl \in Nat /\ MaxTime \in Nat /\ MaxTokens \in Nat
    /\ Never \notin Time

VARIABLES
    clock,                   \* SystemTime::now() in seconds
    latest_clock,            \* the largest value it has had
    last_jwt_issue_seconds,
    tokens                   \* the tokens made, in order; `at` is the clock then

tokenVars == <<clock, latest_clock, last_jwt_issue_seconds, tokens>>
allVars   == <<rooms, labels, next_room_id, clock, latest_clock,
               last_jwt_issue_seconds, tokens>>

Token == [sub : RawNames, room_id : RoomIds, buckets : SUBSET BucketIds,
          exp : Time, at : Time]

Saturated_Slip(n) == n   \* plain addition
Saturated(n) == IF n > MaxTime THEN MaxTime ELSE n

TokenInit ==
    /\ Init
    /\ clock \in Time
    /\ latest_clock = clock
    /\ last_jwt_issue_seconds = Never
    /\ tokens = << >>

-----------------------------------------------------------------------------
SetClock(t) ==
    /\ clock' = t
    /\ latest_clock' = IF t > latest_clock THEN t ELSE latest_clock
    /\ UNCHANGED <<vars, last_jwt_issue_seconds, tokens>>

IssueTime_Slip == clock   \* two tokens of one second expire together
\* The clock, or one second after the last token if the clock is not past it.
IssueTime ==
    IF last_jwt_issue_seconds = Never \/ last_jwt_issue_seconds < clock THEN clock
    ELSE Saturated(last_jwt_issue_seconds + 1)

\* A room that is not loaded has no members, so it gets no token.
create_room_token(r, raw, granted) ==
    /\ Len(tokens) < MaxTokens
    /\ r \in DOMAIN rooms
    /\ Trim[raw] # Empty /\ Trim[raw] \in rooms[r].members
    /\ ServerOnlyBucket \notin granted
    /\ last_jwt_issue_seconds' = IssueTime
    /\ tokens' = Append(tokens,
           [sub |-> Trim[raw], room_id |-> r, buckets |-> granted \cup {PublicBucket},
            exp |-> Saturated(IssueTime + Ttl), at |-> clock])
    /\ UNCHANGED <<vars, clock, latest_clock>>

Accepts_Slip(token, now) == token.exp >= now   \* the last second counts
\* validate_jwt.
Accepts(token, now) == token.exp > now

TokenNext ==
    \/ Next /\ UNCHANGED tokenVars
    \/ \E t \in Time : SetClock(t)
    \/ \E r \in DOMAIN rooms, raw \in RawNames, granted \in SUBSET BucketIds :
          create_room_token(r, raw, granted)

TokenSpec == TokenInit /\ [][TokenNext]_allVars

-----------------------------------------------------------------------------
TokenTypeOK ==
    /\ clock \in Time
    /\ latest_clock \in clock..MaxTime
    /\ last_jwt_issue_seconds \in Time \cup {Never}
    /\ tokens \in Seq(Token)

(***************************************************************************)
(* However the clock is set, each token expires later than the one before  *)
(* it, so no two tokens are equal (test_create_room_token_monotone_        *)
(* timestamps: "successive tokens should differ in timestamp"); only at    *)
(* the end of time do they pile up.                                        *)
(***************************************************************************)
ExpiriesIncrease ==
    \A i, j \in DOMAIN tokens :
        i < j => tokens[i].exp < tokens[j].exp \/ tokens[j].exp = MaxTime

(***************************************************************************)
(* A token is honoured for its ttl, counted from the clock when it was     *)
(* made, and never much longer: a burst of tokens, or a clock that is set  *)
(* back, postpones its expiry by at most one second per earlier token,     *)
(* counted from the latest time the clock ever showed.                     *)
(***************************************************************************)
HonouredForItsTtl ==
    \A i \in DOMAIN tokens, now \in Time :
        LET token == tokens[i]
        IN  /\ now < Saturated(token.at + Ttl) => Accepts(token, now)
            /\ Accepts(token, now) => now < latest_clock + Ttl + (i - 1)
=============================================================================
