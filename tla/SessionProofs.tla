---------------------------- MODULE SessionProofs ----------------------------
(* Theorems about Session, for every value of its constants.               *)
EXTENDS Session, TLAPS

USE SessionAssumption

-----------------------------------------------------------------------------
(* The inductive invariant.                                                *)

Tokens == [life : Lifetimes, spent : Nat]

\* The types of what a frame changes.
ScreenTypes ==
    /\ pc \in {"off", "restore", "free", "dialog", "work", "rebuild", "list",
               "page", "accept", "reading", "exchange", "connected"}
    /\ setup_mode \in BOOLEAN /\ unlocked \in BOOLEAN
    /\ age \in 0..(LockAfter + 1) /\ idle \in 0..(LockAfter + 1)
    /\ due \in BOOLEAN /\ pending \in BOOLEAN /\ inputs \in 0..MaxInputs

\* The types of the session's tokens, with what TypeOK leaves open.
TokenTypes ==
    /\ access \in Tokens \cup {None}
    /\ access # None => access.spent <= access.life + MinLife
    /\ expires \in Nat \cup {None}
    /\ grants \in Nat
    /\ {refresh, keyring} \subseteq 1..grants \cup {None}
    /\ (access = None) <=> (refresh = None)

\* A session is restored only if one is saved.
Types == ScreenTypes /\ TokenTypes /\ (pc = "restore" => keyring # None)

\* An unlocked window measures the idle time of its user, and when no second
\* has passed since the last frame, that frame has looked at it.
LockInv ==
    /\ pc = "off" => ~unlocked
    /\ unlocked => age = idle
    /\ unlocked /\ ~due => idle < LockAfter

\* While a token is not given up, what is spent of it, what is left until it
\* is, and its margin make its life; without a margin, the life it was assumed
\* to have.
TokenInv ==
    access # None /\ expires # None /\ expires # 0 =>
        IF access.life >= Margin THEN access.spent + expires + Margin = access.life
        ELSE access.spent + expires = MinLife

-----------------------------------------------------------------------------
(* Lemmas about the operators.                                             *)

\* A new token has nothing spent yet, and what is kept of its end.
LEMMA NewToken ==
    ASSUME NEW life \in Lifetimes
    PROVE  /\ Token(life) \in Tokens
           /\ Token(life) # None
           /\ Token(life).life = life /\ Token(life).spent = 0
           /\ life \in Nat
           /\ ExpiresIn(life) \in Nat /\ ExpiresIn(life) # None
<1>1. life \in Nat
  OBVIOUS
<1>2. Token(life) \in [life : Nat, spent : Nat]
  BY <1>1 DEF Token
<1> QED
  BY <1>1, <1>2 DEF Token, Tokens, ExpiresIn

\* The age of an event never exceeds the bound of the model.
LEMMA AgesBounded ==
    ASSUME NEW a \in 0..(LockAfter + 1)
    PROVE  Least(a + 1, LockAfter + 1) \in 0..(LockAfter + 1)
  BY DEF Least

\* A clock or counter that is reset is within its bound.
LEMMA ZeroInBounds == 0 \in 0..(LockAfter + 1) /\ 0 \in 0..MaxInputs
  OBVIOUS

\* What a refresh that succeeds establishes.
LEMMA RefreshOkTypes ==
    ASSUME Types, NEW token \in 1..grants, RefreshOk(token),
           UNCHANGED <<lockVars, inputVars>>
    PROVE  /\ access' \in Tokens /\ access' # None
           /\ access'.spent <= access'.life + MinLife
           /\ expires' \in Nat
           /\ grants' \in Nat
           /\ refresh' \in 1..grants' /\ refresh' # None
           /\ keyring' \in 1..grants' \cup {None}
<1>1. PICK life \in Lifetimes :
        /\ access' = Token(life)
        /\ expires' = ExpiresIn(life)
        /\ \/ refresh' = token /\ UNCHANGED saveVars
           \/ /\ grants' = grants + 1
              /\ keyring' = grants' /\ refresh' = grants'
  BY DEF RefreshOk, save_refresh_token
<1>2. /\ access' \in Tokens /\ access' # None /\ expires' \in Nat
      /\ access'.spent <= access'.life + MinLife
  BY <1>1, NewToken
<1>3. grants \in Nat /\ keyring \in 1..grants \cup {None}
  BY DEF Types, TokenTypes
<1> QED
  BY <1>1, <1>2, <1>3 DEF saveVars

\* What a refresh that fails may change.
LEMMA RefreshFailsTypes ==
    ASSUME Types, refresh # None, RefreshFails
    PROVE  /\ access' \in Tokens /\ access' # None
           /\ access'.spent <= access'.life + MinLife
           /\ UNCHANGED <<refresh, expires, keyring>>
           /\ grants' \in Nat /\ grants' >= grants
<1>1. /\ grants \in Nat /\ access \in Tokens \cup {None} /\ access # None
      /\ access.spent <= access.life + MinLife
  BY DEF Types, TokenTypes
<1>2. CASE UNCHANGED <<tokenVars, saveVars>>
  BY <1>1, <1>2 DEF tokenVars, saveVars
<1>3. CASE /\ grants' = grants + 1
           /\ \E life \in Lifetimes : access' = Token(life)
           /\ UNCHANGED <<refresh, expires, keyring>>
  <2>1. PICK life \in Lifetimes : access' = Token(life)
    BY <1>3
  <2>2. /\ access' \in Tokens /\ access' # None
        /\ access'.spent <= access'.life + MinLife
    BY <2>1, NewToken
  <2> QED
    BY <1>1, <1>3, <2>2
<1> QED
  BY <1>2, <1>3 DEF RefreshFails

-----------------------------------------------------------------------------
(* Every step keeps the types.                                             *)

\* access_token keeps the types, whichever way it goes on.
LEMMA AccessTokenTypes ==
    ASSUME Types, NEW then, NEW otherwise, AccessToken(then, otherwise)
    PROVE  /\ access' \in Tokens \cup {None}
           /\ access' # None => access'.spent <= access'.life + MinLife
           /\ expires' \in Nat \cup {None}
           /\ grants' \in Nat
           /\ {refresh', keyring'} \subseteq 1..grants' \cup {None}
           /\ (access' = None) <=> (refresh' = None)
<1>1. /\ grants \in Nat /\ expires \in Nat \cup {None}
      /\ access \in Tokens \cup {None}
      /\ access # None => access.spent <= access.life + MinLife
      /\ {refresh, keyring} \subseteq 1..grants \cup {None}
      /\ (access = None) <=> (refresh = None)
  BY DEF Types, TokenTypes
<1>2. CASE UNCHANGED <<tokenVars, saveVars>>
  BY <1>1, <1>2 DEF tokenVars, saveVars
<1>3. CASE refresh # None /\ RefreshOk(refresh)
  <2>1. refresh \in 1..grants
    BY <1>1, <1>3
  <2>2. UNCHANGED <<lockVars, inputVars>>
    BY DEF AccessToken
  <2> QED
    BY <1>3, <2>1, <2>2, RefreshOkTypes
<1>4. CASE refresh # None /\ RefreshFails
  <2>1. /\ access' \in Tokens /\ access' # None
        /\ access'.spent <= access'.life + MinLife
        /\ UNCHANGED <<refresh, expires, keyring>>
        /\ grants' \in Nat /\ grants' >= grants
    BY <1>4, RefreshFailsTypes
  <2> QED
    BY <1>1, <1>4, <2>1
<1> QED
  BY <1>2, <1>3, <1>4 DEF AccessToken

\* Types is the type invariant, with what it leaves open.
LEMMA TypesGiveTypeOK == Types => TypeOK
  BY DEF Types, ScreenTypes, TokenTypes, TypeOK

LEMMA InitTypes == Init => Types
<1> SUFFICES ASSUME Init PROVE Types
  OBVIOUS
<1>1. ScreenTypes
  BY ZeroInBounds, Zenon DEF Init, ScreenTypes
<1>2. TokenTypes
  BY DEF Init, TokenTypes
<1> QED
  BY <1>1, <1>2 DEF Init, Types

\* A step that leaves the tokens alone, or the screen, need not look at them.
LEMMA TokensUnchanged ==
    ASSUME TokenTypes, UNCHANGED <<tokenVars, saveVars>> PROVE TokenTypes'
  BY DEF TokenTypes, tokenVars, saveVars

\* The steps of frames, events and handlers keep the types of the screen.
LEMMA NextKeepsScreenTypes ==
    ASSUME Types, [Next]_vars PROVE ScreenTypes'
<1> USE DEF Types, ScreenTypes
<1>1. CASE UNCHANGED vars
  BY <1>1 DEF vars, lockVars, inputVars
<1>2. CASE Start \/ Stop
  BY <1>2, ZeroInBounds, Zenon DEF Start, Stop, Goto
<1>3. CASE Input
  BY <1>3 DEF Input, lockVars
<1>4. CASE Tick
  BY <1>4, AgesBounded DEF Tick
<1>5. CASE Frame
  BY <1>5, ZeroInBounds, Zenon DEF Frame, Drawn
<1>6. CASE Unlock \/ Lock \/ Call
  BY <1>6, ZeroInBounds, Zenon DEF Unlock, Lock, Call, Clicked, Drawn
<1>7. CASE Disconnect
  BY <1>7, ZeroInBounds, Zenon DEF Disconnect, Clicked, Drawn
<1>8. CASE Restore \/ Exchange
  BY <1>8 DEF Restore, Exchange, Goto, lockVars, inputVars
<1>9. CASE Rebuild \/ Connected \/ List
  BY <1>9 DEF Rebuild, Connected, List, AccessToken, lockVars, inputVars
<1>10. CASE DialogAnswered \/ WorkEnds \/ ListEnds \/ BrowserConnects
            \/ CannotOpen \/ BrowserCloses
  BY <1>10 DEF DialogAnswered, WorkEnds, ListEnds, BrowserConnects, CannotOpen,
     BrowserCloses, Goto, lockVars, inputVars
<1> QED
  BY <1>1, <1>2, <1>3, <1>4, <1>5, <1>6, <1>7, <1>8, <1>9, <1>10 DEF Next, Step

\* Time adds to what is spent of a token, and to nothing else of it.
LEMMA TickKeepsTokenTypes ==
    ASSUME Types, Tick PROVE TokenTypes'
<1>1. /\ expires' \in Nat \cup {None}
      /\ UNCHANGED <<refresh, keyring, grants>>
  BY DEF Types, TokenTypes, Tick, needs_refresh, saveVars
<1>2. CASE access = None
  BY <1>1, <1>2 DEF Types, TokenTypes, Tick
<1>3. CASE access # None
  <2>1. /\ access \in Tokens /\ access.spent \in Nat /\ access.life \in Nat
        /\ access.life \in Lifetimes /\ access.spent <= access.life + MinLife
    BY <1>3 DEF Types, TokenTypes, Tokens
  <2>2. access' = [life |-> access.life,
                   spent |-> Least(access.spent + 1, access.life + MinLife)]
    BY <1>3, <2>1 DEF Tick, Tokens
  <2> DEFINE spent == Least(access.spent + 1, access.life + MinLife)
  <2>3. spent \in Nat /\ spent <= access.life + MinLife
    BY <2>1 DEF Least
  <2> HIDE DEF spent
  <2>4. access' = [life |-> access.life, spent |-> spent]
    BY <2>2 DEF spent
  <2>5. access' \in Tokens /\ access' \in [life : Nat, spent : Nat]
    BY <2>1, <2>3, <2>4 DEF Tokens
  <2>6. access'.spent <= access'.life + MinLife /\ access' # None
    BY <2>1, <2>3, <2>4, <2>5
  <2> QED
    BY <1>1, <1>3, <2>5, <2>6 DEF Types, TokenTypes
<1> QED
  BY <1>2, <1>3

\* restore_saved_session keeps the types of the tokens.
LEMMA RestoreKeepsTokenTypes ==
    ASSUME Types, Restore PROVE TokenTypes'
<1>1. keyring \in 1..grants /\ UNCHANGED <<lockVars, inputVars>>
  BY DEF Restore, Goto, Types, TokenTypes
<1>2. CASE /\ Cleared /\ UNCHANGED keyring
           /\ grants' \in grants..Least(grants + 1, MaxGrants)
  <2>1. grants' \in Nat /\ grants' >= grants
    BY <1>2 DEF Types, TokenTypes
  <2> QED
    BY <1>1, <1>2, <2>1 DEF Cleared, Types, TokenTypes
<1>3. CASE RefreshOk(keyring)
  <2>1. /\ access' \in Tokens /\ access' # None
        /\ access'.spent <= access'.life + MinLife
        /\ expires' \in Nat
        /\ grants' \in Nat
        /\ refresh' \in 1..grants' /\ refresh' # None
        /\ keyring' \in 1..grants' \cup {None}
    BY <1>1, <1>3, RefreshOkTypes
  <2> QED
    BY <2>1 DEF Types, TokenTypes
<1> QED
  BY <1>2, <1>3 DEF Restore, load_refresh_token

\* So does the exchange of a code for tokens.
LEMMA ExchangeKeepsTokenTypes ==
    ASSUME Types, Exchange PROVE TokenTypes'
<1>1. CASE UNCHANGED <<tokenVars, saveVars>>
  BY <1>1, TokensUnchanged DEF Types
<1>2. CASE /\ grants' = grants + 1
           /\ \E life \in Lifetimes : access' = Token(life) /\ expires' = ExpiresIn(life)
           /\ refresh' = grants' /\ keyring' = grants'
  <2>1. PICK life \in Lifetimes : access' = Token(life) /\ expires' = ExpiresIn(life)
    BY <1>2
  <2>2. /\ access' \in Tokens /\ access' # None /\ expires' \in Nat
        /\ access'.spent <= access'.life + MinLife
    BY <2>1, NewToken
  <2>3. grants' \in Nat /\ grants' \in 1..grants' /\ refresh' # None
    BY <1>2 DEF Types, TokenTypes
  <2> QED
    BY <1>2, <2>2, <2>3, Zenon DEF TokenTypes
<1> QED
  BY <1>1, <1>2 DEF Exchange, save_refresh_token

\* And every step.
LEMMA NextKeepsTokenTypes ==
    ASSUME Types, [Next]_vars PROVE TokenTypes'
<1>1. CASE UNCHANGED vars
  BY <1>1, TokensUnchanged DEF Types, vars
<1>2. CASE Start \/ Input \/ Frame \/ Unlock \/ Lock \/ Call
  BY <1>2, TokensUnchanged DEF Types, Start, Input, Frame, Unlock, Lock, Call
<1>3. CASE Stop
  BY <1>3 DEF Stop, Cleared, Types, TokenTypes, saveVars
<1>4. CASE Tick
  BY <1>4, TickKeepsTokenTypes
<1>5. CASE Disconnect
  <2>1. keyring' \in {None, keyring} /\ grants' = grants
    BY <1>5 DEF Disconnect, delete_refresh_token, Types, TokenTypes
  <2>2. Cleared \/ UNCHANGED tokenVars
    BY <1>5 DEF Disconnect
  <2> QED
    BY <2>1, <2>2 DEF Cleared, tokenVars, Types, TokenTypes
<1>6. CASE Restore
  BY <1>6, RestoreKeepsTokenTypes
<1>7. CASE Exchange
  BY <1>7, ExchangeKeepsTokenTypes
<1>8. CASE Rebuild \/ Connected \/ List
  <2>1. PICK then \in {"work", "list", "page"}, otherwise \in {"free", "list"} :
           AccessToken(then, otherwise)
    BY <1>8 DEF Rebuild, Connected, List
  <2> QED
    BY <2>1, AccessTokenTypes DEF Types, TokenTypes
<1>9. CASE DialogAnswered \/ WorkEnds \/ ListEnds \/ BrowserConnects
            \/ CannotOpen \/ BrowserCloses
  BY <1>9, TokensUnchanged DEF Types, DialogAnswered, WorkEnds, ListEnds,
     BrowserConnects, CannotOpen, BrowserCloses
<1> QED
  BY <1>1, <1>2, <1>3, <1>4, <1>5, <1>6, <1>7, <1>8, <1>9 DEF Next, Step

\* A session is restored only right after the start, which found it saved.
LEMMA NextKeepsTypes ==
    ASSUME Types, [Next]_vars PROVE Types'
<1>1. pc' = "restore" => keyring' # None
  <2>1. CASE pc = "restore" /\ pc' = "restore"
    <3>1. UNCHANGED saveVars
      BY <2>1 DEF Next, Step, vars, Start, Stop, Input, Tick, Unlock, Lock, Call,
         Disconnect, Clicked, Frame, CanDraw, FrameDue, Restore, Goto,
         DialogAnswered, BrowserConnects, CannotOpen, BrowserCloses, WorkEnds,
         Rebuild, Connected, List, ListEnds, Exchange
    <3> QED
      BY <2>1, <3>1 DEF Types, saveVars
  <2>2. CASE pc # "restore" /\ pc' = "restore"
    <3>1. Start
      BY <2>2 DEF Next, Step, vars, Stop, Input, Tick, Unlock, Lock, Call,
         Disconnect, Clicked, Frame, Restore, Goto, DialogAnswered,
         BrowserConnects, CannotOpen, BrowserCloses, WorkEnds, Rebuild,
         Connected, List, ListEnds, Exchange, AccessToken
    <3> QED
      BY <2>2, <3>1 DEF Start, Goto, load_refresh_token, saveVars
  <2> QED
    BY <2>1, <2>2
<1> QED
  BY <1>1, NextKeepsScreenTypes, NextKeepsTokenTypes DEF Types

-----------------------------------------------------------------------------
(* The lock.                                                               *)

\* A second that passes makes a frame due, so that no idle time goes unseen;
\* a frame that leaves the window unlocked has found it within the limit.
LEMMA NextKeepsLockInv ==
    ASSUME Types, LockInv, [Next]_vars PROVE LockInv'
<1> USE DEF LockInv
<1>1. CASE UNCHANGED vars
  BY <1>1 DEF vars, lockVars, inputVars
<1>2. CASE Start \/ Stop
  BY <1>2 DEF Start, Stop, Goto
<1>3. CASE Input
  BY <1>3 DEF Input, lockVars
<1>4. CASE Tick
  BY <1>4 DEF Tick
<1>5. CASE Frame
  <2>1. pc' = pc /\ pc # "off"
    BY <1>5 DEF Frame, CanDraw, FrameDue
  <2>2. unlocked /\ pending => age' = 0 /\ idle' = 0
    BY <1>5 DEF Frame
  <2>3. unlocked /\ ~pending => age' = age /\ idle' = idle
    BY <1>5 DEF Frame
  <2>4. unlocked' => unlocked /\ ~(age' >= LockAfter)
    BY <1>5 DEF Frame, Expired
  <2>5. age \in Nat
    BY DEF Types, ScreenTypes
  <2> QED
    BY <2>1, <2>2, <2>3, <2>4, <2>5
<1>6. CASE Unlock \/ Lock \/ Call \/ Disconnect
  BY <1>6 DEF Unlock, Lock, Call, Disconnect, Clicked
<1>7. CASE Restore \/ Exchange
  BY <1>7 DEF Restore, Exchange, Goto, lockVars, inputVars
<1>8. CASE Rebuild \/ Connected \/ List
  BY <1>8 DEF Rebuild, Connected, List, AccessToken, lockVars, inputVars
<1>9. CASE DialogAnswered \/ WorkEnds \/ ListEnds \/ BrowserConnects
            \/ CannotOpen \/ BrowserCloses
  BY <1>9 DEF DialogAnswered, WorkEnds, ListEnds, BrowserConnects, CannotOpen,
     BrowserCloses, Goto, lockVars, inputVars
<1> QED
  BY <1>1, <1>2, <1>3, <1>4, <1>5, <1>6, <1>7, <1>8, <1>9 DEF Next, Step

-----------------------------------------------------------------------------
(* The saved session.                                                      *)

\* A session is refreshed under the token that is saved, and a new token is
\* saved before it is used.
LEMMA RefreshKeepsSaved ==
    ASSUME keyring # None, RefreshOk(keyring) PROVE SessionIsSaved'
  BY DEF RefreshOk, save_refresh_token, saveVars, SessionIsSaved

LEMMA SavedUnchanged ==
    ASSUME SessionIsSaved, UNCHANGED <<tokenVars, saveVars>>
    PROVE  SessionIsSaved'
  BY DEF SessionIsSaved, tokenVars, saveVars

LEMMA NextKeepsSaved ==
    ASSUME Types, SessionIsSaved, [Next]_vars PROVE SessionIsSaved'
<1>1. CASE UNCHANGED vars
  BY <1>1, SavedUnchanged DEF vars
<1>2. CASE Start \/ Input \/ Frame \/ Unlock \/ Lock \/ Call
  BY <1>2, SavedUnchanged DEF Start, Input, Frame, Unlock, Lock, Call
<1>3. CASE Stop
  BY <1>3 DEF Stop, Cleared, saveVars, SessionIsSaved
<1>4. CASE Tick
  BY <1>4 DEF Tick, saveVars, SessionIsSaved
<1>5. CASE Disconnect
  <2>1. CASE Cleared /\ delete_refresh_token
    BY <2>1 DEF Cleared, delete_refresh_token, SessionIsSaved
  <2>2. CASE UNCHANGED <<tokenVars, keyring>>
    BY <2>2 DEF tokenVars, SessionIsSaved
  <2> QED
    BY <1>5, <2>1, <2>2 DEF Disconnect
<1>6. CASE Restore
  <2>1. pc = "restore" /\ keyring # None
    BY <1>6 DEF Restore, Goto, Types
  <2>2. CASE Cleared /\ UNCHANGED keyring
    BY <2>2 DEF Cleared, SessionIsSaved
  <2>3. CASE RefreshOk(keyring)
    BY <2>1, <2>3, RefreshKeepsSaved
  <2> QED
    BY <1>6, <2>2, <2>3 DEF Restore, load_refresh_token
<1>7. CASE Exchange
  <2>1. CASE UNCHANGED <<tokenVars, saveVars>>
    BY <2>1, SavedUnchanged
  <2>2. CASE refresh' = grants' /\ keyring' = grants'
    BY <2>2 DEF SessionIsSaved
  <2> QED
    BY <1>7, <2>1, <2>2 DEF Exchange, save_refresh_token
<1>8. CASE Rebuild \/ Connected \/ List
  <2>1. PICK then \in {"work", "list", "page"}, otherwise \in {"free", "list"} :
           AccessToken(then, otherwise)
    BY <1>8 DEF Rebuild, Connected, List
  <2>2. CASE UNCHANGED <<tokenVars, saveVars>>
    BY <2>2, SavedUnchanged
  <2>3. CASE refresh # None /\ RefreshOk(refresh)
    BY <2>3, RefreshKeepsSaved DEF SessionIsSaved
  <2>4. CASE refresh # None /\ RefreshFails
    <3>1. UNCHANGED <<refresh, keyring>>
      BY <2>4, RefreshFailsTypes
    <3> QED
      BY <3>1 DEF SessionIsSaved
  <2> QED
    BY <2>1, <2>2, <2>3, <2>4 DEF AccessToken
<1>9. CASE DialogAnswered \/ WorkEnds \/ ListEnds \/ BrowserConnects
            \/ CannotOpen \/ BrowserCloses
  BY <1>9, SavedUnchanged DEF DialogAnswered, WorkEnds, ListEnds,
     BrowserConnects, CannotOpen, BrowserCloses
<1> QED
  BY <1>1, <1>2, <1>3, <1>4, <1>5, <1>6, <1>7, <1>8, <1>9 DEF Next, Step

-----------------------------------------------------------------------------
(* The tokens.                                                             *)

\* A new token has its margin, or as long as is assumed of it.
LEMMA NewTokenInv ==
    ASSUME NEW life \in Lifetimes, access' = Token(life), expires' = ExpiresIn(life)
    PROVE  TokenInv'
<1>1. life \in Nat /\ access'.life = life /\ access'.spent = 0
  BY NewToken
<1> QED
  BY <1>1 DEF TokenInv, ExpiresIn

LEMMA RefreshKeepsTokenInv ==
    ASSUME NEW token, RefreshOk(token) PROVE TokenInv'
<1>1. PICK life \in Lifetimes : access' = Token(life) /\ expires' = ExpiresIn(life)
  BY DEF RefreshOk
<1> QED
  BY <1>1, NewTokenInv

\* Time brings a token's end and the moment it is given up nearer alike.
LEMMA TickKeepsTokenInv ==
    ASSUME Types, TokenInv, Tick PROVE TokenInv'
<1> SUFFICES ASSUME access' # None, expires' # None, expires' # 0
             PROVE  IF access'.life >= Margin
                    THEN access'.spent + expires' + Margin = access'.life
                    ELSE access'.spent + expires' = MinLife
  BY DEF TokenInv
<1>1. access # None /\ expires # None /\ expires # 0 /\ expires' = expires - 1
  BY DEF Tick, needs_refresh
<1>2. access \in Tokens /\ expires \in Nat
  BY <1>1 DEF Types, TokenTypes
<1>3. access.spent \in Nat /\ access.life \in Nat
  BY <1>2 DEF Tokens
<1>4. access' = [life |-> access.life,
                 spent |-> Least(access.spent + 1, access.life + MinLife)]
  BY <1>1, <1>2 DEF Tick, Tokens
<1>5. IF access.life >= Margin THEN access.spent + expires + Margin = access.life
      ELSE access.spent + expires = MinLife
  BY <1>1 DEF TokenInv
<1>6. Least(access.spent + 1, access.life + MinLife) = access.spent + 1
  BY <1>1, <1>2, <1>3, <1>5 DEF Least
<1> QED
  BY <1>1, <1>2, <1>3, <1>4, <1>5, <1>6

LEMMA NextKeepsTokenInv ==
    ASSUME Types, TokenInv, [Next]_vars PROVE TokenInv'
<1>1. CASE UNCHANGED tokenVars
  BY <1>1 DEF tokenVars, TokenInv
<1>2. CASE Cleared
  BY <1>2 DEF Cleared, TokenInv
<1>3. CASE Tick
  BY <1>3, TickKeepsTokenInv
<1>4. CASE \E token : RefreshOk(token)
  BY <1>4, RefreshKeepsTokenInv
<1>5. CASE Exchange /\ ~UNCHANGED tokenVars
  <2>1. PICK life \in Lifetimes : access' = Token(life) /\ expires' = ExpiresIn(life)
    BY <1>5 DEF Exchange, tokenVars
  <2> QED
    BY <2>1, NewTokenInv
<1>6. CASE needs_refresh /\ UNCHANGED expires
  BY <1>6 DEF needs_refresh, TokenInv
<1>7. CASE Rebuild \/ Connected \/ List
  <2>1. PICK then \in {"work", "list", "page"}, otherwise \in {"free", "list"} :
           AccessToken(then, otherwise)
    BY <1>7 DEF Rebuild, Connected, List
  <2>2. \/ UNCHANGED tokenVars
        \/ RefreshOk(refresh)
        \/ needs_refresh /\ UNCHANGED expires
    BY <2>1 DEF AccessToken, RefreshFails, tokenVars
  <2> QED
    BY <1>1, <1>4, <1>6, <2>2
<1>8. CASE Start \/ Stop \/ Input \/ Frame \/ Unlock \/ Lock \/ Call
  BY <1>1, <1>2, <1>8 DEF Start, Stop, Input, Frame, Unlock, Lock, Call
<1>9. CASE DialogAnswered \/ WorkEnds \/ ListEnds \/ BrowserConnects
            \/ CannotOpen \/ BrowserCloses \/ UNCHANGED vars
  BY <1>1, <1>9 DEF DialogAnswered, WorkEnds, ListEnds, BrowserConnects,
     CannotOpen, BrowserCloses, vars
<1>10. CASE Restore \/ Disconnect
  BY <1>1, <1>2, <1>4, <1>10 DEF Restore, Disconnect, tokenVars
<1> QED
  BY <1>1, <1>3, <1>5, <1>7, <1>8, <1>9, <1>10 DEF Next, Step

-----------------------------------------------------------------------------
(* The theorems.                                                           *)

IInv == Types /\ LockInv /\ SessionIsSaved /\ TokenInv

LEMMA Invariance == Spec => []IInv
<1>1. Init => IInv
  BY InitTypes DEF Init, IInv, LockInv, SessionIsSaved, TokenInv
<1>2. IInv /\ [Next]_vars => IInv'
  BY NextKeepsTypes, NextKeepsLockInv, NextKeepsSaved, NextKeepsTokenInv DEF IInv
<1> QED
  BY <1>1, <1>2, PTL DEF Spec

\* Every variable of a window's sessions keeps its type; the two tokens are
\* there together or not at all, also after a refresh that failed half-way.
THEOREM TypeCorrect == Spec => []TypeOK
<1>1. IInv => TypeOK
  BY TypesGiveTypeOK DEF IInv
<1> QED
  BY <1>1, Invariance, PTL

\* An unlocked window that is ready for its user was active within the limit
\* of main.rs:48, however long the handler before it took.
THEOREM VaultLocksInTime == Spec => []LockedInTime
<1>1. IInv => LockedInTime
  BY DEF IInv, LockInv, LockedInTime
<1> QED
  BY <1>1, Invariance, PTL

\* The session in memory is the one the next start restores.
THEOREM SessionSaved == Spec => []SessionIsSaved
<1>1. IInv => SessionIsSaved
  BY DEF IInv
<1> QED
  BY <1>1, Invariance, PTL

\* A window that locks by itself was idle for the whole limit.
THEOREM NoEarlyLock == Spec => NotLockedEarly
<1>1. IInv /\ [Next]_vars => [Frame /\ unlocked /\ ~unlocked' => idle' >= LockAfter]_vars
  <2> SUFFICES ASSUME IInv, Frame, unlocked, ~unlocked'
               PROVE  idle' >= LockAfter
    OBVIOUS
  <2>1. CASE pending
    BY <2>1 DEF Frame, Expired
  <2>2. CASE ~pending
    BY <2>2 DEF Frame, Expired, IInv, LockInv
  <2> QED
    BY <2>1, <2>2
<1> QED
  BY <1>1, Invariance, PTL DEF Spec, NotLockedEarly

\* A token that a handler goes on with is good for longer than the margin, or
\* was issued for no longer than that, and so long ago at most as is assumed
\* of such a token (oauth.rs:156-163): whatever lives the service gives.
THEOREM TokensAreGood == Spec => TokenLasts
<1> DEFINE Handed == pc' # pc /\ pc' \in {"work", "page"} /\ pc \in {"rebuild", "list"}
           Good == \/ access'.spent + Margin < access'.life
                   \/ access'.life <= Margin /\ access'.spent < MinLife
<1>1. IInv /\ [Next]_vars => [Handed => Good]_vars
  <2> SUFFICES ASSUME IInv, Next, Handed PROVE Good
    OBVIOUS
  <2>1. Rebuild \/ List
    BY DEF Next, Step, Start, Stop, Input, Tick, Unlock, Lock, Call, Disconnect,
       Clicked, Frame, CanDraw, FrameDue, Restore, Goto, DialogAnswered,
       BrowserConnects, CannotOpen, BrowserCloses, WorkEnds, Connected, ListEnds,
       Exchange
  <2>2. PICK then \in {"work", "page"} : AccessToken(then, "free")
    BY <2>1 DEF Rebuild, List
  <2>3. CASE ~needs_refresh /\ access # None /\ UNCHANGED tokenVars
    <3>1. /\ access \in Tokens /\ expires \in Nat /\ expires # 0 /\ expires # None
          /\ access.spent \in Nat /\ access.life \in Nat
      BY <2>3 DEF IInv, Types, TokenTypes, Tokens, needs_refresh
    <3>2. IF access.life >= Margin THEN access.spent + expires + Margin = access.life
          ELSE access.spent + expires = MinLife
      BY <2>3, <3>1 DEF IInv, TokenInv
    <3>3. access' = access
      BY <2>3 DEF tokenVars
    <3> QED
      BY <3>1, <3>2, <3>3
  <2>4. CASE RefreshOk(refresh)
    <3>1. PICK life \in Lifetimes : access' = Token(life)
      BY <2>4 DEF RefreshOk
    <3>2. access'.spent = 0 /\ access'.life = life /\ life \in Nat
      BY <3>1, NewToken
    <3> QED
      BY <3>2
  <2> QED
    BY <2>2, <2>3, <2>4 DEF AccessToken
<1> QED
  BY <1>1, Invariance, PTL DEF Spec, TokenLasts

-----------------------------------------------------------------------------
(* The sessions as the user sees them (Account).                           *)

\* A session is restored by a window that has none, and a sign-in is under
\* way only in an unlocked window without a session.
SignInInv ==
    /\ pc \in {"off", "restore"} => refresh = None
    /\ pc \in {"off"} => ~unlocked
    /\ pc \in {"accept", "reading", "exchange"} => unlocked /\ refresh = None

\* No handler starts or ends otherwise.
LEMMA NextKeepsSignInInv ==
    ASSUME Types, SignInInv, [Next]_vars PROVE SignInInv'
<1> USE DEF SignInInv, Goto
<1>1. CASE UNCHANGED vars
  BY <1>1 DEF vars, lockVars, tokenVars
<1>2. CASE Start
  BY <1>2 DEF Start, tokenVars
<1>3. CASE Stop
  BY <1>3 DEF Stop, Cleared
<1>4. CASE Input \/ Tick
  BY <1>4 DEF Input, Tick, lockVars, tokenVars
<1>5. CASE Frame \/ Unlock \/ Lock \/ Disconnect
  BY <1>5 DEF Frame, CanDraw, FrameDue, Unlock, Lock, Disconnect, Clicked
<1>6. CASE Call
  <2>1. pc = "free" /\ unlocked' = unlocked /\ unlocked /\ refresh' = refresh
    BY <1>6 DEF Call, Clicked, tokenVars
  <2>2. \/ pc' \in {"dialog", "work", "rebuild", "list"}
        \/ ~is_connected /\ pc' = "accept"
    BY <1>6 DEF Call
  <2>3. ~is_connected => refresh = None
    BY DEF is_connected, Types, TokenTypes
  <2> QED
    BY <2>1, <2>2, <2>3
<1>7. CASE Restore
  BY <1>7 DEF Restore
<1>8. CASE Rebuild \/ Connected \/ List
  <2>1. pc' \in {"work", "list", "page", "free"}
    BY <1>8 DEF Rebuild, Connected, List, AccessToken
  <2> QED
    BY <2>1
<1>9. CASE Exchange
  BY <1>9 DEF Exchange
<1>10. CASE DialogAnswered \/ WorkEnds \/ ListEnds \/ BrowserConnects
            \/ CannotOpen \/ BrowserCloses
  BY <1>10 DEF DialogAnswered, WorkEnds, ListEnds, BrowserConnects,
     CannotOpen, BrowserCloses, lockVars, tokenVars
<1> QED
  BY <1>1, <1>2, <1>3, <1>4, <1>5, <1>6, <1>7, <1>8, <1>9, <1>10
     DEF Next, Step

\* An answered renewal puts the session to use that it was asked with, or
\* the one the service replaced it with.
LEMMA RefreshOkSteps ==
    ASSUME NEW token, token = keyring, token # None, UNCHANGED unlocked,
           RefreshOk(token), refresh \in {None, token}
    PROVE  Account!Replace \/ Account!Resume \/ UNCHANGED Account!vars
<1>1. CASE refresh' = token /\ UNCHANGED saveVars
  BY <1>1 DEF saveVars, Account!Resume, Account!vars
<1>2. CASE /\ grants' = grants + 1
           /\ save_refresh_token(grants') /\ refresh' = grants'
  BY <1>2 DEF save_refresh_token, Account!Replace, Account!Issue
<1> QED
  BY <1>1, <1>2 DEF RefreshOk

\* One that fails loses at most what the service issued.
LEMMA RefreshFailsSteps ==
    ASSUME keyring # None, UNCHANGED unlocked, RefreshFails
    PROVE  Account!Lose \/ UNCHANGED Account!vars
  BY DEF RefreshFails, tokenVars, saveVars, Account!Lose, Account!vars

\* Every step of the window is a step of Account.
LEMMA StepIsAccountStep ==
    ASSUME IInv, SignInInv, [Next]_vars PROVE [Account!Next]_(Account!vars)
<1>0. /\ Types /\ (refresh # None => keyring = refresh)
      /\ grants \in Nat /\ unlocked \in BOOLEAN
  BY DEF IInv, SessionIsSaved, Types, TokenTypes, ScreenTypes
<1>1. CASE UNCHANGED <<unlocked, tokenVars, saveVars>>
  BY <1>1 DEF tokenVars, saveVars, Account!vars
<1>2. CASE Start \/ Input \/ Call \/ UNCHANGED vars
  BY <1>1, <1>2 DEF Start, Input, Call, vars, lockVars
<1>3. CASE Stop
  BY <1>3 DEF Stop, Cleared, saveVars, Account!Leave, Account!Next
<1>4. CASE Tick
  BY <1>4 DEF Tick, saveVars, Account!vars
<1>5. CASE Frame \/ Unlock \/ Lock
  <2>1. UNCHANGED <<refresh, keyring, grants>> /\ unlocked' \in BOOLEAN
    BY <1>0, <1>5 DEF Frame, Unlock, Lock, tokenVars, saveVars
  <2> QED
    BY <1>0, <2>1 DEF Account!Open, Account!Shut, Account!Next, Account!vars
<1>6. CASE Disconnect
  <2>1. unlocked /\ refresh # None /\ UNCHANGED <<unlocked, grants>>
    BY <1>6 DEF Disconnect, is_connected
  <2>2. CASE Cleared /\ delete_refresh_token
    BY <2>1, <2>2
       DEF Cleared, delete_refresh_token, Account!Disconnect, Account!Next
  <2>3. CASE UNCHANGED <<tokenVars, keyring>>
    BY <2>1, <2>3 DEF tokenVars, Account!vars
  <2> QED
    BY <1>6, <2>2, <2>3 DEF Disconnect
<1>7. CASE Restore
  <2>1. /\ pc = "restore" /\ keyring # None /\ refresh = None
        /\ UNCHANGED unlocked
    BY <1>0, <1>7 DEF Restore, Goto, Types, SignInInv, lockVars
  <2>2. CASE RefreshOk(keyring)
    BY <2>1, <2>2, RefreshOkSteps DEF Account!Next
  <2>3. CASE Cleared /\ UNCHANGED keyring /\ grants' \in grants..Least(grants + 1, MaxGrants)
    <3>1. grants' \in {grants, grants + 1}
      BY <1>0, <2>3 DEF Least
    <3> QED
      BY <2>1, <2>3, <3>1
         DEF Cleared, Account!Lose, Account!Next, Account!vars
  <2> QED
    BY <1>7, <2>2, <2>3 DEF Restore, load_refresh_token
<1>8. CASE Rebuild \/ Connected \/ List
  <2>1. PICK then, otherwise : AccessToken(then, otherwise)
    BY <1>8 DEF Rebuild, Connected, List
  <2>2. UNCHANGED unlocked
    BY <2>1 DEF AccessToken, lockVars
  <2>3. CASE UNCHANGED <<tokenVars, saveVars>>
    BY <1>1, <2>2, <2>3
  <2>4. CASE refresh # None /\ RefreshOk(refresh)
    BY <1>0, <2>2, <2>4, RefreshOkSteps DEF Account!Next
  <2>5. CASE refresh # None /\ RefreshFails
    BY <1>0, <2>2, <2>5, RefreshFailsSteps DEF Account!Next
  <2> QED
    BY <2>1, <2>3, <2>4, <2>5 DEF AccessToken
<1>9. CASE Exchange
  <2>1. unlocked /\ refresh = None /\ UNCHANGED unlocked
    BY <1>9 DEF Exchange, Goto, SignInInv, lockVars
  <2>2. CASE UNCHANGED <<tokenVars, saveVars>>
    BY <1>1, <2>1, <2>2
  <2>3. CASE grants' = grants + 1 /\ refresh' = grants' /\ save_refresh_token(grants')
    BY <2>1, <2>3
       DEF save_refresh_token, Account!Issue, Account!SignIn, Account!Next
  <2> QED
    BY <1>9, <2>2, <2>3 DEF Exchange
<1>10. CASE DialogAnswered \/ WorkEnds \/ ListEnds \/ BrowserConnects
            \/ CannotOpen \/ BrowserCloses
  BY <1>1, <1>10 DEF DialogAnswered, WorkEnds, ListEnds, BrowserConnects,
     CannotOpen, BrowserCloses, lockVars
<1> QED
  BY <1>2, <1>3, <1>4, <1>5, <1>6, <1>7, <1>8, <1>9, <1>10 DEF Next, Step

\* The window implements Account: only a disconnect gives the saved session
\* up, a sign-in ends while the vault is unlocked, and neither a lock, a
\* restart nor a failed renewal loses what was saved (oauth.rs, main.rs).
THEOREM AccountImplemented == Spec => ImplementsAccount
<1>1. Init => SignInInv /\ Account!Init
  BY DEF Init, SignInInv, Account!Init
<1>2. IInv /\ SignInInv /\ [Next]_vars => SignInInv'
  BY NextKeepsSignInInv DEF IInv
<1>3. IInv /\ SignInInv /\ [Next]_vars => [Account!Next]_(Account!vars)
  BY StepIsAccountStep
<1> QED
  BY <1>1, <1>2, <1>3, Invariance, PTL
     DEF Spec, ImplementsAccount, Account!Spec
=============================================================================
