------------------------- MODULE CodexAuth_proofs -------------------------
(***************************************************************************)
(* The properties of CodexAuth for any number of callers and tokens.       *)
(*                                                                         *)
(* Why two callers never save at one time: under rotation at most one      *)
(* refresh token is live.  While a caller saves, that token is in its      *)
(* answer alone, so that whatever another caller has read, or reads now,   *)
(* is refused.                                                             *)
(***************************************************************************)
EXTENDS CodexAuth, TLAPS

\* What callers and the file hold was issued.
Issued ==
  /\ Whole => file.refresh <= issued
  /\ \A c \in Callers : cred[c].refresh <= issued /\ fresh[c].refresh <= issued

OneLive == Rotates => \A x, y \in live : x = y

\* The live token is in the answer that a caller saves, and nowhere else.
SaverHoldsToken ==
  Rotates => \A c \in Callers : Saving(c) =>
    /\ fresh[c].refresh \in live
    /\ Whole => file.refresh \notin live
    /\ \A d \in Callers \ {c} : pc[d] \in {"stat", "posting"} => cred[d].refresh \notin live

\* Nobody writes between a caller's truncation and its write.
WritesToEmptyFile ==
  Rotates => \A c \in Callers : pc[c] = "writing" => file = Truncated

\* The file is not there for a cause.
AbsentForCause ==
  Rotates /\ ~lost /\ ~Whole => \E c \in Callers : pc[c] = "writing"

Inv ==
  /\ TypeOK /\ Issued /\ OneLive /\ OneSaver /\ SaverHoldsToken
  /\ WritesToEmptyFile /\ AbsentForCause /\ FileUsable

----------------------------------------------------------------------------
\* The invariant holds when the process starts.
LEMMA InitInv == Init => Inv
<1> SUFFICES ASSUME Init PROVE Inv
  OBVIOUS
<1> USE MaxTokensAssumption, NoFileAssumption
<1>1. TypeOK
  BY DEF Init, TypeOK, Credentials, Tokens, NoFile, Nothing, Phases
<1>2. Issued
  BY DEF Init, Issued, Whole, NoFile, Nothing
<1>3. OneLive /\ OneSaver /\ SaverHoldsToken /\ WritesToEmptyFile
  BY DEF Init, OneLive, OneSaver, SaverHoldsToken, WritesToEmptyFile, Saving
<1>4. AbsentForCause /\ FileUsable
  <2>1. Whole \/ lost
    <3>1. CASE file = NotThere
      BY <3>1 DEF Init
    <3>2. CASE file \in [access : {1}, refresh : {0, 1}, account : BOOLEAN]
      <4>1. file \in Credentials
        BY <3>2 DEF Credentials, Tokens
      <4> QED BY <4>1 DEF Whole
    <3> QED BY <3>1, <3>2 DEF Init
  <2>2. Whole => file.refresh \in live \union {0}
    BY DEF Init, Whole, NoFile
  <2> QED BY <2>1, <2>2 DEF AbsentForCause, FileUsable
<1> QED BY <1>1, <1>2, <1>3, <1>4 DEF Inv

\* A refreshed credential is one that the file can hold.
LEMMA CredentialIsWhole ==
  ASSUME NEW x \in Credentials
  PROVE  x \notin NoFile
BY NoFileAssumption

----------------------------------------------------------------------------
\* A step that only moves a caller to a phase where it does not save, and is
\* not about to refresh, disturbs nothing.
LEMMA MoveInv ==
  ASSUME Inv, NEW c \in Callers, ~Saving(c),
         NEW phase \in {"loaded", "failed", "idle"}, Goto(c, phase),
         UNCHANGED <<file, recent, live, issued, cred, fresh, lost>>
  PROVE  Inv'
<1> USE DEF Inv
<1>1. TypeOK'
  BY DEF TypeOK, Goto, Phases, Credentials
<1>2. \A d \in Callers : /\ Saving(d)' <=> Saving(d)
                         /\ (pc'[d] = "writing") <=> (pc[d] = "writing")
                         /\ pc'[d] \in {"stat", "posting"} => pc[d] \in {"stat", "posting"}
  BY DEF TypeOK, Goto, Saving
<1>3. Issued' /\ OneLive'
  BY DEF Issued, OneLive, Whole
<1>4. OneSaver' /\ WritesToEmptyFile'
  BY <1>2 DEF OneSaver, WritesToEmptyFile
<1>5. SaverHoldsToken'
  BY <1>2 DEF SaverHoldsToken, Whole
<1>6. AbsentForCause' /\ FileUsable'
  BY <1>2 DEF AbsentForCause, FileUsable, Whole
<1> QED BY <1>1, <1>3, <1>4, <1>5, <1>6

\* A caller reads the file.
LEMMA ReadInv == ASSUME Inv, NEW c \in Callers, Read(c) PROVE Inv'
<1> USE DEF Inv
<1>1. CASE ~(Whole /\ file.access # 0)
  BY <1>1, MoveInv DEF Read, Saving
<1>2. CASE Whole /\ file.access # 0
  <2>1. /\ pc[c] = "idle" /\ pc' = [pc EXCEPT ![c] = "stat"]
        /\ cred' = [cred EXCEPT ![c] = file]
        /\ UNCHANGED <<file, recent, live, issued, fresh, lost>>
    BY <1>2 DEF Read, Goto
  <2>2. TypeOK'
    BY <1>2, <2>1 DEF TypeOK, Whole, Phases
  <2>3. \A d \in Callers : /\ Saving(d)' <=> Saving(d)
                           /\ (pc'[d] = "writing") <=> (pc[d] = "writing")
                           /\ d # c => pc'[d] = pc[d] /\ cred'[d] = cred[d]
    BY <2>1 DEF TypeOK, Saving
  <2>4. cred'[c] = file
    BY <2>1 DEF TypeOK
  <2>5. Issued' /\ OneLive'
    BY <1>2, <2>1, <2>3, <2>4 DEF Issued, OneLive, Whole
  <2>6. OneSaver' /\ WritesToEmptyFile'
    BY <2>1, <2>3 DEF OneSaver, WritesToEmptyFile
  <2>7. SaverHoldsToken'
    BY <1>2, <2>1, <2>3, <2>4 DEF SaverHoldsToken, Whole
  <2>8. AbsentForCause' /\ FileUsable'
    BY <2>1, <2>3 DEF AbsentForCause, FileUsable, Whole
  <2> QED BY <2>2, <2>5, <2>6, <2>7, <2>8
<1> QED BY <1>1, <1>2

\* A caller looks at the age of the file.
LEMMA StatInv == ASSUME Inv, NEW c \in Callers, Stat(c) PROVE Inv'
<1> USE DEF Inv
<1>1. CASE recent \/ cred[c].refresh = 0
  BY <1>1, MoveInv DEF Stat, Saving
<1>2. CASE ~(recent \/ cred[c].refresh = 0)
  <2>1. /\ pc[c] = "stat" /\ pc' = [pc EXCEPT ![c] = "posting"]
        /\ UNCHANGED <<file, recent, live, issued, cred, fresh, lost>>
    BY <1>2 DEF Stat, Goto
  <2>2. TypeOK'
    BY <2>1 DEF TypeOK, Phases
  <2>3. \A d \in Callers : /\ Saving(d)' <=> Saving(d)
                           /\ (pc'[d] = "writing") <=> (pc[d] = "writing")
                           /\ pc'[d] \in {"stat", "posting"} <=> pc[d] \in {"stat", "posting"}
    BY <2>1 DEF TypeOK, Saving
  <2>4. Issued' /\ OneLive'
    BY <2>1 DEF Issued, OneLive, Whole
  <2>5. OneSaver' /\ WritesToEmptyFile'
    BY <2>1, <2>3 DEF OneSaver, WritesToEmptyFile
  <2>6. SaverHoldsToken'
    BY <2>1, <2>3 DEF SaverHoldsToken, Whole
  <2>7. AbsentForCause' /\ FileUsable'
    BY <2>1, <2>3 DEF AbsentForCause, FileUsable, Whole
  <2> QED BY <2>2, <2>4, <2>5, <2>6, <2>7
<1> QED BY <1>1, <1>2

----------------------------------------------------------------------------
\* The server accepts a refresh token only while nobody saves, and then the
\* new token is the live one and no other caller holds it.
LEMMA RefreshRetires ==
  ASSUME Inv, NEW c \in Callers, Refresh(c)
  PROVE  /\ issued' \in 1 .. MaxTokens /\ issued' > issued
         /\ live' \subseteq 1 .. issued'
         /\ Rotates => live' = {issued'} /\ \A d \in Callers : ~Saving(d)
<1> USE DEF Inv
<1>1. issued' \in 1 .. MaxTokens /\ issued' > issued
  BY MaxTokensAssumption DEF Refresh, TypeOK
<1>2. live' \subseteq 1 .. issued'
  <2>1. /\ issued' = issued + 1
        /\ live' \subseteq live \union {issued'}
    BY DEF Refresh
  <2>2. issued \in Nat /\ issued >= 1 /\ live \subseteq 1 .. issued
    BY DEF TypeOK
  <2>3. \A t \in live : t \in 1 .. issued'
    BY <2>1, <2>2
  <2>4. issued' \in 1 .. issued'
    BY <2>1, <2>2
  <2> QED BY <2>1, <2>3, <2>4
<1>3. Rotates => live' = {issued'}
  BY DEF Refresh, OneLive
<1>4. ASSUME Rotates, NEW d \in Callers PROVE ~Saving(d)
  BY <1>4 DEF Refresh, SaverHoldsToken, Saving
<1> QED BY <1>1, <1>2, <1>3, <1>4

\* The server answers a refresh.
LEMMA AnswerInv == ASSUME Inv, NEW c \in Callers, Answer(c) PROVE Inv'
<1> USE DEF Inv
<1>1. Refresh(c)
  BY DEF Answer
<1>2. PICK access \in {0, issued'}, account \in BOOLEAN :
        fresh' = [fresh EXCEPT ![c] =
          [access |-> access,
           refresh |-> IF Rotates THEN issued' ELSE cred[c].refresh,
           account |-> account \/ cred[c].account]]
  BY DEF Answer, ExtractedAccounts
<1>3. /\ pc[c] = "posting" /\ pc' = [pc EXCEPT ![c] = "answered"]
      /\ UNCHANGED <<file, recent, cred, lost>>
  BY DEF Answer, Refresh, Goto
<1>4. /\ issued' \in 1 .. MaxTokens /\ issued' > issued /\ live' \subseteq 1 .. issued'
      /\ Rotates => live' = {issued'} /\ \A d \in Callers : ~Saving(d)
  BY <1>1, RefreshRetires
<1>5. cred[c] \in Credentials /\ cred[c].refresh <= issued
  BY DEF TypeOK, Issued
<1>6. \A d \in Callers \ {c} : fresh'[d] = fresh[d] /\ pc'[d] = pc[d]
  BY <1>2, <1>3 DEF TypeOK
<1>7. fresh'[c].refresh = IF Rotates THEN issued' ELSE cred[c].refresh
  BY <1>2 DEF TypeOK
<1>8. TypeOK'
  <2>1. [access |-> access, refresh |-> IF Rotates THEN issued' ELSE cred[c].refresh,
         account |-> account \/ cred[c].account] \in Credentials
    BY <1>2, <1>4, <1>5, MaxTokensAssumption DEF Credentials, Tokens
  <2>2. fresh' \in [Callers -> Credentials]
    BY <1>2, <2>1 DEF TypeOK
  <2> QED BY <1>3, <1>4, <2>2 DEF TypeOK, Phases
<1>9. Issued'
  <2>1. Whole => file.refresh \in Nat /\ file.refresh <= issued
    BY DEF Issued, TypeOK, Whole, Credentials, Tokens
  <2>2. \A d \in Callers : /\ cred[d].refresh \in Nat /\ cred[d].refresh <= issued
                           /\ fresh[d].refresh \in Nat /\ fresh[d].refresh <= issued
    BY DEF Issued, TypeOK, Credentials, Tokens
  <2>3. issued \in Nat
    BY DEF TypeOK
  <2>4. Whole => file.refresh <= issued'
    BY <2>1, <2>3, <1>4
  <2>5. \A d \in Callers : cred[d].refresh <= issued'
    BY <2>2, <2>3, <1>4
  <2>6. \A d \in Callers : fresh'[d].refresh <= issued'
    BY <2>2, <2>3, <1>4, <1>6, <1>7
  <2> QED BY <1>3, <2>4, <2>5, <2>6 DEF Issued, Whole
<1>10. OneLive'
  BY <1>4 DEF OneLive
<1>11. Rotates => \A d \in Callers : Saving(d)' => d = c
  BY <1>3, <1>4, <1>6 DEF Saving
<1>12. OneSaver'
  BY <1>11 DEF OneSaver
<1>13. SaverHoldsToken'
  <2>1. Rotates => fresh'[c].refresh \in live'
    BY <1>4, <1>7
  <2>2. Rotates /\ Whole => file.refresh \notin live'
    BY <1>4, MaxTokensAssumption DEF Issued, TypeOK, Whole, Credentials, Tokens
  <2>3. Rotates => \A d \in Callers : cred[d].refresh \notin live'
    BY <1>4, MaxTokensAssumption DEF Issued, TypeOK, Credentials, Tokens
  <2> QED BY <1>3, <1>11, <2>1, <2>2, <2>3 DEF SaverHoldsToken, Whole
<1>14. WritesToEmptyFile'
  BY <1>3, <1>6 DEF WritesToEmptyFile, TypeOK
<1>15. AbsentForCause'
  BY <1>3, <1>6 DEF AbsentForCause, Whole
<1>16. FileUsable'
  BY <1>3 DEF FileUsable, Saving, TypeOK
<1> QED BY <1>8, <1>9, <1>10, <1>12, <1>13, <1>14, <1>15, <1>16

\* The server has answered, and the answer is lost.
LEMMA AnswerLostInv == ASSUME Inv, NEW c \in Callers, AnswerLost(c) PROVE Inv'
<1> USE DEF Inv
<1>1. Refresh(c) /\ lost' = TRUE
  BY DEF AnswerLost
<1>2. /\ pc[c] = "posting" /\ pc' = [pc EXCEPT ![c] = "loaded"]
      /\ UNCHANGED <<file, recent, cred, fresh>>
  BY DEF AnswerLost, Refresh, Goto
<1>3. /\ issued' \in 1 .. MaxTokens /\ issued' > issued /\ live' \subseteq 1 .. issued'
      /\ Rotates => live' = {issued'} /\ \A d \in Callers : ~Saving(d)
  BY <1>1, RefreshRetires
<1>4. TypeOK'
  BY <1>1, <1>2, <1>3 DEF TypeOK, Phases
<1>5. Issued'
  <2>1. Whole => file.refresh \in Nat /\ file.refresh <= issued
    BY DEF Issued, TypeOK, Whole, Credentials, Tokens
  <2>2. \A d \in Callers : /\ cred[d].refresh \in Nat /\ cred[d].refresh <= issued
                           /\ fresh[d].refresh \in Nat /\ fresh[d].refresh <= issued
    BY DEF Issued, TypeOK, Credentials, Tokens
  <2>3. issued \in Nat
    BY DEF TypeOK
  <2>4. Whole => file.refresh <= issued'
    BY <2>1, <2>3, <1>3
  <2>5. \A d \in Callers : cred[d].refresh <= issued' /\ fresh[d].refresh <= issued'
    BY <2>2, <2>3, <1>3
  <2> QED BY <1>2, <2>4, <2>5 DEF Issued, Whole
<1>6. OneLive'
  BY <1>3 DEF OneLive
<1>7. Rotates => \A d \in Callers : ~Saving(d)'
  BY <1>2, <1>3 DEF Saving, TypeOK
<1>8. OneSaver' /\ SaverHoldsToken' /\ WritesToEmptyFile'
  BY <1>7 DEF OneSaver, SaverHoldsToken, WritesToEmptyFile, Saving
<1>9. AbsentForCause' /\ FileUsable'
  BY <1>1 DEF AbsentForCause, FileUsable
<1> QED BY <1>4, <1>5, <1>6, <1>8, <1>9

----------------------------------------------------------------------------
\* A caller truncates the file.
LEMMA TruncateInv == ASSUME Inv, NEW c \in Callers, Truncate(c) PROVE Inv'
<1> USE DEF Inv
<1>1. /\ pc[c] = "answered" /\ pc' = [pc EXCEPT ![c] = "writing"]
      /\ file' = Truncated /\ recent' = TRUE
      /\ UNCHANGED <<live, issued, cred, fresh, lost>>
  BY DEF Truncate, Goto
<1>2. ~Whole'
  BY <1>1 DEF Whole, NoFile
<1>3. \A d \in Callers : /\ Saving(d)' <=> Saving(d)
                         /\ pc'[d] \in {"stat", "posting"} => pc[d] \in {"stat", "posting"}
  BY <1>1 DEF TypeOK, Saving
<1>4. pc'[c] = "writing"
  BY <1>1 DEF TypeOK
<1>5. TypeOK'
  BY <1>1 DEF TypeOK, Phases, NoFile
<1>6. Issued' /\ OneLive'
  BY <1>1, <1>2 DEF Issued, OneLive
<1>7. OneSaver'
  BY <1>3 DEF OneSaver
<1>8. SaverHoldsToken'
  BY <1>1, <1>2, <1>3 DEF SaverHoldsToken
<1>9. WritesToEmptyFile' /\ AbsentForCause'
  BY <1>1, <1>4 DEF WritesToEmptyFile, AbsentForCause
<1>10. FileUsable'
  BY <1>4 DEF FileUsable, Saving
<1> QED BY <1>5, <1>6, <1>7, <1>8, <1>9, <1>10

\* A caller writes its credential.
LEMMA WriteInv == ASSUME Inv, NEW c \in Callers, WriteFile(c) PROVE Inv'
<1> USE DEF Inv
<1>1. /\ pc[c] = "writing" /\ pc' = [pc EXCEPT ![c] = "loaded"]
      /\ file' \in {fresh[c], Mixed}
      /\ file = Truncated => file' = fresh[c]
      /\ recent' = TRUE
      /\ cred' = [cred EXCEPT ![c] = fresh[c]]
      /\ UNCHANGED <<live, issued, fresh, lost>>
  BY DEF WriteFile, Goto
<1>2. fresh[c] \in Credentials /\ fresh[c] \notin NoFile
  BY CredentialIsWhole DEF TypeOK
<1>3. Mixed \in NoFile
  BY DEF NoFile
<1>4. TypeOK'
  BY <1>1, <1>2, <1>3 DEF TypeOK, Phases
<1>5. \A d \in Callers : /\ d # c => pc'[d] = pc[d] /\ cred'[d] = cred[d]
                         /\ Saving(d)' <=> Saving(d) /\ d # c
  BY <1>1 DEF TypeOK, Saving
<1>6. cred'[c] = fresh[c]
  BY <1>1 DEF TypeOK
<1>7. Issued'
  BY <1>1, <1>3, <1>5, <1>6 DEF Issued, Whole
<1>8. OneLive'
  BY <1>1 DEF OneLive
<1>9. Rotates => \A d \in Callers : ~Saving(d)'
  BY <1>1, <1>5 DEF OneSaver, Saving
<1>10. OneSaver' /\ SaverHoldsToken' /\ WritesToEmptyFile'
  BY <1>9 DEF OneSaver, SaverHoldsToken, WritesToEmptyFile, Saving
<1>11. Rotates => file' = fresh[c]
  BY <1>1 DEF WritesToEmptyFile
<1>12. Rotates => Whole'
  BY <1>2, <1>11 DEF Whole
<1>13. AbsentForCause'
  BY <1>12 DEF AbsentForCause
<1>14. Rotates => file'.refresh \in live'
  BY <1>1, <1>11 DEF SaverHoldsToken, Saving
<1>15. FileUsable'
  BY <1>12, <1>14 DEF FileUsable
<1> QED BY <1>4, <1>7, <1>8, <1>10, <1>13, <1>15

\* A caller fails to save.
LEMMA SaveFailsInv == ASSUME Inv, NEW c \in Callers, SaveFails(c) PROVE Inv'
<1> USE DEF Inv
<1>1. /\ Saving(c) /\ pc' = [pc EXCEPT ![c] = "loaded"]
      /\ file' \in {file, Mixed}
      /\ lost' = TRUE
      /\ UNCHANGED <<recent, live, issued, cred, fresh>>
  BY DEF SaveFails, Goto
<1>2. Mixed \in NoFile
  BY DEF NoFile
<1>3. TypeOK'
  BY <1>1, <1>2 DEF TypeOK, Phases
<1>4. \A d \in Callers : /\ d # c => pc'[d] = pc[d]
                         /\ Saving(d)' <=> Saving(d) /\ d # c
  BY <1>1 DEF TypeOK, Saving
<1>5. Issued' /\ OneLive'
  BY <1>1, <1>2 DEF Issued, OneLive, Whole
<1>6. Rotates => \A d \in Callers : ~Saving(d)'
  BY <1>1, <1>4 DEF OneSaver
<1>7. OneSaver' /\ SaverHoldsToken' /\ WritesToEmptyFile'
  BY <1>6 DEF OneSaver, SaverHoldsToken, WritesToEmptyFile, Saving
<1>8. AbsentForCause' /\ FileUsable'
  BY <1>1 DEF AbsentForCause, FileUsable
<1> QED BY <1>3, <1>5, <1>7, <1>8

----------------------------------------------------------------------------
\* The process crashes.
LEMMA CrashInv == ASSUME Inv, Crash PROVE Inv'
<1> USE DEF Inv
<1>1. /\ pc' = [c \in Callers |-> "idle"]
      /\ UNCHANGED <<file, recent, live, issued, cred, fresh>>
  BY DEF Crash
<1>2. lost' \in BOOLEAN
  BY DEF Crash, TypeOK
<1>3. (\E c \in Callers : Saving(c)) \/ lost => lost'
  BY DEF Crash
<1>4. TypeOK'
  BY <1>1, <1>2 DEF TypeOK, Phases
<1>5. Issued' /\ OneLive'
  BY <1>1 DEF Issued, OneLive, Whole
<1>6. \A c \in Callers : ~Saving(c)'
  BY <1>1 DEF Saving
<1>7. OneSaver' /\ SaverHoldsToken' /\ WritesToEmptyFile'
  BY <1>6 DEF OneSaver, SaverHoldsToken, WritesToEmptyFile, Saving
<1>8. AbsentForCause'
  BY <1>1, <1>3 DEF AbsentForCause, Saving, Whole
<1>9. FileUsable'
  BY <1>1, <1>3 DEF FileUsable, Whole
<1> QED BY <1>4, <1>5, <1>7, <1>8, <1>9

\* `codex --login` replaces the file.
LEMMA LoginInv == ASSUME Inv, NEW c \in Callers, Login(c) PROVE Inv'
<1> USE DEF Inv
<1>1. /\ issued' = issued + 1 /\ issued < MaxTokens
      /\ file' \in [access : {issued'}, refresh : {0, issued'}, account : BOOLEAN]
      /\ recent' = TRUE /\ live' = {issued'} /\ lost' = FALSE
      /\ pc' \in [Callers -> Phases] /\ \A d \in Callers : pc'[d] = "idle"
      /\ UNCHANGED <<cred, fresh>>
  BY DEF Login, Goto, TypeOK, Phases
<1>2. issued' \in 1 .. MaxTokens /\ issued' > issued /\ issued' \in 1 .. issued'
  BY <1>1, MaxTokensAssumption DEF TypeOK
<1>3. file' \in Credentials /\ file'.refresh \in {0, issued'}
  BY <1>1, <1>2, MaxTokensAssumption DEF Credentials, Tokens
<1>4. TypeOK'
  BY <1>1, <1>2, <1>3 DEF TypeOK
<1>5. Issued'
  <2>1. \A d \in Callers : /\ cred[d].refresh \in Nat /\ cred[d].refresh <= issued
                           /\ fresh[d].refresh \in Nat /\ fresh[d].refresh <= issued
    BY DEF Issued, TypeOK, Credentials, Tokens
  <2>2. issued \in Nat
    BY DEF TypeOK
  <2>3. \A d \in Callers : cred[d].refresh <= issued' /\ fresh[d].refresh <= issued'
    BY <2>1, <2>2, <1>1
  <2>4. file'.refresh <= issued'
    BY <2>2, <1>1, <1>3
  <2> QED BY <1>1, <2>3, <2>4 DEF Issued
<1>6. OneLive'
  BY <1>1 DEF OneLive
<1>7. \A d \in Callers : ~Saving(d)'
  BY <1>1 DEF Saving
<1>8. OneSaver' /\ SaverHoldsToken' /\ WritesToEmptyFile'
  BY <1>7 DEF OneSaver, SaverHoldsToken, WritesToEmptyFile, Saving
<1>9. Whole'
  BY <1>3, CredentialIsWhole DEF Whole
<1>10. AbsentForCause' /\ FileUsable'
  BY <1>1, <1>3, <1>9 DEF AbsentForCause, FileUsable
<1> QED BY <1>4, <1>5, <1>6, <1>8, <1>10

\* The file grows old, or nothing happens: no part of the invariant looks at
\* its age.
LEMMA AgeInv ==
  ASSUME Inv, recent' \in BOOLEAN,
         UNCHANGED <<file, live, issued, pc, cred, fresh, lost>>
  PROVE  Inv'
<1> USE DEF Inv
<1>1. TypeOK'
  BY DEF TypeOK
<1>2. Issued' /\ OneLive' /\ OneSaver' /\ SaverHoldsToken'
  BY DEF Issued, OneLive, OneSaver, SaverHoldsToken, Whole, Saving
<1>3. WritesToEmptyFile' /\ AbsentForCause' /\ FileUsable'
  BY DEF WritesToEmptyFile, AbsentForCause, FileUsable, Whole, Saving
<1> QED BY <1>1, <1>2, <1>3

----------------------------------------------------------------------------
\* Every step keeps the invariant.
LEMMA NextInv == ASSUME Inv, [Next]_vars PROVE Inv'
<1>1. CASE \E c \in Callers : Step(c)
  <2>1. PICK c \in Callers : Step(c)
    BY <1>1
  <2>2. CASE Read(c) BY <2>2, ReadInv
  <2>3. CASE Stat(c) BY <2>3, StatInv
  <2>4. CASE Answer(c) BY <2>4, AnswerInv
  <2>5. CASE AnswerLost(c) BY <2>5, AnswerLostInv
  <2>6. CASE RefreshFails(c) BY <2>6, MoveInv DEF RefreshFails, Saving
  <2>7. CASE Truncate(c) BY <2>7, TruncateInv
  <2>8. CASE WriteFile(c) BY <2>8, WriteInv
  <2>9. CASE SaveFails(c) BY <2>9, SaveFailsInv
  <2>10. CASE Complete(c) BY <2>10, MoveInv DEF Complete, Saving
  <2>11. CASE AccountMissing(c) BY <2>11, MoveInv DEF AccountMissing, Saving
  <2>12. CASE Return(c) BY <2>12, MoveInv DEF Return, Saving
  <2>13. CASE Login(c) BY <2>13, LoginInv
  <2> QED
    BY <2>1, <2>2, <2>3, <2>4, <2>5, <2>6, <2>7, <2>8, <2>9, <2>10, <2>11, <2>12, <2>13
    DEF Step
<1>2. CASE Age BY <1>2, AgeInv DEF Age
<1>3. CASE Crash BY <1>3, CrashInv
<1>4. CASE UNCHANGED vars BY <1>4, AgeInv DEF vars, Inv, TypeOK
<1> QED BY <1>1, <1>2, <1>3, <1>4 DEF Next

\* The invariant holds in every behaviour.
LEMMA InvHolds == Spec => []Inv
BY InitInv, NextInv, PTL DEF Spec

\* Every variable keeps its type, for any number of callers and tokens.
THEOREM TypeCorrect == Spec => []TypeOK
<1>1. Inv => TypeOK
  BY DEF Inv
<1> QED BY <1>1, InvHolds, PTL

\* Under rotation, two callers never save at one time.
THEOREM SaversAreAlone == Spec => []OneSaver
<1>1. Inv => OneSaver
  BY DEF Inv
<1> QED BY <1>1, InvHolds, PTL

\* Under rotation, what refreshes leave in auth.json can be refreshed again,
\* unless a failure or a crash fell in between.
THEOREM FileStaysUsable == Spec => []FileUsable
<1>1. Inv => FileUsable
  BY DEF Inv
<1> QED BY <1>1, InvHolds, PTL

\* Under rotation, loading fails only while another caller writes, after a
\* failure, or for want of an access token.
THEOREM LoadsFailForCause == Spec => LoadFailsForCause
<1>1. ASSUME Inv, [Next]_vars
      PROVE  [\A c \in Callers :
                Rotates /\ pc[c] = "idle" /\ pc'[c] = "failed" =>
                  \/ lost
                  \/ \E d \in Callers : pc[d] = "writing"
                  \/ Whole /\ file.access = 0]_vars
  <2> SUFFICES ASSUME Next, NEW c \in Callers, Rotates,
                      pc[c] = "idle", pc'[c] = "failed"
               PROVE  \/ lost
                      \/ \E d \in Callers : pc[d] = "writing"
                      \/ Whole /\ file.access = 0
    BY <1>1
  <2>1. pc \in [Callers -> Phases]
    BY <1>1 DEF Inv, TypeOK
  <2>2. Read(c)
    <3>1. ~Age /\ ~Crash
      BY DEF Age, Crash
    <3>2. PICK d \in Callers : Step(d)
      BY <3>1 DEF Next
    <3>3. \E phase : Goto(d, phase)
      BY <3>2 DEF Step, Read, Stat, Answer, AnswerLost, RefreshFails, Truncate, WriteFile,
                 SaveFails, Complete, AccountMissing, Return, Login
    <3>4. d = c
      BY <2>1, <3>3 DEF Goto
    <3>5. ~Login(c)
      BY <2>1 DEF Login, Goto
    <3> QED
      BY <3>2, <3>4, <3>5 DEF Step, Stat, Answer, AnswerLost, Refresh, RefreshFails, Truncate,
                        WriteFile, SaveFails, Saving, Complete, AccountMissing, Return
  <2>3. ~(Whole /\ file.access # 0)
    BY <2>1, <2>2 DEF Read, Goto
  <2> QED BY <1>1, <2>3 DEF Inv, AbsentForCause
<1> QED BY <1>1, InvHolds, PTL DEF Spec, LoadFailsForCause
============================================================================
