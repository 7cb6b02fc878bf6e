----------------------------- MODULE CodexAuth -----------------------------
(***************************************************************************)
(* internal/auth/codex_oauth.go and codex_cli.go, with the caller in       *)
(* internal/llm/codex_oauth.go: the credentials of the Codex CLI, which    *)
(* every completion loads from auth.json, and refreshes there when the     *)
(* file is about an hour old.  Nothing locks the file, and the gateways    *)
(* complete in goroutines of their own.                                    *)
(*                                                                         *)
(* Tokens are numbered in the order in which they are issued, 0 standing   *)
(* for the empty string.  An account id is there or not.  The token server *)
(* is external: it rotates refresh tokens, so each is good for one use, or *)
(* it leaves refresh_token out of its answers and the old one stays good.  *)
(***************************************************************************)
EXTENDS Naturals

CONSTANTS
  Callers,    \* goroutines that complete at one time, and EnsureCodexLogin
  Rotates,    \* does the server replace a refresh token that it accepts?
  MaxTokens,  \* bound on the tokens issued
  NotThere, Truncated, Mixed  \* what the file may be other than credentials

ASSUME RotatesAssumption == Rotates \in BOOLEAN
ASSUME MaxTokensAssumption == MaxTokens \in Nat \ {0}

VARIABLES
  file,    \* auth.json
  recent,  \* it was written to less than 55 minutes ago
  live,    \* refresh tokens that the server accepts
  issued,  \* the last token issued
  pc,      \* where each caller is
  cred,    \* the credential it loaded
  fresh,   \* the one that its refresh returned
  lost     \* what the server issued, or the file, was lost in a failure

vars == <<file, recent, live, issued, pc, cred, fresh, lost>>

----------------------------------------------------------------------------
Tokens == 0 .. MaxTokens

\* Tokens in CodexAuthFile.
Credentials == [access : Tokens, refresh : Tokens, account : BOOLEAN]

\* No file, one that is truncated, one that is no JSON: LoadCodexCredential
\* returns an error for each.
NoFile == {NotThere, Truncated, Mixed}

ASSUME NoFileAssumption == NoFile \intersect Credentials = {}

Nothing == [access |-> 0, refresh |-> 0, account |-> FALSE]

Whole == file \notin NoFile

Phases == {"idle", "stat", "posting", "answered", "writing", "loaded", "failed"}

\* What extractAccountID may find in the answer's id token: an account or none.
ExtractedAccounts == BOOLEAN

\* The callers that hold a refreshed credential that is not in the file yet.
Saving(c) == pc[c] \in {"answered", "writing"}

\* With or without a refresh token or an account: what `codex --login` left,
\* at whatever age; or nothing, when it was never run.
Init ==
  /\ file \in [access : {1}, refresh : {0, 1}, account : BOOLEAN] \union {NotThere}
  /\ recent \in BOOLEAN
  /\ live = {1}
  /\ issued = 1
  /\ pc = [c \in Callers |-> "idle"]
  /\ cred = [c \in Callers |-> Nothing]
  /\ fresh = [c \in Callers |-> Nothing]
  /\ lost = (file = NotThere)

Goto(c, phase) == pc' = [pc EXCEPT ![c] = phase]

----------------------------------------------------------------------------
(* LoadCodexCredential. *)

\* A variant with a bug: what a refresh returned is also taken from memory,
\* saved or not.
ReadShared(c) ==
  /\ pc[c] = "idle"
  /\ \E x \in {file} \union {fresh[d] : d \in Callers} :
       /\ x \notin NoFile \union {Nothing}
       /\ cred' = [cred EXCEPT ![c] = x]
  /\ Goto(c, "stat")
  /\ UNCHANGED <<file, recent, live, issued, fresh, lost>>

\* readCodexAuthFile, and the test of the access token: the stat between them
\* is Stat, which touches nothing that the test looks at.
Read(c) ==
  /\ pc[c] = "idle"
  /\ IF Whole /\ file.access # 0
       THEN cred' = [cred EXCEPT ![c] = file] /\ Goto(c, "stat")
       ELSE Goto(c, "failed") /\ UNCHANGED cred
  /\ UNCHANGED <<file, recent, live, issued, fresh, lost>>

\* The age is that of the file now, whoever wrote it since it was read.
Stat(c) ==
  /\ pc[c] = "stat"
  /\ Goto(c, IF recent \/ cred[c].refresh = 0 THEN "loaded" ELSE "posting")
  /\ UNCHANGED <<file, recent, live, issued, cred, fresh, lost>>

\* The server accepts the refresh token.  Its answer need not hold an access
\* token, nor a token with the account: neither is checked.
Refresh(c) ==
  /\ pc[c] = "posting" /\ cred[c].refresh \in live /\ issued < MaxTokens
  /\ issued' = issued + 1
  /\ live' = IF Rotates THEN (live \ {cred[c].refresh}) \union {issued'} ELSE live

\* A variant with a bug: the answer's refresh token is not kept.
AnswerOldToken(c) ==
  /\ Refresh(c)
  /\ \E access \in {0, issued'}, account \in ExtractedAccounts :
       fresh' = [fresh EXCEPT ![c] =
         [access |-> access,
          refresh |-> cred[c].refresh,
          account |-> account \/ cred[c].account]]
  /\ Goto(c, "answered")
  /\ UNCHANGED <<file, recent, cred, lost>>

Answer(c) ==
  /\ Refresh(c)
  /\ \E access \in {0, issued'}, account \in ExtractedAccounts :
       fresh' = [fresh EXCEPT ![c] =
         [access |-> access,
          refresh |-> IF Rotates THEN issued' ELSE cred[c].refresh,
          account |-> account \/ cred[c].account]]
  /\ Goto(c, "answered")
  /\ UNCHANGED <<file, recent, cred, lost>>

\* The server has accepted the token, and its answer does not arrive, or
\* cannot be parsed.
AnswerLost(c) ==
  /\ Refresh(c)
  /\ lost' = TRUE
  /\ Goto(c, "loaded")
  /\ UNCHANGED <<file, recent, cred, fresh>>

\* A variant with a bug: a refresh that failed logs out.
RefreshFailsForgets(c) ==
  /\ pc[c] = "posting"
  /\ file' = NotThere
  /\ Goto(c, "loaded")
  /\ UNCHANGED <<recent, live, issued, cred, fresh, lost>>

\* The server is not reached, or refuses.
RefreshFails(c) ==
  /\ pc[c] = "posting"
  /\ Goto(c, "loaded")
  /\ UNCHANGED <<file, recent, live, issued, cred, fresh, lost>>

(* saveCodexAuthFile: os.WriteFile truncates the file, then writes it. *)

Truncate(c) ==
  /\ pc[c] = "answered"
  /\ file' = Truncated /\ recent' = TRUE
  /\ Goto(c, "writing")
  /\ UNCHANGED <<live, issued, cred, fresh, lost>>

\* Over what another caller wrote since the truncation, the end of a longer
\* payload stays.
WriteFile(c) ==
  /\ pc[c] = "writing"
  /\ file' \in IF file = Truncated THEN {fresh[c]} ELSE {fresh[c], Mixed}
  /\ recent' = TRUE
  /\ cred' = [cred EXCEPT ![c] = fresh[c]]
  /\ Goto(c, "loaded")
  /\ UNCHANGED <<live, issued, fresh, lost>>

\* The file cannot be opened, or not all is written.  The old credential is
\* returned, as after any failure of the refresh.
SaveFails(c) ==
  /\ Saving(c)
  /\ file' \in IF pc[c] = "writing" /\ Whole THEN {file, Mixed} ELSE {file}
  /\ lost' = TRUE
  /\ Goto(c, "loaded")
  /\ UNCHANGED <<recent, live, issued, cred, fresh>>

----------------------------------------------------------------------------
(* CodexOAuthProvider.Complete, with the credential. *)

\* The request is sent and answered, or fails; the tokens are not looked at
\* again.  EnsureCodexLogin returns.
Complete(c) ==
  /\ pc[c] = "loaded" /\ cred[c].account
  /\ Goto(c, "idle")
  /\ UNCHANGED <<file, recent, live, issued, cred, fresh, lost>>

AccountMissing(c) ==
  /\ pc[c] = "loaded" /\ ~cred[c].account
  /\ Goto(c, "failed")
  /\ UNCHANGED <<file, recent, live, issued, cred, fresh, lost>>

\* Complete, or EnsureCodexLogin where codex is not found, returns the error.
Return(c) ==
  /\ pc[c] = "failed"
  /\ Goto(c, "idle")
  /\ UNCHANGED <<file, recent, live, issued, cred, fresh, lost>>

----------------------------------------------------------------------------
(* The rest of the world. *)

\* The file reaches 55 minutes.
Age ==
  /\ recent
  /\ recent' = FALSE
  /\ UNCHANGED <<file, live, issued, pc, cred, fresh, lost>>

\* A crash while the server answers is AnswerLost, then Crash.
Crash ==
  /\ lost' = (lost \/ \E c \in Callers : Saving(c))
  /\ pc' = [c \in Callers |-> "idle"]
  /\ UNCHANGED <<file, recent, live, issued, cred, fresh>>

\* EnsureCodexLogin, as `clawkangsar auth codex` or from the wizard.  It is a
\* caller like the others: it loads the credential first, which may refresh and
\* write it, and is done if that succeeds.  After a load that failed, or with
\* --force without one, `codex --login` replaces the file, and the load that
\* validates it is the caller's next.  This is while nobody else is at work;
\* tokens that nobody holds any more are left out of live.
Login(c) ==
  /\ pc[c] \in {"idle", "failed"} /\ \A d \in Callers \ {c} : pc[d] = "idle"
  /\ issued < MaxTokens
  /\ issued' = issued + 1
  /\ file' \in [access : {issued'}, refresh : {0, issued'}, account : BOOLEAN]
  /\ recent' = TRUE /\ live' = {issued'} /\ lost' = FALSE
  /\ Goto(c, "idle")
  /\ UNCHANGED <<cred, fresh>>

Step(c) ==
  \/ Read(c) \/ Stat(c)
  \/ Answer(c) \/ AnswerLost(c) \/ RefreshFails(c)
  \/ Truncate(c) \/ WriteFile(c) \/ SaveFails(c)
  \/ Complete(c) \/ AccountMissing(c) \/ Return(c)
  \/ Login(c)

Next == (\E c \in Callers : Step(c)) \/ Age \/ Crash

Spec == Init /\ [][Next]_vars

----------------------------------------------------------------------------
\* Every variable keeps its type; in particular a saved credential is one that
\* the file can hold, and a caller is nowhere but in a phase of the code.
TypeOK ==
  /\ file \in Credentials \union NoFile
  /\ recent \in BOOLEAN
  /\ live \subseteq 1 .. issued
  /\ issued \in 1 .. MaxTokens
  /\ pc \in [Callers -> Phases]
  /\ cred \in [Callers -> Credentials]
  /\ fresh \in [Callers -> Credentials]
  /\ lost \in BOOLEAN

\* Although nothing locks the file, two callers never save at one time, as
\* long as the server rotates refresh tokens: the one that is refused falls
\* back on the credential that it read.  So writes of auth.json do not mix.
OneSaver ==
  Rotates => \A c, d \in Callers : Saving(c) /\ Saving(d) => c = d

\* Unless a failure or a crash fell between the server's answer and the end of
\* the write, the file that a refresh leaves is whole, and the refresh token
\* in it is one that the server still accepts: nobody has to log in again.
FileUsable ==
  Rotates /\ ~lost /\ (\A c \in Callers : ~Saving(c))
    => Whole /\ file.refresh \in live \union {0}

\* Loading fails only while another caller writes the file, after a failure,
\* or when the server left out the access token.
LoadFailsForCause ==
  [][\A c \in Callers :
       Rotates /\ pc[c] = "idle" /\ pc'[c] = "failed" =>
         \/ lost
         \/ \E d \in Callers : pc[d] = "writing"
         \/ Whole /\ file.access = 0]_vars
============================================================================
