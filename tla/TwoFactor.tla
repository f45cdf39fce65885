-------------------------------- MODULE TwoFactor --------------------------------
(***************************************************************************)
(* Two-factor authentication of one account (modules/auth/index.ts,        *)
(* modules/auth/totp.ts): set-up, confirmation, disabling and the second    *)
(* step of a login. Every handler reads the row, works on what it read      *)
(* while other calls run (bcrypt, the QR image), and then writes. Only the  *)
(* login writes on the condition that the row still is what it read.        *)
(*                                                                         *)
(* A secret is a number, in the order of the set-ups; the backup codes of a  *)
(* confirmation are a batch, of which some are left.                        *)
(***************************************************************************)
EXTENDS Naturals, FiniteSets

CONSTANTS
    TotpCalls,    \* HTTP calls
    BackupCodes,  \* the codes of a batch
    MaxSecrets,   \* bound on set-ups
    MaxBatches    \* bound on confirmations

ASSUME TwoFactorAssumption == MaxSecrets \in Nat /\ MaxBatches \in Nat

VARIABLES
    totp,       \* totpEnabled, totpSecretEnc (0 is null) and totpBackupHashes
    totpCall,   \* what each call has read and where it stands
    secrets,    \* set-ups so far
    batches,    \* confirmations so far
    confirmed,  \* history: secrets for which the right code was entered
    spent,      \* history: backup codes that have let a login in
    overtaken   \* history: a set-up, confirmation or disabling wrote over another

totpVars == <<totp, totpCall, secrets, batches, confirmed, spent, overtaken>>

NoBatch == [batch |-> 0, left |-> {}]
NoSecret == 0
Off == [enabled |-> FALSE, secret |-> NoSecret, codes |-> NoBatch]
NoTotpCall == [pc |-> "idle", read |-> Off, entered |-> "totp", new |-> 0, stale |-> FALSE]
Entries == BackupCodes \cup {"totp"}

TwoFactorInit ==
    /\ totp = Off
    /\ totpCall = [c \in TotpCalls |-> NoTotpCall]
    /\ secrets = 0 /\ batches = 0
    /\ confirmed = {} /\ spent = {}
    /\ overtaken = FALSE

\* The second factor is asked for only if it is enabled and there is a secret.
Asked(row) == row.enabled /\ row.secret # NoSecret

\* consumeBackupCode: the entered code is among the hashes of the row read.
CodeLeft(row, entered) == entered \in row.codes.left

Waits(c, pc, entered, new) ==
    totpCall' = [totpCall EXCEPT ![c] =
                   [pc |-> pc, read |-> totp, entered |-> entered, new |-> new, stale |-> FALSE]]

\* A handler writes the row; others that read it before are stale from then on.
Writes(c, row) ==
    /\ totp' = row
    /\ totpCall' = [d \in TotpCalls |->
                     IF d = c \/ totpCall[d].pc = "idle" THEN NoTotpCall
                     ELSE [totpCall[d] EXCEPT !.stale = TRUE]]
    /\ overtaken' = (overtaken \/ totpCall[c].stale)

----------------------------------------------------------------------------
\* A secret is made for an account that has none enabled.
SetupRead(c) ==
    /\ totpCall[c].pc = "idle"
    /\ ~totp.enabled
    /\ secrets < MaxSecrets
    /\ secrets' = secrets + 1
    /\ Waits(c, "setup", "totp", secrets + 1)
    /\ UNCHANGED <<totp, batches, confirmed, spent, overtaken>>

\* What a set-up writes, over whatever is there by then.
PendingRow(secret) == [enabled |-> FALSE, secret |-> secret, codes |-> NoBatch]

SetupWrite(c) ==
    /\ totpCall[c].pc = "setup"
    /\ Writes(c, PendingRow(totpCall[c].new))
    /\ UNCHANGED <<secrets, batches, confirmed, spent>>

\* The code is right for the secret of the row, which is then confirmed.
ConfirmRead(c) ==
    /\ totpCall[c].pc = "idle"
    /\ totp.secret # NoSecret /\ ~totp.enabled
    /\ batches < MaxBatches
    /\ batches' = batches + 1
    /\ confirmed' = confirmed \cup {totp.secret}
    /\ Waits(c, "confirm", "totp", batches + 1)
    /\ UNCHANGED <<totp, secrets, spent, overtaken>>

\* Mutated form: the hashes of the new codes are not stored.
EnabledRowWithoutCodes(row, batch) == [row EXCEPT !.enabled = TRUE]

\* Enabling leaves the secret as it is by then.
EnabledRow(row, batch) ==
    [row EXCEPT !.enabled = TRUE, !.codes = [batch |-> batch, left |-> BackupCodes]]

ConfirmWrite(c) ==
    /\ totpCall[c].pc = "confirm"
    /\ Writes(c, EnabledRow(totp, totpCall[c].new))
    /\ UNCHANGED <<secrets, batches, confirmed, spent>>

\* The password is right, and so is a code if the account asks for one.
DisableRead(c) ==
    /\ totpCall[c].pc = "idle"
    /\ \E entered \in Entries :
         /\ entered # "totp" => Asked(totp) /\ CodeLeft(totp, entered)
         /\ Waits(c, "disable", entered, 0)
    /\ UNCHANGED <<totp, secrets, batches, confirmed, spent, overtaken>>

DisableWrite(c) ==
    /\ totpCall[c].pc = "disable"
    /\ Writes(c, Off)
    /\ UNCHANGED <<secrets, batches, confirmed, spent>>

----------------------------------------------------------------------------
\* A login that enters a right code of the row it reads.
LoginRead(c) ==
    /\ totpCall[c].pc = "idle"
    /\ Asked(totp)
    /\ \E entered \in BackupCodes :
         CodeLeft(totp, entered) /\ Waits(c, "login", entered, 0)
    /\ UNCHANGED <<totp, secrets, batches, confirmed, spent, overtaken>>

\* The variant without the condition on the hashes.
StillAnyHashes(c) == TRUE

\* updateMany where totpBackupHashes is what was read: the hashes are replaced only
\* if nobody has replaced them since.
StillTheHashes(c) == totp.codes = totpCall[c].read.codes

LoginConsume(c) ==
    /\ totpCall[c].pc = "login"
    /\ LET call == totpCall[c]
       IN  IF StillTheHashes(c)
           THEN /\ totp' = [totp EXCEPT !.codes.left = call.read.codes.left \ {call.entered}]
                /\ spent' = spent \cup {<<call.read.codes.batch, call.entered>>}
           ELSE UNCHANGED <<totp, spent>>
    /\ totpCall' = [totpCall EXCEPT ![c] = NoTotpCall]
    /\ UNCHANGED <<secrets, batches, confirmed, overtaken>>

TwoFactorNext ==
    \E c \in TotpCalls :
        \/ SetupRead(c) \/ SetupWrite(c)
        \/ ConfirmRead(c) \/ ConfirmWrite(c)
        \/ DisableRead(c) \/ DisableWrite(c)
        \/ LoginRead(c) \/ LoginConsume(c)

TwoFactorSpec == TwoFactorInit /\ [][TwoFactorNext]_totpVars

----------------------------------------------------------------------------
RowType ==
    [enabled : BOOLEAN, secret : 0 .. MaxSecrets,
     codes : [batch : 0 .. MaxBatches, left : SUBSET BackupCodes]]

\* The row and the calls have their types (model User, totp columns).
TwoFactorTypeOK ==
    /\ totp \in RowType
    /\ totpCall \in [TotpCalls -> [pc : {"idle", "setup", "confirm", "disable", "login"},
                                   read : RowType, entered : Entries, new : Nat,
                                   stale : BOOLEAN]]
    /\ secrets \in 0 .. MaxSecrets /\ batches \in 0 .. MaxBatches
    /\ confirmed \subseteq 1 .. MaxSecrets
    /\ spent \subseteq (1 .. MaxBatches) \X BackupCodes
    /\ overtaken \in BOOLEAN

\* A backup code lets one login in, however many enter it at the same time.
CodeCountsOnce ==
    [][\A c \in TotpCalls :
         totpCall[c].pc = "login" /\ totpCall'[c].pc = "idle" /\ StillTheHashes(c)
           => <<totpCall[c].read.codes.batch, totpCall[c].entered>> \notin spent]_totpVars

\* An account with two-factor authentication enabled has a secret that its owner has
\* confirmed, and the batch of codes handed out for it, as long as no set-up,
\* confirmation or disabling was overtaken between its read and its write by another.
EnabledIsConfirmed ==
    ~overtaken /\ totp.enabled => totp.secret \in confirmed /\ totp.codes.batch # 0

\* Codes and the switch: a code counts once, and no step enables what has not been confirmed
\* (auth/index.ts:267, 365).
CodesHold == CodeCountsOnce /\ [][EnabledIsConfirmed']_totpVars
================================================================================
