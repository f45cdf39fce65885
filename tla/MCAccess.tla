-------------------------------- MODULE MCAccess --------------------------------
(***************************************************************************)
(* The parts of the API that keep state between requests and jobs, and the    *)
(* page's sign-in, each on a small instance. They share no state in the code, *)
(* so a behaviour is one of one part: it is chosen at the start, and the      *)
(* others stay as they began.                                                *)
(***************************************************************************)
EXTENDS Accounts, LoginLockout, TwoFactor, SettingsStore, DockerClient, SignIn

VARIABLE part    \* the part this behaviour is about

Parts == {"accounts", "lockout", "totp", "settings", "docker", "sign-in"}

accessVars == <<part, accountsVars, lockoutVars, totpVars, settingsVars, dockerVars, signInVars>>

SignInAtRest == authOn = FALSE /\ web[CHOOSE r \in WebRequests : TRUE] # NoWebRequest

\* The part that rests has one initial state.
AccessInit ==
    /\ part \in Parts
    /\ AccountsInit /\ LockoutInit /\ TwoFactorInit /\ SettingsInit /\ DockerInit
    /\ SignInInit
    /\ part = "sign-in" \/ SignInAtRest

AccessNext ==
    \/ /\ part = "accounts" /\ AccountsNext
       /\ UNCHANGED <<part, lockoutVars, totpVars, settingsVars, dockerVars, signInVars>>
    \/ /\ part = "lockout" /\ LockoutNext
       /\ UNCHANGED <<part, accountsVars, totpVars, settingsVars, dockerVars, signInVars>>
    \/ /\ part = "totp" /\ TwoFactorNext
       /\ UNCHANGED <<part, accountsVars, lockoutVars, settingsVars, dockerVars, signInVars>>
    \/ /\ part = "settings" /\ SettingsNext
       /\ UNCHANGED <<part, accountsVars, lockoutVars, totpVars, dockerVars, signInVars>>
    \/ /\ part = "docker" /\ DockerNext
       /\ UNCHANGED <<part, accountsVars, lockoutVars, totpVars, settingsVars, signInVars>>
    \/ /\ part = "sign-in" /\ SignInNext
       /\ UNCHANGED <<part, accountsVars, lockoutVars, totpVars, settingsVars, dockerVars>>

AccessSpec == AccessInit /\ [][AccessNext]_accessVars

\* The state of the part that runs has its types; the others are as they began
\* (session-guard.ts:6, login-lockout.ts:10, totp.ts:78, settings.service.ts:61,
\* dockerode-client.ts:102, auth-provider.tsx:182).
AccessTypeOK ==
    /\ part \in Parts
    /\ part = "accounts" => AccountsTypeOK
    /\ part = "lockout" => LockoutTypeOK
    /\ part = "totp" => TwoFactorTypeOK
    /\ part = "settings" => SettingsTypeOK
    /\ part = "docker" => DockerTypeOK
    /\ part = "sign-in" => SignInTypeOK
================================================================================
