------------------------------ MODULE LoginLockout ------------------------------
(***************************************************************************)
(* The counters of failed logins (modules/auth/login-lockout.ts) and the   *)
(* two login handlers that use them: a call is let in when neither the      *)
(* counter of its address nor the account's own is locked, compares the     *)
(* password or code while other calls run, and then counts a failure in     *)
(* both or forgets both. The counters are mirrored to a file that a         *)
(* restart reads; a write that fails is ignored.                            *)
(*                                                                         *)
(* One account. Times are kept as ages, and ages and failures are counted   *)
(* as far as they matter: a counter whose window is over is forgotten.      *)
(***************************************************************************)
EXTENDS Integers, FiniteSets, FiniteSetsExt

CONSTANTS
    Addresses,    \* client addresses
    Logins,       \* login calls
    MaxFailures,  \* MAX_FAILURES
    LockTime      \* LOCK_MS and FAILURE_WINDOW_MS, which are equal, in ticks

\* A first failure never locks; MAX_FAILURES is 5. Logins under way are finitely many.
ASSUME LockoutAssumption ==
    /\ MaxFailures \in Nat \ {0, 1} /\ LockTime \in Nat \ {0}
    /\ IsFiniteSet(Logins) /\ Logins # {}

VARIABLES
    locks,     \* the Map of counters: one per address with the account, one for the account
    lockFile,  \* what the file holds
    login,     \* login[l]: the address of a call that is comparing, or NoAddress
    period     \* history: a period of LockTime ticks that began at any time, and the wrong
               \* answers in it since the last right one

lockoutVars == <<locks, lockFile, login, period>>

NoAddress == "none"
Account == "account"
LockoutKeys == Addresses \cup {Account}

\* left is lockedUntil - now, and -1 once that is past; age is now - windowStartedAt.
Counter ==
    [failures : 0 .. MaxFailures, locked : BOOLEAN, left : -1 .. LockTime, age : 0 .. LockTime + 1]
NoCounter == [failures |-> 0, locked |-> FALSE, left |-> -1, age |-> 0]
FirstFailure == [NoCounter EXCEPT !.failures = 1]

PeriodBegins == [age |-> 0, failures |-> 0]

NothingFailed == [k \in LockoutKeys |-> NoCounter]

LockoutInit ==
    /\ locks = NothingFailed
    /\ lockFile = NothingFailed
    /\ login = [l \in Logins |-> NoAddress]
    /\ period = PeriodBegins

\* assertLoginAllowed
Allowed(counter) == ~(counter.locked /\ counter.left > 0)

\* Mutated form: only the counter of the address is asked.
LetInByAddress(l, a) ==
    /\ login[l] = NoAddress /\ Allowed(locks[a])
    /\ login' = [login EXCEPT ![l] = a]
    /\ UNCHANGED <<locks, lockFile, period>>

\* assertLoginIdentities: both counters are asked before the user is looked up.
LetIn(l, a) ==
    /\ login[l] = NoAddress
    /\ Allowed(locks[a]) /\ Allowed(locks[Account])
    /\ login' = [login EXCEPT ![l] = a]
    /\ UNCHANGED <<locks, lockFile, period>>

\* The window of a counter is over: the next failure begins another.
WindowExpired(counter) ==
    \/ counter.failures = 0
    \/ counter.locked /\ counter.left < 0
    \/ counter.age > LockTime

\* The variant in which a failure during a lock begins another window.
AfterFailureForgets(counter) ==
    IF WindowExpired(counter) \/ counter.locked THEN FirstFailure
    ELSE LET failures == Min({counter.failures + 1, MaxFailures})
         IN  [counter EXCEPT !.failures = failures, !.locked = failures >= MaxFailures,
                             !.left = IF failures >= MaxFailures THEN LockTime ELSE -1]

\* recordLoginFailure: the lock begins with the MaxFailures-th failure of a window,
\* and a failure that was already under way begins it anew.
AfterFailure(counter) ==
    IF WindowExpired(counter) THEN FirstFailure
    ELSE LET failures == Min({counter.failures + 1, MaxFailures})
             locked == failures >= MaxFailures
         IN  [counter EXCEPT !.failures = failures, !.locked = locked,
                             !.left = IF locked THEN LockTime ELSE -1]

\* The file gets the new counters, unless writing it fails.
Persists(new) == lockFile' \in {new, lockFile}

LoginFails(l) ==
    /\ login[l] # NoAddress
    /\ locks' = [k \in LockoutKeys |-> IF k \in {login[l], Account} THEN AfterFailure(locks[k])
                                ELSE locks[k]]
    /\ Persists(locks')
    /\ login' = [login EXCEPT ![l] = NoAddress]
    /\ period' = IF period.age < LockTime THEN [period EXCEPT !.failures = @ + 1] ELSE period

LoginSucceeds(l) ==
    /\ login[l] # NoAddress
    /\ locks' = [k \in LockoutKeys |-> IF k \in {login[l], Account} THEN NoCounter ELSE locks[k]]
    /\ Persists(locks')
    /\ login' = [login EXCEPT ![l] = NoAddress]
    /\ period' = PeriodBegins

\* A call that ends otherwise: no such user's token, two-factor codes not enabled.
LoginGivesUp(l) ==
    /\ login[l] # NoAddress
    /\ login' = [login EXCEPT ![l] = NoAddress]
    /\ UNCHANGED <<locks, lockFile, period>>

\* useLoginLockoutFile: a restart takes the counters of the file. Failures that
\* were never written are forgotten.
RestartServer ==
    /\ locks' = lockFile
    /\ login' = [l \in Logins |-> NoAddress]
    /\ period' = IF locks = lockFile THEN period ELSE PeriodBegins
    /\ UNCHANGED lockFile

OlderCounter(counter) ==
    LET older == [counter EXCEPT !.left = IF @ < 0 THEN @ ELSE @ - 1,
                                 !.age = IF @ > LockTime THEN @ ELSE @ + 1]
    IN  IF WindowExpired(older) /\ Allowed(older) THEN NoCounter ELSE older

LockoutTick ==
    /\ locks' = [k \in LockoutKeys |-> OlderCounter(locks[k])]
    /\ lockFile' = [k \in LockoutKeys |-> OlderCounter(lockFile[k])]
    /\ period' = IF period.age < LockTime THEN [period EXCEPT !.age = @ + 1] ELSE period
    /\ UNCHANGED login

\* History: another period is looked at.
LookAgain == period' = PeriodBegins /\ UNCHANGED <<locks, lockFile, login>>

LockoutNext ==
    \/ \E l \in Logins :
         \/ \E a \in Addresses : LetIn(l, a)
         \/ LoginFails(l) \/ LoginSucceeds(l) \/ LoginGivesUp(l)
    \/ RestartServer
    \/ LockoutTick \/ LookAgain

LockoutSpec == LockoutInit /\ [][LockoutNext]_lockoutVars

----------------------------------------------------------------------------
\* Counters, file and calls have their types (login-lockout.ts:6).
LockoutTypeOK ==
    /\ locks \in [LockoutKeys -> Counter]
    /\ lockFile \in [LockoutKeys -> Counter]
    /\ login \in [Logins -> Addresses \cup {NoAddress}]
    /\ period \in [age : 0 .. LockTime, failures : Nat]

\* How many wrong answers fit into LockTime ticks. A window has MaxFailures of them, and those
\* of the calls let in before the last; the first of two windows began before the period, or
\* has them all, and the second begins with a call let in during the first.
FailureBound == 2 * (MaxFailures - 1 + Cardinality(Logins) - 1)

\* From whatever addresses they come, and whether or not the server restarts, wrong
\* answers for one account that no right one has come between are bounded in every
\* period of LockTime (recordLoginFailure, login-lockout.ts:79).
FailuresBounded == period.failures <= FailureBound

LockEnds(l, k) ==
    /\ login[l] # NoAddress /\ login'[l] = NoAddress
    /\ k \in {login[l], Account}

\* A lock that still has time to run ends early only by a right answer, by a restart
\* after a write of the file had failed, or by a wrong answer to a call let in before
\* the lock, when the window in which the lock began has ended in the meantime.
LocksLast ==
    [][\A k \in LockoutKeys :
         locks[k].left > 1 /\ ~locks'[k].locked
           => \/ locks'[k] = NoCounter /\ \E l \in Logins : LockEnds(l, k)
              \/ locks[k].age > LockTime /\ \E l \in Logins : LockEnds(l, k)
              \/ locks # lockFile]_lockoutVars

\* A lock lasts, and what it is for holds: no step exceeds the bound on wrong answers
\* (login-lockout.ts:70, 79).
LockoutHolds == LocksLast /\ [][FailuresBounded']_lockoutVars
================================================================================
