-------------------------------- MODULE Accounts --------------------------------
(***************************************************************************)
(* User administration (modules/auth/index.ts) behind the session guard   *)
(* (modules/auth/session-guard.ts). Every call first compares the session  *)
(* version of its token with the user's row, through a cache that keeps a   *)
(* row for two seconds; the handlers then read, count and write rows, and   *)
(* other calls run at every await in between.                               *)
(*                                                                         *)
(* A token carries a user and the version of that user's sessions at the    *)
(* login, so a caller may hold one of every version up to the current one.  *)
(* Two-factor codes are modelled in TwoFactor, failed logins in LoginLockout. *)
(***************************************************************************)
EXTENDS Naturals, FiniteSets

CONSTANTS
    UserIds,      \* ids of accounts, those not created yet included
    FirstAdmins,  \* accounts that exist at the start, as administrators
    UserCalls,    \* HTTP calls
    GuardTtl,     \* CACHE_TTL_MS of the session guard, in ticks
    MaxVersion    \* bound on sessionVersion

ASSUME AccountsAssumption ==
    /\ FirstAdmins \subseteq UserIds
    /\ FirstAdmins # {} /\ IsFiniteSet(FirstAdmins)
    /\ GuardTtl \in Nat /\ MaxVersion \in Nat

VARIABLES
    user,      \* rows of the table User
    guard,     \* the session guard's cache
    userCall,  \* what each call has read and where it stands
    changed    \* history: the time since a row last changed, up to GuardTtl

accountsVars == <<user, guard, userCall, changed>>

Roles == {"admin", "viewer"}
Ops == {"role", "password", "delete"}
UserRow(role, version) == [role |-> role, version |-> version]
Unborn == UserRow("unborn", 0)
Gone == UserRow("gone", 0)
Exists(row) == row.role \in Roles
\* Times are ages, counted up to GuardTtl, after which they make no difference.
NoEntry == [row |-> Gone, age |-> GuardTtl]

SomeUser == CHOOSE u \in UserIds : TRUE
Idle == [pc |-> "idle", by |-> SomeUser, version |-> 0, late |-> FALSE, seen |-> NoEntry,
         op |-> "password", target |-> SomeUser, role |-> "viewer", had |-> "gone",
         count |-> 0]

Admins == {u \in UserIds : user[u].role = "admin"}

AccountsInit ==
    /\ user = [u \in UserIds |-> IF u \in FirstAdmins THEN UserRow("admin", 0) ELSE Unborn]
    /\ guard = [u \in UserIds |-> NoEntry]
    /\ userCall = [c \in UserCalls |-> Idle]
    /\ changed = [u \in UserIds |-> GuardTtl]

\* A call that has been answered is forgotten.
CallAnswered(c) == userCall' = [userCall EXCEPT ![c] = Idle]
Clearing(c) == [Idle EXCEPT !.pc = "clear", !.target = userCall[c].target]

\* A request with the token of a login at any version of the user's sessions so far.
BeginCall(c) ==
    /\ userCall[c].pc = "idle"
    /\ \E u \in UserIds :
         /\ Exists(user[u])
         /\ \E version \in 0 .. user[u].version :
              userCall' = [userCall EXCEPT ![c] =
                [Idle EXCEPT !.pc = "hook", !.by = u, !.version = version,
                             !.late = changed[u] = GuardTtl]]
    /\ UNCHANGED <<user, guard, changed>>

----------------------------------------------------------------------------
(* assertFreshSession, once in the onRequest hook and once in requireRole. *)

FreshEntry(u) == Exists(guard[u].row) /\ guard[u].age < GuardTtl

\* The token's version is compared with the row the guard has; a difference drops
\* the entry and refuses the call. The second time the refreshed role is required.
Judge(c, entry) ==
    LET call == userCall[c]
        fresh == call.version = entry.row.version
    IN  /\ guard' = [guard EXCEPT ![call.by] = IF fresh THEN entry ELSE NoEntry]
        /\ userCall' = [userCall EXCEPT ![c] =
             CASE fresh /\ call.pc \in {"hook", "hook read"} ->
                    [call EXCEPT !.pc = "role", !.seen = NoEntry]
               [] fresh /\ call.pc \in {"role", "role read"} /\ entry.row.role = "admin" ->
                    [Idle EXCEPT !.pc = "handler", !.by = call.by]
               [] OTHER -> Idle]

GuardHit(c) ==
    /\ userCall[c].pc \in {"hook", "role"}
    /\ FreshEntry(userCall[c].by)
    /\ Judge(c, guard[userCall[c].by])
    /\ UNCHANGED <<user, changed>>

\* An entry is dated by the moment the call asked for the row.
GuardRead(c) ==
    /\ userCall[c].pc \in {"hook", "role"}
    /\ ~FreshEntry(userCall[c].by)
    /\ userCall' = [userCall EXCEPT
         ![c] = [userCall[c] EXCEPT !.pc = IF @ = "hook" THEN "hook read" ELSE "role read",
                                    !.seen = [row |-> user[userCall[c].by], age |-> 0]]]
    /\ UNCHANGED <<user, guard, changed>>

\* The variant that dates an entry by the moment it is stored.
EntryOfNow(c) == [userCall[c].seen EXCEPT !.age = 0]

\* What the guard stores when its query is answered.
EntryOf(c) == userCall[c].seen

GuardFill(c) ==
    /\ userCall[c].pc \in {"hook read", "role read"}
    /\ IF Exists(userCall[c].seen.row)
       THEN Judge(c, EntryOf(c))
       ELSE guard' = [guard EXCEPT ![userCall[c].by] = NoEntry] /\ CallAnswered(c)
    /\ UNCHANGED <<user, changed>>

----------------------------------------------------------------------------
(* The handlers for users: list, create, update, delete. *)

\* GET /auth/users, and a body the handlers refuse.
ListUsers(c) ==
    /\ userCall[c].pc = "handler"
    /\ CallAnswered(c)
    /\ UNCHANGED <<user, guard, changed>>

\* A row changes; calls that began before are no longer late.
RowChanges(u, row, calls) ==
    /\ user' = [user EXCEPT ![u] = row]
    /\ changed' = [changed EXCEPT ![u] = 0]
    /\ userCall' = [c \in UserCalls |->
                      IF calls[c].by = u THEN [calls[c] EXCEPT !.late = FALSE] ELSE calls[c]]

\* POST /auth/users: a new account has an id of its own.
CreateUser(c) ==
    /\ userCall[c].pc = "handler"
    /\ \E u \in UserIds, role \in Roles :
         /\ user[u] = Unborn
         /\ RowChanges(u, UserRow(role, 0), [userCall EXCEPT ![c] = Idle])
    /\ UNCHANGED guard

\* The update takes the administrator's role away.
Demotes(op, role, had) ==
    /\ had = "admin"
    /\ op = "delete" \/ (op = "role" /\ role # "admin")

\* PATCH and DELETE read the row first; nobody deletes their own account.
FindUser(c) ==
    /\ userCall[c].pc = "handler"
    /\ \E op \in Ops, target \in UserIds, role \in Roles :
         LET had == user[target].role
         IN  /\ Exists(user[target])
             /\ op = "delete" => target # userCall[c].by
             /\ op # "role" => role = Idle.role
             /\ userCall' = [userCall EXCEPT ![c] =
                  [Idle EXCEPT !.pc = IF Demotes(op, role, had) THEN "count" ELSE "write",
                               !.op = op, !.target = target, !.role = role, !.had = had]]
    /\ UNCHANGED <<user, guard, changed>>

\* The variant that lets the last administrator go.
TooFewAdminsNever(count) == count < 1

\* The last administrator is neither demoted nor deleted.
TooFewAdmins(count) == count <= 1

CountAdmins(c) ==
    /\ userCall[c].pc = "count"
    /\ LET count == Cardinality(Admins)
       IN  IF TooFewAdmins(count)
           THEN CallAnswered(c)
           ELSE userCall' = [userCall EXCEPT ![c] =
                               [userCall[c] EXCEPT !.count = count, !.pc = "write"]]
    /\ UNCHANGED <<user, guard, changed>>

RevokesSessions(call) ==
    call.op = "password" \/ (call.op = "role" /\ call.role # call.had)

\* The variant that writes the fields a patch does not name.
UpdatedVerbatim(call, row) ==
    UserRow(IF call.op = "role" THEN call.role ELSE "undefined",
            IF RevokesSessions(call) THEN row.version + 1 ELSE row.version)

\* The row an update leaves: a revoked session's version is incremented.
UpdatedRow(call, row) ==
    UserRow(IF call.op = "role" THEN call.role ELSE row.role,
        IF RevokesSessions(call) THEN row.version + 1 ELSE row.version)

\* A row that has gone in the meantime makes the database call fail.
UpdateUser(c) ==
    /\ userCall[c].pc = "write" /\ userCall[c].op \in {"role", "password"}
    /\ LET call == userCall[c]
           row == user[call.target]
       IN  IF ~Exists(row)
           THEN CallAnswered(c) /\ UNCHANGED <<user, changed>>
           ELSE /\ row.version < MaxVersion
                /\ RowChanges(call.target, UpdatedRow(call, row),
                     [userCall EXCEPT ![c] = IF RevokesSessions(call) THEN Clearing(c) ELSE Idle])
    /\ UNCHANGED guard

DeleteUser(c) ==
    /\ userCall[c].pc = "write" /\ userCall[c].op = "delete"
    /\ LET target == userCall[c].target
       IN  IF ~Exists(user[target])
           THEN CallAnswered(c) /\ UNCHANGED <<user, changed>>
           ELSE RowChanges(target, Gone, [userCall EXCEPT ![c] = Clearing(c)])
    /\ UNCHANGED guard

\* clearSessionGuardCache, when the database has answered the write.
ClearGuard(c) ==
    /\ userCall[c].pc = "clear"
    /\ guard' = [guard EXCEPT ![userCall[c].target] = NoEntry]
    /\ CallAnswered(c)
    /\ UNCHANGED <<user, changed>>

OlderEntry(entry) ==
    IF entry.age + 1 >= GuardTtl THEN NoEntry ELSE [entry EXCEPT !.age = @ + 1]

\* Time passes; a row a call is still waiting for ages as well.
UserTick ==
    /\ guard' = [u \in UserIds |-> OlderEntry(guard[u])]
    /\ userCall' = [c \in UserCalls |->
                      [userCall[c] EXCEPT !.seen.age = IF @ < GuardTtl THEN @ + 1 ELSE @]]
    /\ changed' = [u \in UserIds |-> IF changed[u] < GuardTtl THEN changed[u] + 1 ELSE GuardTtl]
    /\ UNCHANGED user

AccountsNext ==
    \/ \E c \in UserCalls :
         \/ BeginCall(c) \/ GuardHit(c) \/ GuardRead(c) \/ GuardFill(c)
         \/ ListUsers(c) \/ CreateUser(c) \/ FindUser(c) \/ CountAdmins(c)
         \/ UpdateUser(c) \/ DeleteUser(c) \/ ClearGuard(c)
    \/ UserTick

AccountsSpec == AccountsInit /\ [][AccountsNext]_accountsVars

----------------------------------------------------------------------------
CallType ==
    [pc : {"idle", "hook", "hook read", "role", "role read", "handler", "count", "write",
           "clear"},
     by : UserIds, version : 0 .. MaxVersion, late : BOOLEAN, op : Ops, target : UserIds,
     role : Roles,
     seen : [row : [role : Roles \cup {"gone"}, version : 0 .. MaxVersion],
             age : 0 .. GuardTtl],
     had : Roles \cup {"gone"},
     count : Nat]

\* The rows, the cache and the calls have their types (session-guard.ts:6, User).
AccountsTypeOK ==
    /\ user \in [UserIds -> [role : Roles \cup {"unborn", "gone"}, version : 0 .. MaxVersion]]
    /\ guard \in [UserIds -> [row : [role : Roles \cup {"gone"}, version : 0 .. MaxVersion],
                              age : 0 .. GuardTtl]]
    /\ userCall \in [UserCalls -> CallType]
    /\ changed \in [UserIds -> 0 .. GuardTtl]

\* A call passes the guard: its role has been refreshed and it goes on.
Passes(c) ==
    /\ userCall[c].pc \in {"role", "role read"}
    /\ userCall'[c].pc = "handler"

\* A change of role, password or existence holds for every call begun GuardTtl after
\* it, although a row read before the change may be cached after the change has
\* cleared the cache: such a call gets past the guard only if the row it is about
\* gives it the administrator's role and still has the token's version.
RevokedInTime(c) ==
    Passes(c) /\ userCall[c].late
        => user[userCall[c].by] = UserRow("admin", userCall[c].version)

\* The count keeps the last administrator: a step after which nobody is one is taken
\* only by a call that another call has overtaken between its reads and its write,
\* so that fewer administrators are left than it counted, or its target was not one
\* when it looked and has become one since.
LastAdminOvertaken ==
    Admins # {} /\ Admins' = {}
        => \E c \in UserCalls :
             /\ userCall[c].pc = "write" /\ userCall'[c].pc # "write"
             /\ \/ userCall[c].count > Cardinality(Admins)
                \/ userCall[c].had # user[userCall[c].target].role

\* A right taken away is gone in time, and the last administrator's is not taken away
\* unless requests overtake each other (session-guard.ts:36, auth/index.ts:493).
RightsHold == [][(\A c \in UserCalls : RevokedInTime(c)) /\ LastAdminOvertaken]_accountsVars
================================================================================
