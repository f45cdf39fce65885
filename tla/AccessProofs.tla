-------------------------------- MODULE AccessProofs --------------------------------
(***************************************************************************)
(* What decides who comes in: accounts with their sessions, locked logins    *)
(* and two-factor codes in the API, and what a page shows of its login.      *)
(***************************************************************************)
EXTENDS MCAccess, CachesProofs, FiniteSetTheorems

--------------------------------------------------------------------------------
\* Accounts and their sessions

Rows == [role : Roles \cup {"unborn", "gone"}, version : Nat]
GuardEntries == [row : Rows, age : 0 .. GuardTtl]
CallRows ==
    [pc : {"idle", "hook", "hook read", "role", "role read", "handler", "count", "write",
           "clear"},
     by : UserIds, version : Nat, late : BOOLEAN, seen : GuardEntries, op : Ops,
     target : UserIds, role : Roles, had : Roles \cup {"unborn", "gone"}, count : Nat]

AccountsTypes ==
    /\ user \in [UserIds -> Rows]
    /\ guard \in [UserIds -> GuardEntries]
    /\ userCall \in [UserCalls -> CallRows]
    /\ changed \in [UserIds -> 0 .. GuardTtl]

\* Finitely many accounts have ever been created, so they can be counted.
Registered == {u \in UserIds : user[u] # Unborn}

\* An entry that differs from the row was read before the row last changed.
TrueEntry(u, entry) == entry.row = user[u] \/ entry.age >= changed[u]

\* A late call began when its user's row had not changed for GuardTtl; no change since has
\* been about that row, so what it has read itself is the row.
CallStands(call) ==
    /\ call.pc \in {"hook read", "role read"} => TrueEntry(call.by, call.seen)
    /\ call.late => changed[call.by] = GuardTtl
    /\ call.late /\ call.pc \in {"hook read", "role read"} => call.seen.row = user[call.by]
    /\ call.pc = "write" /\ Demotes(call.op, call.role, call.had) => call.count > 1

AccountsIInv ==
    /\ AccountsTypes
    /\ IsFiniteSet(Registered)
    /\ \A u \in UserIds : TrueEntry(u, guard[u])
    /\ \A c \in UserCalls : CallStands(userCall[c])

LEMMA FirstRows ==
    /\ SomeUser \in UserIds /\ Gone \in Rows /\ Unborn \in Rows
    /\ NoEntry \in GuardEntries /\ NoEntry.age = GuardTtl
    /\ Idle \in CallRows /\ Idle.pc = "idle" /\ ~Idle.late
<1>1. SomeUser \in UserIds
  BY AccountsAssumption DEF SomeUser
<1>2. Gone \in Rows /\ Unborn \in Rows
  BY DEF Gone, Unborn, UserRow, Rows
<1>3. NoEntry \in GuardEntries /\ NoEntry.age = GuardTtl
  BY <1>2, AccountsAssumption DEF NoEntry, GuardEntries
<1> QED
  BY <1>1, <1>2, <1>3 DEF Idle, CallRows, Ops, Roles

LEMMA AccountsStart == AccountsInit => AccountsIInv
<1> SUFFICES ASSUME AccountsInit PROVE AccountsIInv
  OBVIOUS
<1>1. AccountsTypes
  BY FirstRows, AccountsAssumption DEF AccountsInit, AccountsTypes, UserRow, Rows, Roles
<1>2. IsFiniteSet(Registered)
  <2>1. Registered \subseteq FirstAdmins
    BY DEF Registered, AccountsInit
  <2> QED
    BY <2>1, AccountsAssumption, FS_Subset
<1>3. \A u \in UserIds : TrueEntry(u, guard[u])
  BY FirstRows, AccountsAssumption DEF AccountsInit, TrueEntry
<1>4. \A c \in UserCalls : CallStands(userCall[c])
  BY FirstRows DEF AccountsInit, CallStands
<1> QED
  BY <1>1, <1>2, <1>3, <1>4 DEF AccountsIInv

LEMMA CallMoves ==
    ASSUME AccountsTypes, NEW c \in UserCalls, NEW call \in CallRows,
           userCall' = [userCall EXCEPT ![c] = call]
    PROVE  /\ userCall' \in [UserCalls -> CallRows] /\ userCall'[c] = call
           /\ \A d \in UserCalls \ {c} : userCall'[d] = userCall[d]
BY DEF AccountsTypes

\* A call moves and the guard's cache may change, but no row.
LEMMA CallKeeps ==
    ASSUME AccountsIInv, NEW c \in UserCalls, NEW call \in CallRows,
           userCall' = [userCall EXCEPT ![c] = call], UNCHANGED <<user, changed>>,
           CallStands(call), guard' \in [UserIds -> GuardEntries],
           \A u \in UserIds : TrueEntry(u, guard'[u])
    PROVE  AccountsIInv'
<1> USE DEF AccountsIInv
<1>1. /\ userCall' \in [UserCalls -> CallRows] /\ userCall'[c] = call
      /\ \A d \in UserCalls \ {c} : userCall'[d] = userCall[d]
  BY CallMoves
<1>2. AccountsTypes'
  BY <1>1 DEF AccountsTypes
<1>3. IsFiniteSet(Registered)'
  BY DEF Registered
<1>4. \A u \in UserIds : TrueEntry(u, guard[u])'
  BY DEF TrueEntry
<1>5. \A d \in UserCalls : CallStands(userCall[d])'
  BY <1>1 DEF CallStands, TrueEntry
<1> QED
  BY <1>2, <1>3, <1>4, <1>5

\* A row changes by the last step of a call.
LEMMA RowKeeps ==
    ASSUME AccountsIInv, NEW c \in UserCalls, NEW call \in CallRows, call.pc \in {"idle", "clear"},
           ~call.late, NEW u \in UserIds, NEW row \in Rows, UNCHANGED guard,
           RowChanges(u, row, [userCall EXCEPT ![c] = call])
    PROVE  AccountsIInv'
<1> USE DEF AccountsIInv
<1>1. /\ user' = [user EXCEPT ![u] = row] /\ user' \in [UserIds -> Rows]
      /\ \A w \in UserIds \ {u} : user'[w] = user[w]
      /\ changed' \in [UserIds -> 0 .. GuardTtl] /\ changed'[u] = 0
      /\ \A w \in UserIds \ {u} : changed'[w] = changed[w]
  BY AccountsAssumption DEF RowChanges, AccountsTypes
<1>2. \A d \in UserCalls :
        LET before == IF d = c THEN call ELSE userCall[d]
        IN  userCall'[d] = IF before.by = u THEN [before EXCEPT !.late = FALSE] ELSE before
  BY DEF RowChanges, AccountsTypes
<1>3. \A d \in UserCalls : (IF d = c THEN call ELSE userCall[d]) \in CallRows
  BY DEF AccountsTypes
<1>4. \A d \in UserCalls :
        LET before == IF d = c THEN call ELSE userCall[d]
        IN  /\ userCall'[d] \in CallRows /\ userCall'[d].pc = before.pc
            /\ userCall'[d].by = before.by /\ userCall'[d].seen = before.seen
            /\ userCall'[d].op = before.op /\ userCall'[d].role = before.role
            /\ userCall'[d].had = before.had /\ userCall'[d].count = before.count
            /\ userCall'[d].late => before.late /\ before.by # u
  <2> SUFFICES ASSUME NEW d \in UserCalls, NEW before \in CallRows,
                      before = IF d = c THEN call ELSE userCall[d]
               PROVE  /\ userCall'[d] \in CallRows /\ userCall'[d].pc = before.pc
                      /\ userCall'[d].by = before.by /\ userCall'[d].seen = before.seen
                      /\ userCall'[d].op = before.op /\ userCall'[d].role = before.role
                      /\ userCall'[d].had = before.had /\ userCall'[d].count = before.count
                      /\ userCall'[d].late => before.late /\ before.by # u
    BY <1>3
  <2>1. userCall'[d] = IF before.by = u THEN [before EXCEPT !.late = FALSE] ELSE before
    BY <1>2
  <2> QED
    BY ZenonT(30), <2>1 DEF CallRows
<1>5. AccountsTypes'
  <2>1. userCall' \in [UserCalls -> CallRows]
    BY <1>4 DEF RowChanges
  <2> QED
    BY <1>1, <2>1 DEF AccountsTypes
<1>6. IsFiniteSet(Registered)'
  <2>1. Registered' \subseteq Registered \cup {u}
    BY <1>1 DEF Registered
  <2>2. IsFiniteSet(Registered \cup {u})
    BY FS_AddElement
  <2> QED
    BY <2>1, <2>2, FS_Subset
<1>7. \A w \in UserIds : TrueEntry(w, guard[w])'
  <2> SUFFICES ASSUME NEW w \in UserIds PROVE TrueEntry(w, guard[w])'
    OBVIOUS
  <2>1. guard[w].age \in Nat
    BY DEF AccountsTypes, GuardEntries
  <2> QED
    BY <1>1, <2>1 DEF TrueEntry
<1>8. \A d \in UserCalls : CallStands(userCall[d])'
  <2> SUFFICES ASSUME NEW d \in UserCalls PROVE CallStands(userCall[d])'
    OBVIOUS
  <2>1. CASE d = c
    BY <1>4, <2>1 DEF CallStands
  <2>2. CASE d # c
    <3>1. /\ userCall'[d].pc = userCall[d].pc /\ userCall'[d].by = userCall[d].by
          /\ userCall'[d].seen = userCall[d].seen /\ userCall'[d].op = userCall[d].op
          /\ userCall'[d].role = userCall[d].role /\ userCall'[d].had = userCall[d].had
          /\ userCall'[d].count = userCall[d].count
          /\ userCall'[d].late => userCall[d].late /\ userCall[d].by # u
      BY <1>4, <2>2
    <3>2. userCall[d] \in CallRows
      BY DEF AccountsTypes
    <3>3. userCall[d].seen.age >= 0 /\ userCall[d].by \in UserIds
      <4>1. userCall[d].seen \in GuardEntries /\ userCall[d].by \in UserIds
        BY <3>2 DEF CallRows
      <4>2. userCall[d].seen.age \in 0 .. GuardTtl
        BY <4>1 DEF GuardEntries
      <4> QED
        BY <4>1, <4>2, AccountsAssumption
    <3> DEFINE call0 == userCall[d]
               call1 == userCall'[d]
    <3>4. call1.pc \in {"hook read", "role read"} =>
            call1.seen.row = user'[call1.by] \/ call1.seen.age >= changed'[call1.by]
      BY ZenonT(30), <1>1, <3>1, <3>3 DEF CallStands, TrueEntry
    <3>5. call1.late => changed'[call1.by] = GuardTtl
      <4>1. SUFFICES ASSUME call1.late PROVE changed'[call1.by] = GuardTtl
        OBVIOUS
      <4>2. call0.late /\ call1.by = call0.by /\ call0.by \in UserIds \ {u}
        BY <3>1, <3>3, <4>1
      <4>3. changed[call0.by] = GuardTtl
        BY <4>2 DEF CallStands
      <4> QED
        BY <1>1, <4>2, <4>3
    <3>6. call1.late /\ call1.pc \in {"hook read", "role read"} => call1.seen.row = user'[call1.by]
      BY <1>1, <3>1, <3>3 DEF CallStands
    <3>7. call1.pc = "write" /\ Demotes(call1.op, call1.role, call1.had) => call1.count > 1
      BY <3>1 DEF CallStands
    <3> QED
      BY <3>4, <3>5, <3>6, <3>7 DEF CallStands, TrueEntry
  <2> QED
    BY <2>1, <2>2
<1> QED
  BY <1>5, <1>6, <1>7, <1>8

LEMMA AdminsCounted == AccountsIInv => IsFiniteSet(Admins) /\ Cardinality(Admins) \in Nat
<1> SUFFICES ASSUME AccountsIInv PROVE IsFiniteSet(Admins) /\ Cardinality(Admins) \in Nat
  OBVIOUS
<1>1. Admins \subseteq Registered
  BY DEF Admins, Registered, Unborn, UserRow
<1> QED
  BY <1>1, FS_Subset, FS_CardinalityType DEF AccountsIInv

LEMMA JudgeStep ==
    ASSUME AccountsIInv, NEW c \in UserCalls, NEW entry \in GuardEntries,
           TrueEntry(userCall[c].by, entry), Judge(c, entry), UNCHANGED <<user, changed>>
    PROVE  AccountsIInv'
<1> DEFINE call == userCall[c]
           goesOn == [call EXCEPT !.pc = "role", !.seen = NoEntry]
           enters == [Idle EXCEPT !.pc = "handler", !.by = call.by]
           kept == IF call.version = entry.row.version THEN entry ELSE NoEntry
<1>1. call \in CallRows /\ call.by \in UserIds /\ CallStands(call)
  BY DEF AccountsIInv, AccountsTypes, CallRows
<1>2. /\ goesOn \in CallRows /\ goesOn.pc = "role" /\ goesOn.late = call.late
      /\ goesOn.by = call.by
      /\ enters \in CallRows /\ enters.pc = "handler" /\ ~enters.late
  BY <1>1, FirstRows DEF CallRows
<1>3. CallStands(goesOn) /\ CallStands(enters) /\ CallStands(Idle)
  BY <1>1, <1>2, FirstRows DEF CallStands
<1>4. PICK next \in {goesOn, enters, Idle} : userCall' = [userCall EXCEPT ![c] = next]
  BY DEF Judge
<1>5. next \in CallRows /\ CallStands(next)
  BY <1>2, <1>3, FirstRows
<1>6. guard' \in [UserIds -> GuardEntries] /\ \A u \in UserIds : TrueEntry(u, guard'[u])
  <2>1. kept \in GuardEntries /\ guard' = [guard EXCEPT ![call.by] = kept]
    BY FirstRows DEF Judge
  <2>2. TrueEntry(call.by, kept)
    <3>1. changed[call.by] \in 0 .. GuardTtl
      BY <1>1 DEF AccountsIInv, AccountsTypes
    <3> QED
      BY <3>1, FirstRows, AccountsAssumption DEF TrueEntry
  <2> HIDE DEF kept
  <2> QED
    BY <1>1, <2>1, <2>2 DEF AccountsIInv, AccountsTypes
<1> HIDE DEF goesOn, enters
<1> QED
  BY <1>4, <1>5, <1>6, CallKeeps

LEMMA GuardStep ==
    ASSUME AccountsIInv, NEW c \in UserCalls, GuardHit(c) \/ GuardRead(c) \/ GuardFill(c)
    PROVE  AccountsIInv'
<1> USE DEF AccountsIInv
<1> DEFINE call == userCall[c]
<1>1. call \in CallRows /\ call.by \in UserIds /\ call.seen \in GuardEntries /\ CallStands(call)
  BY DEF AccountsTypes, CallRows
<1>2. CASE GuardHit(c)
  <2>1. guard[call.by] \in GuardEntries /\ TrueEntry(call.by, guard[call.by])
    BY <1>1 DEF AccountsTypes
  <2> QED
    BY <1>2, <2>1, JudgeStep DEF GuardHit
<1>3. CASE GuardRead(c)
  <2> DEFINE pc == IF call.pc = "hook" THEN "hook read" ELSE "role read"
             entry == [row |-> user[call.by], age |-> 0]
             next == [call EXCEPT !.pc = pc, !.seen = entry]
  <2>1. entry \in GuardEntries /\ entry.row = user[call.by]
    BY <1>1, AccountsAssumption DEF GuardEntries, AccountsTypes
  <2> HIDE DEF entry
  <2>2. /\ next \in CallRows /\ next.pc \in {"hook read", "role read"} /\ next.late = call.late
        /\ next.by = call.by /\ next.seen = entry
    BY <1>1, <2>1 DEF CallRows
  <2>3. userCall' = [userCall EXCEPT ![c] = next] /\ UNCHANGED <<user, guard, changed>>
    BY <1>1, <1>3 DEF GuardRead, AccountsTypes, CallRows, entry
  <2> HIDE DEF next
  <2>4. CallStands(next)
    BY <1>1, <2>1, <2>2 DEF CallStands, TrueEntry
  <2>5. guard' \in [UserIds -> GuardEntries] /\ \A u \in UserIds : TrueEntry(u, guard'[u])
    BY <2>3 DEF AccountsTypes
  <2> QED
    BY <2>2, <2>3, <2>4, <2>5, CallKeeps
<1>4. CASE GuardFill(c)
  <2>1. CASE Exists(call.seen.row)
    <3>1. TrueEntry(call.by, call.seen)
      BY <1>1, <1>4 DEF GuardFill, CallStands
    <3> QED
      BY <1>1, <1>4, <2>1, <3>1, JudgeStep DEF GuardFill, EntryOf
  <2>2. CASE ~Exists(call.seen.row)
    <3>1. /\ guard' = [guard EXCEPT ![call.by] = NoEntry]
          /\ userCall' = [userCall EXCEPT ![c] = Idle] /\ UNCHANGED <<user, changed>>
      BY <1>4, <2>2 DEF GuardFill, CallAnswered
    <3>2. changed[call.by] \in 0 .. GuardTtl
      BY <1>1 DEF AccountsTypes
    <3>3. guard' \in [UserIds -> GuardEntries] /\ \A u \in UserIds : TrueEntry(u, guard'[u])
      BY <1>1, <3>1, <3>2, FirstRows, AccountsAssumption DEF AccountsTypes, TrueEntry
    <3>4. CallStands(Idle)
      BY FirstRows DEF CallStands
    <3> QED
      BY <3>1, <3>3, <3>4, FirstRows, CallKeeps
  <2> QED
    BY <2>1, <2>2
<1> QED
  BY <1>2, <1>3, <1>4

\* A call that begins, looks a user up, counts, or ends, without a change of a row or of
\* the cache.
LEMMA ReadStep ==
    ASSUME AccountsIInv, NEW c \in UserCalls,
           BeginCall(c) \/ ListUsers(c) \/ FindUser(c) \/ CountAdmins(c)
    PROVE  AccountsIInv'
<1> USE DEF AccountsIInv
<1>1. SUFFICES ASSUME NEW call \in CallRows, userCall' = [userCall EXCEPT ![c] = call],
                      CallStands(call), UNCHANGED <<user, guard, changed>>
               PROVE  AccountsIInv'
  <2>1. UNCHANGED <<user, guard, changed>>
    BY DEF BeginCall, ListUsers, FindUser, CountAdmins
  <2>2. CallStands(Idle) /\ userCall[c] \in CallRows
    BY FirstRows DEF CallStands, AccountsTypes
  <2>3. CASE BeginCall(c)
    <3>1. PICK u \in UserIds : \E held \in 0 .. user[u].version :
             userCall' = [userCall EXCEPT ![c] =
                [Idle EXCEPT !.pc = "hook", !.by = u, !.version = held,
                             !.late = changed[u] = GuardTtl]]
      BY <2>3 DEF BeginCall
    <3>2. PICK held \in 0 .. user[u].version :
             userCall' = [userCall EXCEPT ![c] =
                [Idle EXCEPT !.pc = "hook", !.by = u, !.version = held,
                             !.late = changed[u] = GuardTtl]]
      BY <3>1
    <3> DEFINE call == [Idle EXCEPT !.pc = "hook", !.by = u, !.version = held,
                                    !.late = changed[u] = GuardTtl]
    <3>3. user[u].version \in Nat
      BY DEF AccountsTypes, Rows
    <3>4. (changed[u] = GuardTtl) \in BOOLEAN /\ held \in Nat
      BY <3>3
    <3>5. /\ call \in CallRows /\ call.pc = "hook" /\ call.by = u
          /\ call.late <=> changed[u] = GuardTtl
      BY <3>4, FirstRows DEF CallRows
    <3>6. CallStands(call)
      BY <3>5 DEF CallStands
    <3> QED
      BY <1>1, <2>1, <3>2, <3>5, <3>6
  <2>4. CASE ListUsers(c)
    BY <1>1, <2>1, <2>2, <2>4, FirstRows DEF ListUsers, CallAnswered
  <2>5. CASE FindUser(c)
    <3>1. PICK op \in Ops, target \in UserIds, role \in Roles :
             userCall' = [userCall EXCEPT ![c] =
                  [Idle EXCEPT !.pc = IF Demotes(op, role, user[target].role)
                                      THEN "count" ELSE "write",
                               !.op = op, !.target = target, !.role = role,
                               !.had = user[target].role]]
      BY <2>5 DEF FindUser
    <3> DEFINE had == user[target].role
               call == [Idle EXCEPT !.pc = IF Demotes(op, role, had) THEN "count" ELSE "write",
                                    !.op = op, !.target = target, !.role = role, !.had = had]
    <3>2. had \in Roles \cup {"unborn", "gone"}
      BY DEF AccountsTypes, Rows
    <3>3. /\ call \in CallRows /\ call.op = op /\ call.role = role /\ call.had = had
          /\ call.pc = (IF Demotes(op, role, had) THEN "count" ELSE "write") /\ ~call.late
      BY <3>2, FirstRows DEF CallRows
    <3> HIDE DEF call, had
    <3>4. CallStands(call)
      BY <3>3 DEF CallStands, Demotes
    <3> QED
      BY <1>1, <2>1, <3>1, <3>3, <3>4 DEF call, had
  <2>6. CASE CountAdmins(c)
    <3> DEFINE count == Cardinality(Admins)
               call == [userCall[c] EXCEPT !.count = count, !.pc = "write"]
    <3>1. count \in Nat
      BY AdminsCounted
    <3>2. CASE TooFewAdmins(count)
      BY <1>1, <2>1, <2>2, <2>6, <3>2, FirstRows DEF CountAdmins, CallAnswered
    <3>3. CASE ~TooFewAdmins(count)
      <4>1. userCall' = [userCall EXCEPT ![c] = call]
        BY <2>2, <2>6, <3>3 DEF CountAdmins, AccountsTypes
      <4> HIDE DEF count
      <4>2. /\ call \in CallRows /\ call.pc = "write" /\ call.count = count
            /\ call.late = userCall[c].late /\ call.by = userCall[c].by
        BY <2>2, <3>1 DEF CallRows
      <4> HIDE DEF call
      <4>3. CallStands(call)
        <5>1. count > 1
          BY <3>1, <3>3 DEF TooFewAdmins
        <5>2. userCall[c].late => changed[userCall[c].by] = GuardTtl
          BY DEF CallStands
        <5> QED
          BY <4>2, <5>1, <5>2 DEF CallStands
      <4> QED
        BY <1>1, <2>1, <4>1, <4>2, <4>3
    <3> QED
      BY <3>2, <3>3
  <2> QED
    BY <2>3, <2>4, <2>5, <2>6
<1>2. guard' \in [UserIds -> GuardEntries] /\ \A u \in UserIds : TrueEntry(u, guard'[u])
  BY <1>1 DEF AccountsTypes
<1> QED
  BY <1>1, <1>2, CallKeeps

\* What an update leaves is a row of the table.
LEMMA UpdatedRowType ==
    ASSUME NEW call \in CallRows, NEW row \in Rows
    PROVE  UpdatedRow(call, row) \in Rows
<1>1. (IF RevokesSessions(call) THEN row.version + 1 ELSE row.version) \in Nat
  BY DEF Rows
<1>2. (IF call.op = "role" THEN call.role ELSE row.role) \in Roles \cup {"unborn", "gone"}
  BY DEF Rows, CallRows
<1> QED
  BY <1>1, <1>2 DEF UpdatedRow, UserRow, Rows

LEMMA WriteStep ==
    ASSUME AccountsIInv, NEW c \in UserCalls,
           CreateUser(c) \/ UpdateUser(c) \/ DeleteUser(c) \/ ClearGuard(c)
    PROVE  AccountsIInv'
<1> USE DEF AccountsIInv
<1> DEFINE call == userCall[c]
<1>1. call \in CallRows /\ call.target \in UserIds /\ CallStands(Idle)
  BY FirstRows DEF AccountsTypes, CallRows, CallStands
<1>2. /\ Clearing(c) \in CallRows /\ Clearing(c).pc = "clear" /\ ~Clearing(c).late
  BY <1>1, FirstRows DEF Clearing, CallRows
<1>3. ASSUME CallAnswered(c), UNCHANGED <<user, changed>>,
             guard' = guard \/ guard' = [guard EXCEPT ![call.target] = NoEntry]
      PROVE  AccountsIInv'
  <2>1. changed[call.target] \in 0 .. GuardTtl
    BY <1>1 DEF AccountsTypes
  <2>2. guard' \in [UserIds -> GuardEntries] /\ \A u \in UserIds : TrueEntry(u, guard'[u])
    BY <1>1, <1>3, <2>1, FirstRows, AccountsAssumption DEF AccountsTypes, TrueEntry
  <2> QED
    BY <1>1, <1>3, <2>2, FirstRows, CallKeeps DEF CallAnswered
<1>4. CASE CreateUser(c)
  <2>1. PICK u \in UserIds, role \in Roles :
           RowChanges(u, UserRow(role, 0), [userCall EXCEPT ![c] = Idle])
    BY <1>4 DEF CreateUser
  <2>2. UserRow(role, 0) \in Rows
    BY DEF UserRow, Rows
  <2> QED
    BY <1>4, <2>1, <2>2, FirstRows, RowKeeps DEF CreateUser
<1>5. CASE UpdateUser(c)
  <2>1. CASE ~Exists(user[call.target])
    BY <1>3, <1>5, <2>1 DEF UpdateUser
  <2>2. CASE Exists(user[call.target])
    <3>1. user[call.target] \in Rows
      BY <1>1 DEF AccountsTypes
    <3>2. UpdatedRow(call, user[call.target]) \in Rows
      BY <1>1, <3>1, UpdatedRowType
    <3>3. PICK next \in {Clearing(c), Idle} :
             RowChanges(call.target, UpdatedRow(call, user[call.target]),
                        [userCall EXCEPT ![c] = next])
      BY <1>5, <2>2 DEF UpdateUser
    <3>4. next \in CallRows /\ next.pc \in {"idle", "clear"} /\ ~next.late
      BY <1>2, FirstRows
    <3>5. guard' = guard
      BY <1>5 DEF UpdateUser
    <3> QED
      BY <1>1, <3>2, <3>3, <3>4, <3>5, RowKeeps
  <2> QED
    BY <2>1, <2>2
<1>6. CASE DeleteUser(c)
  <2>1. CASE ~Exists(user[call.target])
    BY <1>3, <1>6, <2>1 DEF DeleteUser
  <2>2. CASE Exists(user[call.target])
    <3>1. RowChanges(call.target, Gone, [userCall EXCEPT ![c] = Clearing(c)]) /\ guard' = guard
      BY <1>6, <2>2 DEF DeleteUser
    <3> QED
      BY <1>1, <1>2, <3>1, FirstRows, RowKeeps
  <2> QED
    BY <2>1, <2>2
<1>7. CASE ClearGuard(c)
  BY <1>3, <1>7 DEF ClearGuard
<1> QED
  BY <1>4, <1>5, <1>6, <1>7

LEMMA UserTickStep ==
    ASSUME AccountsIInv, UserTick
    PROVE  AccountsIInv'
<1> USE DEF AccountsIInv
<1>1. user' = user
  BY DEF UserTick
<1>2. /\ changed' \in [UserIds -> 0 .. GuardTtl]
      /\ \A u \in UserIds : changed'[u] = IF changed[u] < GuardTtl THEN changed[u] + 1 ELSE GuardTtl
  BY AccountsAssumption DEF UserTick, AccountsTypes
<1>3. ASSUME NEW u \in UserIds
      PROVE  /\ guard'[u] \in GuardEntries
             /\ guard'[u].row = user'[u] \/ guard'[u].age >= changed'[u]
  <2>1. /\ guard[u] \in GuardEntries /\ TrueEntry(u, guard[u])
        /\ guard[u].age \in 0 .. GuardTtl /\ changed[u] \in 0 .. GuardTtl
    BY DEF AccountsTypes, GuardEntries
  <2>2. guard'[u] = OlderEntry(guard[u])
    BY DEF UserTick
  <2>3. CASE guard[u].age + 1 >= GuardTtl
    <3>1. guard'[u] = NoEntry
      BY <2>2, <2>3 DEF OlderEntry
    <3>2. changed'[u] <= GuardTtl
      BY <1>2, <2>1, AccountsAssumption
    <3> QED
      BY <3>1, <3>2, FirstRows, AccountsAssumption
  <2>4. CASE guard[u].age + 1 < GuardTtl
    <3>1. guard'[u] = [guard[u] EXCEPT !.age = guard[u].age + 1]
      BY <2>1, <2>2, <2>4, AccountsAssumption DEF OlderEntry
    <3>2. /\ guard'[u] \in GuardEntries /\ guard'[u].row = guard[u].row
          /\ guard'[u].age = guard[u].age + 1
      BY <2>1, <2>4, <3>1, AccountsAssumption DEF GuardEntries
    <3>3. guard[u].age >= changed[u] => guard'[u].age >= changed'[u]
      BY <1>2, <2>1, <2>4, <3>2, AccountsAssumption
    <3> QED
      BY <1>1, <2>1, <3>2, <3>3 DEF TrueEntry
  <2> QED
    BY <2>1, <2>3, <2>4, AccountsAssumption
<1>4. ASSUME NEW c \in UserCalls PROVE userCall'[c] \in CallRows /\ CallStands(userCall[c])'
  <2> DEFINE call == userCall[c]
             older == IF call.seen.age < GuardTtl THEN call.seen.age + 1 ELSE call.seen.age
  <2>1. call \in CallRows /\ call.by \in UserIds /\ call.seen \in GuardEntries /\ CallStands(call)
    BY DEF AccountsTypes, CallRows
  <2>2. call.seen.age \in 0 .. GuardTtl /\ changed[call.by] \in 0 .. GuardTtl
    BY <2>1 DEF AccountsTypes, GuardEntries
  <2>3. older \in 0 .. GuardTtl
    BY <2>2, AccountsAssumption
  <2>4. userCall'[c] = [call EXCEPT !.seen = [call.seen EXCEPT !.age = older]]
    BY <2>1 DEF UserTick, CallRows, GuardEntries
  <2>5. /\ [call.seen EXCEPT !.age = older] \in GuardEntries
        /\ [call.seen EXCEPT !.age = older].row = call.seen.row
        /\ [call.seen EXCEPT !.age = older].age = older
    BY <2>1, <2>3 DEF GuardEntries
  <2>6. /\ userCall'[c] \in CallRows /\ userCall'[c].pc = call.pc /\ userCall'[c].by = call.by
        /\ userCall'[c].late = call.late /\ userCall'[c].op = call.op
        /\ userCall'[c].role = call.role /\ userCall'[c].had = call.had
        /\ userCall'[c].count = call.count /\ userCall'[c].seen.row = call.seen.row
        /\ userCall'[c].seen.age = older
    BY <2>1, <2>4, <2>5 DEF CallRows
  <2>7. changed[call.by] = GuardTtl => changed'[call.by] = GuardTtl
    BY <1>2, <2>1, AccountsAssumption
  <2>8. call.seen.age >= changed[call.by] => older >= changed'[call.by]
    BY <1>2, <2>1, <2>2, AccountsAssumption
  <2> HIDE DEF older
  <2> QED
    BY <1>1, <2>1, <2>6, <2>7, <2>8 DEF CallStands, TrueEntry
<1>5. AccountsTypes'
  <2>1. guard' \in [UserIds -> GuardEntries] /\ userCall' \in [UserCalls -> CallRows]
    BY <1>3, <1>4 DEF UserTick
  <2> QED
    BY <1>1, <1>2, <2>1 DEF AccountsTypes
<1>6. IsFiniteSet(Registered)'
  BY <1>1 DEF Registered
<1>7. (\A u \in UserIds : TrueEntry(u, guard[u]))'
  BY <1>3 DEF TrueEntry
<1>8. (\A c \in UserCalls : CallStands(userCall[c]))'
  BY <1>4
<1> QED
  BY <1>5, <1>6, <1>7, <1>8

LEMMA AccountsStep == AccountsIInv /\ [AccountsNext]_accountsVars => AccountsIInv'
<1> SUFFICES ASSUME AccountsIInv, [AccountsNext]_accountsVars PROVE AccountsIInv'
  OBVIOUS
<1>1. CASE UNCHANGED accountsVars
  BY <1>1 DEF accountsVars, AccountsIInv, AccountsTypes, Registered, TrueEntry, CallStands
<1>2. CASE UserTick
  BY <1>2, UserTickStep
<1>3. ASSUME NEW c \in UserCalls, GuardHit(c) \/ GuardRead(c) \/ GuardFill(c) PROVE AccountsIInv'
  BY <1>3, GuardStep
<1>4. ASSUME NEW c \in UserCalls, BeginCall(c) \/ ListUsers(c) \/ FindUser(c) \/ CountAdmins(c)
      PROVE  AccountsIInv'
  BY <1>4, ReadStep
<1>5. ASSUME NEW c \in UserCalls,
             CreateUser(c) \/ UpdateUser(c) \/ DeleteUser(c) \/ ClearGuard(c)
      PROVE  AccountsIInv'
  BY <1>5, WriteStep
<1> QED
  BY <1>1, <1>2, <1>3, <1>4, <1>5 DEF AccountsNext

\* A step of one call leaves the others where they stand.
LEMMA OthersStand ==
    ASSUME AccountsTypes, NEW d \in UserCalls, NEW c \in UserCalls \ {d},
           \/ BeginCall(d) \/ GuardHit(d) \/ GuardRead(d) \/ GuardFill(d)
           \/ ListUsers(d) \/ CreateUser(d) \/ FindUser(d) \/ CountAdmins(d)
           \/ UpdateUser(d) \/ DeleteUser(d) \/ ClearGuard(d)
    PROVE  userCall'[c].pc = userCall[c].pc
<1> USE DEF AccountsTypes
<1>1. ASSUME NEW call, userCall' = [userCall EXCEPT ![d] = call]
      PROVE  userCall'[c].pc = userCall[c].pc
  BY <1>1
<1>2. ASSUME NEW call, NEW u, NEW row, RowChanges(u, row, [userCall EXCEPT ![d] = call])
      PROVE  userCall'[c].pc = userCall[c].pc
  <2>1. userCall[c] \in CallRows /\ [userCall EXCEPT ![d] = call][c] = userCall[c]
    OBVIOUS
  <2>2. userCall'[c] = userCall[c] \/ userCall'[c] = [userCall[c] EXCEPT !.late = FALSE]
    BY SMTT(30), <1>2, <2>1 DEF RowChanges
  <2> QED
    BY ZenonT(30), <2>1, <2>2 DEF CallRows
<1>3. CASE BeginCall(d) \/ ListUsers(d) \/ FindUser(d) \/ CountAdmins(d) \/ ClearGuard(d)
  BY <1>1, <1>3 DEF BeginCall, ListUsers, FindUser, CountAdmins, ClearGuard, CallAnswered
<1>4. CASE GuardHit(d) \/ GuardRead(d) \/ GuardFill(d)
  BY <1>1, <1>4 DEF GuardHit, GuardRead, GuardFill, Judge, CallAnswered
<1>5. CASE CreateUser(d)
  BY <1>2, <1>5 DEF CreateUser
<1>6. CASE UpdateUser(d)
  BY <1>1, <1>2, <1>6 DEF UpdateUser, CallAnswered
<1>7. CASE DeleteUser(d)
  BY <1>1, <1>2, <1>7 DEF DeleteUser, CallAnswered
<1> QED
  BY <1>3, <1>4, <1>5, <1>6, <1>7

\* Only the guard lets a call pass.
LEMMA PassesByGuard ==
    ASSUME AccountsTypes, [AccountsNext]_accountsVars, NEW c \in UserCalls, Passes(c)
    PROVE  GuardHit(c) \/ GuardFill(c)
<1>0. userCall[c].pc \in {"role", "role read"} /\ userCall'[c].pc = "handler"
  BY DEF Passes
<1>1. userCall' # userCall
  BY <1>0
<1>2. ~UserTick
  <2> SUFFICES ASSUME UserTick PROVE FALSE
    OBVIOUS
  <2>1. userCall[c] \in CallRows
    BY DEF AccountsTypes
  <2>2. PICK age : userCall'[c] = [userCall[c] EXCEPT !.seen.age = age]
    BY DEF UserTick
  <2>3. userCall'[c].pc = userCall[c].pc
    BY <2>1, <2>2 DEF CallRows
  <2> QED
    BY <1>0, <2>3
<1>3. PICK d \in UserCalls :
         \/ BeginCall(d) \/ GuardHit(d) \/ GuardRead(d) \/ GuardFill(d)
         \/ ListUsers(d) \/ CreateUser(d) \/ FindUser(d) \/ CountAdmins(d)
         \/ UpdateUser(d) \/ DeleteUser(d) \/ ClearGuard(d)
  BY <1>1, <1>2 DEF AccountsNext, accountsVars
<1>4. d = c
  BY <1>0, <1>3, OthersStand
<1>5. ~GuardRead(c)
  <2> SUFFICES ASSUME GuardRead(c) PROVE FALSE
    OBVIOUS
  <2>1. userCall[c] \in CallRows
    BY DEF AccountsTypes
  <2>2. userCall'[c] = [userCall[c] EXCEPT
           !.pc = IF userCall[c].pc = "hook" THEN "hook read" ELSE "role read",
           !.seen = [row |-> user[userCall[c].by], age |-> 0]]
    BY DEF GuardRead, AccountsTypes
  <2>3. userCall'[c].pc \in {"hook read", "role read"}
    BY <2>1, <2>2 DEF CallRows
  <2> QED
    BY <1>0, <2>3
<1> QED
  BY <1>0, <1>3, <1>4, <1>5
     DEF BeginCall, ListUsers, CreateUser, FindUser, CountAdmins, UpdateUser, DeleteUser, ClearGuard

LEMMA LateIsChecked ==
    ASSUME AccountsIInv, [AccountsNext]_accountsVars, NEW c \in UserCalls
    PROVE  RevokedInTime(c)
<1> SUFFICES ASSUME Passes(c), userCall[c].late
             PROVE  user[userCall[c].by] = UserRow("admin", userCall[c].version)
  BY DEF RevokedInTime
<1> USE DEF AccountsIInv
<1> DEFINE call == userCall[c]
<1>1. /\ call \in CallRows /\ call.by \in UserIds /\ changed[call.by] = GuardTtl
      /\ call.pc \in {"role", "role read"} /\ userCall'[c].pc = "handler"
  BY DEF AccountsTypes, CallRows, CallStands, Passes
<1>2. PICK entry : Judge(c, entry) /\ entry.row = user[call.by]
  <2>1. CASE GuardHit(c)
    <3>1. guard[call.by].age < GuardTtl /\ TrueEntry(call.by, guard[call.by])
      BY <1>1, <2>1 DEF GuardHit, FreshEntry
    <3>2. guard[call.by].age \in 0 .. GuardTtl
      BY <1>1 DEF AccountsTypes, GuardEntries
    <3> DEFINE age == guard[call.by].age
    <3>3. ~(age >= GuardTtl)
      <4>1. age \in Nat /\ GuardTtl \in Nat /\ age < GuardTtl
        BY <3>1, <3>2, AccountsAssumption
      <4> HIDE DEF age
      <4> QED
        BY <4>1
    <3>4. guard[call.by].row = user[call.by]
      BY <1>1, <3>1, <3>3 DEF TrueEntry
    <3> QED
      BY <2>1, <3>4 DEF GuardHit
  <2>2. CASE GuardFill(c)
    <3>1. call.seen.row = user[call.by]
      BY <2>2 DEF GuardFill, CallStands
    <3>2. Exists(call.seen.row)
      <4> SUFFICES ASSUME ~Exists(call.seen.row) PROVE FALSE
        OBVIOUS
      <4>1. userCall'[c] = Idle
        BY <2>2 DEF GuardFill, CallAnswered, AccountsTypes
      <4> QED
        BY <1>1, <4>1, FirstRows
    <3> QED
      BY <2>2, <3>1, <3>2 DEF GuardFill, EntryOf
  <2> QED
    BY <2>1, <2>2, PassesByGuard
<1>3. user[call.by] \in Rows
  BY <1>1 DEF AccountsTypes
<1>4. call.version = entry.row.version /\ entry.row.role = "admin"
  <2> DEFINE goesOn == [call EXCEPT !.pc = "role", !.seen = NoEntry]
  <2>1. goesOn.pc = "role" /\ Idle.pc = "idle"
    BY <1>1, FirstRows DEF CallRows
  <2>2. CASE call.version # entry.row.version \/ entry.row.role # "admin"
    <3>1. userCall' = [userCall EXCEPT ![c] = Idle]
      BY <1>1, <1>2, <2>2 DEF Judge
    <3> QED
      BY <1>1, <2>1, <3>1 DEF AccountsTypes
  <2> QED
    BY <2>2
<1> QED
  BY <1>2, <1>3, <1>4 DEF Rows, UserRow

LEMMA LastAdminCounted ==
    ASSUME AccountsIInv, [AccountsNext]_accountsVars
    PROVE  LastAdminOvertaken
<1> SUFFICES ASSUME Admins # {}, Admins' = {}
             PROVE  \E c \in UserCalls :
                      /\ userCall[c].pc = "write" /\ userCall'[c].pc # "write"
                      /\ \/ userCall[c].count > Cardinality(Admins)
                         \/ userCall[c].had # user[userCall[c].target].role
  BY DEF LastAdminOvertaken
<1> USE DEF AccountsIInv
<1>1. user' # user
  BY SMTT(30) DEF Admins
<1>2. PICK c \in UserCalls : CreateUser(c) \/ UpdateUser(c) \/ DeleteUser(c)
  BY <1>1 DEF AccountsNext, accountsVars, UserTick, BeginCall, GuardHit, GuardRead, GuardFill,
              ListUsers, FindUser, CountAdmins, ClearGuard
<1> DEFINE call == userCall[c]
<1>3. call \in CallRows /\ call.target \in UserIds /\ CallStands(call)
  BY DEF AccountsTypes, CallRows
\* No account but the call's target has been one.
<1>4. ASSUME NEW u \in UserIds, NEW row, NEW calls, RowChanges(u, row, calls)
      PROVE  user[u].role = "admin" /\ row.role # "admin" /\ Cardinality(Admins) = 1
  <2>1. user' = [user EXCEPT ![u] = row]
    BY <1>4 DEF RowChanges
  <2>2. Admins \subseteq {u}
    BY <2>1 DEF Admins, AccountsTypes
  <2>3. Admins = {u}
    BY <2>2
  <2>4. row.role # "admin"
    BY <2>1 DEF Admins, AccountsTypes
  <2> QED
    BY <2>3, <2>4, FS_Singleton DEF Admins
<1>5. ~CreateUser(c)
  <2> SUFFICES ASSUME CreateUser(c) PROVE FALSE
    OBVIOUS
  <2>1. PICK u \in UserIds, role \in Roles :
           user[u] = Unborn /\ RowChanges(u, UserRow(role, 0), [userCall EXCEPT ![c] = Idle])
    BY DEF CreateUser
  <2> QED
    BY <1>4, <2>1 DEF Unborn, UserRow
<1>6. /\ call.pc = "write" /\ Exists(user[call.target])
      /\ \E row, next : /\ RowChanges(call.target, row, [userCall EXCEPT ![c] = next])
                        /\ next \in CallRows /\ next.pc # "write"
                        /\ \/ call.op = "delete"
                           \/ call.op \in {"role", "password"}
                              /\ row = UpdatedRow(call, user[call.target])
  <2>1. /\ Clearing(c) \in CallRows /\ Clearing(c).pc = "clear"
        /\ Idle \in CallRows /\ Idle.pc = "idle"
    BY <1>3, FirstRows DEF Clearing, CallRows
  <2>2. CASE UpdateUser(c)
    BY <1>1, <2>1, <2>2 DEF UpdateUser
  <2>3. CASE DeleteUser(c)
    BY <1>1, <2>1, <2>3 DEF DeleteUser
  <2> QED
    BY <1>2, <1>5, <2>2, <2>3
<1>7. PICK row, next : /\ RowChanges(call.target, row, [userCall EXCEPT ![c] = next])
                       /\ next \in CallRows /\ next.pc # "write"
                       /\ \/ call.op = "delete"
                          \/ call.op \in {"role", "password"}
                             /\ row = UpdatedRow(call, user[call.target])
  BY <1>6
<1>8. user[call.target].role = "admin" /\ row.role # "admin" /\ Cardinality(Admins) = 1
  BY <1>3, <1>4, <1>7
<1>9. userCall'[c].pc # "write"
  <2>1. userCall'[c] = next \/ userCall'[c] = [next EXCEPT !.late = FALSE]
    BY <1>7 DEF RowChanges, AccountsTypes
  <2> QED
    BY <1>7, <2>1 DEF CallRows
<1>10. call.had = "admin" => Demotes(call.op, call.role, call.had)
  BY <1>7, <1>8 DEF Demotes, UpdatedRow, UserRow
<1>11. call.had = "admin" => call.count > 1
  BY <1>3, <1>6, <1>10 DEF CallStands
<1> QED
  BY <1>6, <1>8, <1>9, <1>11

\* Rights hold, for any number of calls that administer any number of accounts at the same
\* time: a revoked session or role gets no call past the guard that began GuardTtl after the
\* change, and the last administrator goes only when calls overtake one another between
\* their count and their write (session-guard.ts:36, modules/auth/index.ts:493).
THEOREM RightsAreHeld == AccountsSpec => RightsHold
<1>1. AccountsIInv /\ [AccountsNext]_accountsVars =>
        [(\A c \in UserCalls : RevokedInTime(c)) /\ LastAdminOvertaken]_accountsVars
  BY LateIsChecked, LastAdminCounted
<1> QED
  BY <1>1, AccountsStart, AccountsStep, PTL DEF AccountsSpec, RightsHold

\* Types: the accounts

Rights == [role : Roles \cup {"unborn", "gone"}, version : 0 .. MaxVersion]
Cached == [row : [role : Roles \cup {"gone"}, version : 0 .. MaxVersion], age : 0 .. GuardTtl]

\* Who calls has been created.
Born(call) ==
    call.pc \in {"hook", "hook read", "role", "role read"} => user[call.by].role # "unborn"
AccountsBounds == AccountsTypeOK /\ \A c \in UserCalls : Born(userCall[c])

LEMMA FirstAccounts ==
    /\ SomeUser \in UserIds /\ NoEntry \in Cached /\ Gone \in Rights /\ Unborn \in Rights
    /\ Idle \in CallType /\ Idle.pc = "idle" /\ Gone.role = "gone"
<1>1. SomeUser \in UserIds
  BY AccountsAssumption DEF SomeUser
<1>2. 0 \in 0 .. MaxVersion /\ GuardTtl \in 0 .. GuardTtl
  BY AccountsAssumption
<1>3. Gone \in [role : Roles \cup {"gone"}, version : 0 .. MaxVersion]
      /\ Gone \in Rights /\ Unborn \in Rights /\ Gone.role = "gone"
  BY <1>2 DEF Gone, Unborn, UserRow, Rights
<1>4. NoEntry \in Cached
  BY <1>2, <1>3 DEF NoEntry, Cached
<1> QED
  BY <1>1, <1>2, <1>3, <1>4 DEF Idle, CallType, Cached, Ops, Roles

LEMMA AccountsBoundsInit == AccountsInit => AccountsBounds
<1> SUFFICES ASSUME AccountsInit PROVE AccountsBounds
  OBVIOUS
<1>1. /\ \A u \in UserIds : (IF u \in FirstAdmins THEN UserRow("admin", 0) ELSE Unborn) \in Rights
      /\ GuardTtl \in 0 .. GuardTtl
  BY AccountsAssumption, FirstAccounts DEF UserRow, Rights, Roles
<1>2. AccountsTypeOK
  BY <1>1, FirstAccounts DEF AccountsInit, AccountsTypeOK, Rights, Cached
<1> QED
  BY <1>2, FirstAccounts DEF AccountsInit, AccountsBounds, Born

\* A call moves; the guard's cache may change with it.
LEMMA CallTypeMoves ==
    ASSUME AccountsBounds, NEW c \in UserCalls, NEW call \in CallType, Born(call),
           userCall' = [userCall EXCEPT ![c] = call], UNCHANGED <<user, changed>>,
           guard' \in [UserIds -> Cached]
    PROVE  AccountsBounds'
<1>1. AccountsTypeOK'
  BY DEF AccountsBounds, AccountsTypeOK, Cached
<1>2. \A d \in UserCalls : userCall'[d] = IF d = c THEN call ELSE userCall[d]
  BY DEF AccountsBounds, AccountsTypeOK
<1>3. \A d \in UserCalls : Born(userCall[d])'
  BY <1>2 DEF AccountsBounds, Born
<1> QED
  BY <1>1, <1>3 DEF AccountsBounds

\* The guard's verdict.
LEMMA JudgeTypes ==
    ASSUME AccountsBounds, NEW c \in UserCalls, NEW entry \in Cached, Judge(c, entry),
           userCall[c].pc \in {"hook", "hook read", "role", "role read"},
           UNCHANGED <<user, changed>>
    PROVE  AccountsBounds'
<1> DEFINE kept == [userCall[c] EXCEPT !.pc = "role", !.seen = NoEntry]
           let == [Idle EXCEPT !.pc = "handler", !.by = userCall[c].by]
<1>1. userCall[c] \in CallType /\ Born(userCall[c])
  BY DEF AccountsBounds, AccountsTypeOK
<1>2. guard' \in [UserIds -> Cached]
  BY FirstAccounts DEF AccountsBounds, AccountsTypeOK, Judge, Cached
<1>3. kept \in CallType /\ let \in CallType
  <2>1. NoEntry \in [row : [role : Roles \cup {"gone"}, version : 0 .. MaxVersion],
                     age : 0 .. GuardTtl]
    BY FirstAccounts DEF Cached
  <2> QED
    BY <1>1, <2>1, FirstAccounts DEF CallType
<1>4. Born(kept) /\ Born(let) /\ Born(Idle)
  <2>1. kept.by = userCall[c].by /\ let.pc = "handler"
    BY <1>1, FirstAccounts DEF CallType
  <2> HIDE DEF kept, let
  <2> QED
    BY <1>1, <2>1, FirstAccounts DEF Born
<1>5. \/ userCall' = [userCall EXCEPT ![c] = kept]
      \/ userCall' = [userCall EXCEPT ![c] = let]
      \/ userCall' = [userCall EXCEPT ![c] = Idle]
  BY DEF Judge
<1> HIDE DEF kept, let
<1> QED
  BY <1>2, <1>3, <1>4, <1>5, CallTypeMoves, FirstAccounts

LEMMA GuardTypes ==
    ASSUME AccountsBounds, NEW c \in UserCalls, GuardHit(c) \/ GuardRead(c) \/ GuardFill(c)
    PROVE  AccountsBounds'
<1>0. /\ userCall[c] \in CallType /\ userCall[c].by \in UserIds /\ userCall[c].seen \in Cached
      /\ guard \in [UserIds -> Cached] /\ user \in [UserIds -> Rights] /\ Born(userCall[c])
  BY DEF AccountsBounds, AccountsTypeOK, CallType, Cached, Rights
<1>1. CASE GuardHit(c)
  BY <1>0, <1>1, JudgeTypes DEF GuardHit
<1>2. CASE GuardRead(c)
  <2> DEFINE entry == [row |-> user[userCall[c].by], age |-> 0]
             asked == [userCall[c] EXCEPT !.pc = IF @ = "hook" THEN "hook read" ELSE "role read",
                                          !.seen = entry]
  <2>1. user[userCall[c].by] \in [role : Roles \cup {"gone"}, version : 0 .. MaxVersion]
    BY <1>0, <1>2 DEF Born, GuardRead, Rights
  <2>2. entry \in [row : [role : Roles \cup {"gone"}, version : 0 .. MaxVersion],
                   age : 0 .. GuardTtl]
    BY <2>1, AccountsAssumption
  <2>3. userCall' = [userCall EXCEPT ![c] = asked] /\ UNCHANGED <<user, changed, guard>>
    BY <1>2 DEF GuardRead
  <2> HIDE DEF entry
  <2>4. asked \in CallType /\ asked.by = userCall[c].by
    BY <1>0, <2>2 DEF CallType
  <2> HIDE DEF asked
  <2>5. Born(asked)
    BY <1>0, <1>2, <2>4 DEF Born, GuardRead
  <2> QED
    BY <1>0, <2>3, <2>4, <2>5, CallTypeMoves
<1>3. CASE GuardFill(c)
  <2>1. CASE Exists(userCall[c].seen.row)
    BY <1>0, <1>3, <2>1, JudgeTypes DEF GuardFill, EntryOf
  <2>2. CASE ~Exists(userCall[c].seen.row)
    <3>1. guard' \in [UserIds -> Cached] /\ CallAnswered(c) /\ UNCHANGED <<user, changed>>
      BY <1>0, <1>3, <2>2, FirstAccounts DEF GuardFill
    <3> QED
      BY <3>1, FirstAccounts, CallTypeMoves DEF CallAnswered, Born
  <2> QED
    BY <2>1, <2>2
<1> QED
  BY <1>1, <1>2, <1>3

\* The handlers' reads.
LEMMA ReadTypes ==
    ASSUME AccountsIInv, AccountsBounds, NEW c \in UserCalls,
           BeginCall(c) \/ ListUsers(c) \/ FindUser(c) \/ CountAdmins(c) \/ ClearGuard(c)
    PROVE  AccountsBounds'
<1>0. /\ userCall[c] \in CallType /\ userCall[c].target \in UserIds /\ Born(Idle)
      /\ guard \in [UserIds -> Cached] /\ user \in [UserIds -> Rights]
      /\ changed \in [UserIds -> 0 .. GuardTtl]
  BY FirstAccounts DEF AccountsBounds, AccountsTypeOK, CallType, Cached, Rights, Born
<1>1. CASE BeginCall(c)
  <2>0. PICK u \in UserIds :
          /\ Exists(user[u])
          /\ \E v \in 0 .. user[u].version :
               userCall' = [userCall EXCEPT ![c] =
                 [Idle EXCEPT !.pc = "hook", !.by = u, !.version = v,
                              !.late = changed[u] = GuardTtl]]
          /\ UNCHANGED <<user, guard, changed>>
    BY <1>1 DEF BeginCall
  <2>1. PICK v \in 0 .. user[u].version :
          userCall' = [userCall EXCEPT ![c] =
            [Idle EXCEPT !.pc = "hook", !.by = u, !.version = v,
                         !.late = changed[u] = GuardTtl]]
    BY <2>0
  <2> DEFINE late == changed[u] = GuardTtl
             asked == [Idle EXCEPT !.pc = "hook", !.by = u, !.version = v, !.late = late]
  <2>2. late \in BOOLEAN
    OBVIOUS
  <2>3. v \in 0 .. MaxVersion
    <3>1. user[u].version \in 0 .. MaxVersion
      BY <1>0 DEF Rights
    <3> QED
      BY <3>1, AccountsAssumption
  <2> HIDE DEF late
  <2>4. asked \in CallType /\ asked.by = u
    BY <2>2, <2>3, FirstAccounts DEF CallType
  <2>5. userCall' = [userCall EXCEPT ![c] = asked]
    BY <2>1 DEF late
  <2> HIDE DEF asked
  <2>6. Born(asked)
    BY <2>0, <2>4 DEF Born, Exists, Roles
  <2> QED
    BY <1>0, <2>0, <2>4, <2>5, <2>6, CallTypeMoves
<1>2. CASE ListUsers(c)
  BY <1>0, <1>2, CallTypeMoves, FirstAccounts DEF ListUsers, CallAnswered
<1>3. CASE FindUser(c)
  <2>1. PICK op \in Ops, target \in UserIds, role \in Roles :
          /\ Exists(user[target])
          /\ userCall' = [userCall EXCEPT ![c] =
                  [Idle EXCEPT !.pc = IF Demotes(op, role, user[target].role)
                                      THEN "count" ELSE "write",
                               !.op = op, !.target = target, !.role = role,
                               !.had = user[target].role]]
          /\ UNCHANGED <<user, guard, changed>>
    BY <1>3 DEF FindUser
  <2> DEFINE pc == IF Demotes(op, role, user[target].role) THEN "count" ELSE "write"
             had == user[target].role
             found == [Idle EXCEPT !.pc = pc, !.op = op, !.target = target, !.role = role,
                                   !.had = had]
  <2>2. pc \in {"count", "write"} /\ had \in Roles
    BY <2>1 DEF Exists
  <2>3. userCall' = [userCall EXCEPT ![c] = found]
    BY <2>1
  <2> HIDE DEF pc, had
  <2>4. found \in CallType /\ found.pc = pc
    BY <2>2, FirstAccounts DEF CallType
  <2> HIDE DEF found
  <2> QED
    BY <1>0, <2>1, <2>2, <2>3, <2>4, CallTypeMoves DEF Born
<1>4. CASE CountAdmins(c)
  <2> DEFINE n == Cardinality(Admins)
             counted == [userCall[c] EXCEPT !.count = n, !.pc = "write"]
  <2>1. n \in Nat
    BY AdminsCounted
  <2>2. /\ \/ userCall' = [userCall EXCEPT ![c] = counted]
           \/ userCall' = [userCall EXCEPT ![c] = Idle]
        /\ UNCHANGED <<user, guard, changed>>
    BY <1>4 DEF CountAdmins, CallAnswered
  <2> HIDE DEF n
  <2>3. counted \in CallType /\ counted.pc = "write"
    BY <1>0, <2>1 DEF CallType
  <2> HIDE DEF counted
  <2> QED
    BY <1>0, <2>2, <2>3, CallTypeMoves, FirstAccounts DEF Born
<1>5. CASE ClearGuard(c)
  <2>1. guard' \in [UserIds -> Cached] /\ CallAnswered(c) /\ UNCHANGED <<user, changed>>
    BY <1>0, <1>5, FirstAccounts DEF ClearGuard
  <2> QED
    BY <1>0, <2>1, CallTypeMoves, FirstAccounts DEF CallAnswered
<1> QED
  BY <1>1, <1>2, <1>3, <1>4, <1>5

\* A row changes, and never to that of an account that has not been created.
LEMMA RowTypes ==
    ASSUME AccountsBounds, NEW c \in UserCalls, NEW call \in CallType, Born(call),
           NEW u \in UserIds, NEW row \in Rights, row.role # "unborn", UNCHANGED guard,
           RowChanges(u, row, [userCall EXCEPT ![c] = call])
    PROVE  AccountsBounds'
<1>1. /\ user' = [user EXCEPT ![u] = row] /\ user' \in [UserIds -> Rights]
      /\ \A w \in UserIds : user'[w] = IF w = u THEN row ELSE user[w]
      /\ changed' \in [UserIds -> 0 .. GuardTtl] /\ guard' \in [UserIds -> Cached]
  BY AccountsAssumption DEF RowChanges, AccountsBounds, AccountsTypeOK, Rights, Cached
<1> DEFINE before(d) == IF d = c THEN call ELSE userCall[d]
<1>2. /\ userCall' = [d \in UserCalls |->
                        IF before(d).by = u THEN [before(d) EXCEPT !.late = FALSE] ELSE before(d)]
      /\ \A d \in UserCalls : before(d) \in CallType /\ Born(before(d))
  BY DEF RowChanges, AccountsBounds, AccountsTypeOK
<1> HIDE DEF before
<1>3. \A d \in UserCalls : [before(d) EXCEPT !.late = FALSE] \in CallType
  BY <1>2 DEF CallType
<1>4. userCall' \in [UserCalls -> CallType]
  BY <1>2, <1>3
<1>5. \A d \in UserCalls : /\ userCall'[d].pc = before(d).pc /\ userCall'[d].by = before(d).by
                           /\ before(d).by \in UserIds
  BY <1>2 DEF CallType
<1>6. \A d \in UserCalls : Born(userCall[d])'
  <2> TAKE d \in UserCalls
  <2>1. user'[before(d).by] = IF before(d).by = u THEN row ELSE user[before(d).by]
    BY <1>1, <1>5
  <2>2. Born(before(d))
    BY <1>2
  <2> QED
    BY <1>5, <2>1, <2>2 DEF Born
<1> QED
  BY <1>1, <1>4, <1>6 DEF AccountsBounds, AccountsTypeOK, Rights, Cached

LEMMA WriteTypes ==
    ASSUME AccountsBounds, NEW c \in UserCalls,
           CreateUser(c) \/ UpdateUser(c) \/ DeleteUser(c)
    PROVE  AccountsBounds'
<1>0. /\ userCall[c] \in CallType /\ userCall[c].target \in UserIds /\ Born(Idle)
      /\ guard \in [UserIds -> Cached] /\ user \in [UserIds -> Rights]
      /\ userCall[c].role \in Roles
  BY FirstAccounts DEF AccountsBounds, AccountsTypeOK, CallType, Cached, Rights, Born
<1>1. Clearing(c) \in CallType /\ Clearing(c).pc = "clear"
  BY <1>0, FirstAccounts DEF Clearing, CallType
<1>2. Born(Clearing(c))
  BY <1>1 DEF Born
<1>3. ASSUME CallAnswered(c), UNCHANGED <<user, changed, guard>> PROVE AccountsBounds'
  BY <1>0, <1>3, CallTypeMoves, FirstAccounts DEF CallAnswered
<1>4. CASE CreateUser(c)
  <2>1. PICK u \in UserIds, role \in Roles :
          RowChanges(u, UserRow(role, 0), [userCall EXCEPT ![c] = Idle]) /\ UNCHANGED guard
    BY <1>4 DEF CreateUser
  <2>2. UserRow(role, 0) \in Rights /\ UserRow(role, 0).role # "unborn"
    BY AccountsAssumption DEF UserRow, Rights, Roles
  <2> QED
    BY <1>0, <2>1, <2>2, RowTypes, FirstAccounts
<1>5. CASE UpdateUser(c)
  <2> DEFINE call == userCall[c]
             row == user[call.target]
  <2>1. CASE ~Exists(row)
    BY <1>3, <1>5, <2>1 DEF UpdateUser
  <2>2. CASE Exists(row)
    <3>1. /\ row.version < MaxVersion
          /\ RowChanges(call.target, UpdatedRow(call, row),
               [userCall EXCEPT ![c] = IF RevokesSessions(call) THEN Clearing(c) ELSE Idle])
          /\ UNCHANGED guard
      BY <1>5, <2>2 DEF UpdateUser
    <3>2. row.version + 1 \in 0 .. MaxVersion /\ row.version \in 0 .. MaxVersion
      <4>1. row.version \in 0 .. MaxVersion
        BY <1>0 DEF Rights
      <4> QED
        BY <3>1, <4>1, AccountsAssumption
    <3>3. UpdatedRow(call, row) \in Rights /\ UpdatedRow(call, row).role # "unborn"
      BY <1>0, <2>2, <3>2 DEF UpdatedRow, UserRow, Rights, Exists, Roles
    <3> QED
      BY <1>0, <1>1, <1>2, <3>1, <3>3, RowTypes, FirstAccounts
  <2> QED
    BY <2>1, <2>2
<1>6. CASE DeleteUser(c)
  <2>1. CASE ~Exists(user[userCall[c].target])
    BY <1>3, <1>6, <2>1 DEF DeleteUser
  <2>2. CASE Exists(user[userCall[c].target])
    <3>1. RowChanges(userCall[c].target, Gone, [userCall EXCEPT ![c] = Clearing(c)])
          /\ UNCHANGED guard
      BY <1>6, <2>2 DEF DeleteUser
    <3> QED
      BY <1>0, <1>1, <1>2, <3>1, RowTypes, FirstAccounts
  <2> QED
    BY <2>1, <2>2
<1> QED
  BY <1>4, <1>5, <1>6

LEMMA UserTickTypes ==
    ASSUME AccountsBounds, UserTick
    PROVE  AccountsBounds'
<1>0. /\ guard \in [UserIds -> Cached] /\ changed \in [UserIds -> 0 .. GuardTtl]
      /\ userCall \in [UserCalls -> CallType]
  BY DEF AccountsBounds, AccountsTypeOK, Cached
<1>1. \A entry \in Cached : OlderEntry(entry) \in Cached
  <2> SUFFICES ASSUME NEW entry \in Cached PROVE OlderEntry(entry) \in Cached
    OBVIOUS
  <2>1. entry.age \in 0 .. GuardTtl
    BY DEF Cached
  <2>2. ~(entry.age + 1 >= GuardTtl) => entry.age + 1 \in 0 .. GuardTtl
    BY <2>1, AccountsAssumption
  <2>3. ~(entry.age + 1 >= GuardTtl) => [entry EXCEPT !.age = entry.age + 1] \in Cached
    BY <2>2 DEF Cached
  <2> QED
    BY <2>3, FirstAccounts DEF OlderEntry
<1>2. guard' \in [UserIds -> Cached]
  BY <1>0, <1>1 DEF UserTick
<1> DEFINE age(d) == IF userCall[d].seen.age < GuardTtl THEN userCall[d].seen.age + 1
                     ELSE userCall[d].seen.age
<1>3. \A d \in UserCalls : age(d) \in 0 .. GuardTtl
  <2> SUFFICES ASSUME NEW d \in UserCalls PROVE age(d) \in 0 .. GuardTtl
    OBVIOUS
  <2>1. userCall[d].seen.age \in 0 .. GuardTtl
    BY <1>0 DEF CallType
  <2> QED
    BY <2>1, AccountsAssumption
<1>4. userCall' = [d \in UserCalls |-> [userCall[d] EXCEPT !.seen.age = age(d)]]
  BY DEF UserTick
<1> HIDE DEF age
<1>5. ASSUME NEW d \in UserCalls
      PROVE  /\ userCall'[d] \in CallType
             /\ userCall'[d].pc = userCall[d].pc /\ userCall'[d].by = userCall[d].by
  <2>1. userCall[d] \in CallType /\ age(d) \in 0 .. GuardTtl
    BY <1>0, <1>3
  <2>2. userCall'[d] = [userCall[d] EXCEPT !.seen.age = age(d)]
    BY <1>4
  <2>3. [userCall[d].seen EXCEPT !.age = age(d)] \in
          [row : [role : Roles \cup {"gone"}, version : 0 .. MaxVersion], age : 0 .. GuardTtl]
    BY <2>1 DEF CallType
  <2>4. userCall'[d] = [userCall[d] EXCEPT !.seen = [userCall[d].seen EXCEPT !.age = age(d)]]
    BY <2>1, <2>2 DEF CallType
  <2> QED
    BY <2>1, <2>3, <2>4 DEF CallType
<1>6. userCall' \in [UserCalls -> CallType]
  BY <1>4, <1>5
<1>7. changed' \in [UserIds -> 0 .. GuardTtl]
  <2>1. \A u \in UserIds :
          (IF changed[u] < GuardTtl THEN changed[u] + 1 ELSE GuardTtl) \in 0 .. GuardTtl
    BY <1>0, AccountsAssumption
  <2> QED
    BY <2>1 DEF UserTick
<1>8. user' = user
  BY DEF UserTick
<1>9. \A d \in UserCalls : Born(userCall[d])'
  BY <1>5, <1>8 DEF AccountsBounds, Born
<1> QED
  BY <1>2, <1>6, <1>7, <1>8, <1>9 DEF AccountsBounds, AccountsTypeOK, Cached

LEMMA AccountsBoundsStep ==
    AccountsIInv /\ AccountsBounds /\ [AccountsNext]_accountsVars => AccountsBounds'
<1> SUFFICES ASSUME AccountsIInv, AccountsBounds, [AccountsNext]_accountsVars
             PROVE  AccountsBounds'
  OBVIOUS
<1>1. CASE UNCHANGED accountsVars
  BY <1>1 DEF accountsVars, AccountsBounds, AccountsTypeOK, Born
<1>2. CASE UserTick
  BY <1>2, UserTickTypes
<1>3. ASSUME NEW c \in UserCalls, GuardHit(c) \/ GuardRead(c) \/ GuardFill(c)
      PROVE  AccountsBounds'
  BY <1>3, GuardTypes
<1>4. ASSUME NEW c \in UserCalls,
             BeginCall(c) \/ ListUsers(c) \/ FindUser(c) \/ CountAdmins(c) \/ ClearGuard(c)
      PROVE  AccountsBounds'
  BY <1>4, ReadTypes
<1>5. ASSUME NEW c \in UserCalls, CreateUser(c) \/ UpdateUser(c) \/ DeleteUser(c)
      PROVE  AccountsBounds'
  BY <1>5, WriteTypes
<1> QED
  BY <1>1, <1>2, <1>3, <1>4, <1>5 DEF AccountsNext

\* Rows, cache and calls have their types for any number of accounts and calls: who calls has
\* been created, so that the guard never caches the row of nobody (auth/session-guard.ts:6).
THEOREM AccountsTypesStay == AccountsSpec => []AccountsTypeOK
<1>1. AccountsBounds => AccountsTypeOK
  BY DEF AccountsBounds
<1> QED
  BY <1>1, AccountsStart, AccountsStep, AccountsBoundsInit, AccountsBoundsStep, PTL
     DEF AccountsSpec

--------------------------------------------------------------------------------
\* Locked logins

\* A counter that has a lock left to run is locked and full.
Locks(counter) ==
    counter.left >= 0 => counter.locked = TRUE /\ counter.failures = MaxFailures

LocksInv ==
    /\ locks \in [LockoutKeys -> Counter] /\ \A k \in LockoutKeys : Locks(locks[k])
    /\ lockFile \in [LockoutKeys -> Counter] /\ \A k \in LockoutKeys : Locks(lockFile[k])
    /\ login \in [Logins -> Addresses \cup {NoAddress}]

LEMMA NoCounterLocks ==
    /\ NoCounter \in Counter /\ Locks(NoCounter)
    /\ FirstFailure \in Counter /\ Locks(FirstFailure)
<1>1. /\ 0 \in 0 .. MaxFailures /\ 1 \in 0 .. MaxFailures /\ -1 \in -1 .. LockTime
      /\ 0 \in 0 .. LockTime + 1 /\ ~(-1 >= 0)
  BY LockoutAssumption
<1>2. NoCounter \in Counter /\ NoCounter.left = -1
  BY <1>1 DEF NoCounter, Counter
<1>3. FirstFailure \in Counter /\ FirstFailure.left = -1
  BY <1>1 DEF FirstFailure, NoCounter, Counter
<1> QED
  BY <1>1, <1>2, <1>3 DEF Locks

\* One failure more, as far as they are counted.
LEMMA MoreFailures ==
    ASSUME NEW n \in 0 .. MaxFailures
    PROVE  /\ Min({n + 1, MaxFailures}) \in 0 .. MaxFailures
           /\ n = MaxFailures => Min({n + 1, MaxFailures}) = MaxFailures
<1> DEFINE S == {n + 1, MaxFailures}
           Least(x) == x \in S /\ \A y \in S : x <= y
<1>1. n + 1 \in Nat /\ MaxFailures \in Nat
  BY LockoutAssumption
<1>2. \E x \in S : Least(x)
  <2>1. CASE n + 1 <= MaxFailures
    <3>1. Least(n + 1)
      BY <1>1, <2>1
    <3> QED
      BY <3>1
  <2>2. CASE ~(n + 1 <= MaxFailures)
    <3>1. Least(MaxFailures)
      BY <1>1, <2>2
    <3> QED
      BY <3>1
  <2> QED
    BY <2>1, <2>2
<1>3. Min(S) \in S /\ \A y \in S : Min(S) <= y
  BY <1>2 DEF Min
<1> QED
  BY <1>1, <1>3

LEMMA AfterFailureLocks ==
    ASSUME NEW counter \in Counter, Locks(counter)
    PROVE  /\ AfterFailure(counter) \in Counter /\ Locks(AfterFailure(counter))
           /\ ~WindowExpired(counter) /\ counter.left >= 0 => AfterFailure(counter).locked
<1> DEFINE failures == Min({counter.failures + 1, MaxFailures})
           locked == failures >= MaxFailures
           more == [counter EXCEPT !.failures = failures, !.locked = locked,
                                   !.left = IF locked THEN LockTime ELSE -1]
<1>1. counter.failures \in 0 .. MaxFailures
  BY DEF Counter
<1>2. failures \in 0 .. MaxFailures /\ (counter.failures = MaxFailures => failures = MaxFailures)
  BY <1>1, MoreFailures
<1> HIDE DEF failures
<1>3. locked \in BOOLEAN /\ (locked => failures = MaxFailures)
      /\ (failures = MaxFailures => locked)
  BY <1>2, LockoutAssumption
<1> HIDE DEF locked
<1>4. /\ more \in Counter /\ more.failures = failures /\ more.locked = locked
      /\ more.left = IF locked THEN LockTime ELSE -1
  <2>1. (IF locked THEN LockTime ELSE -1) \in -1 .. LockTime
    BY <1>3, LockoutAssumption
  <2> QED
    BY <1>2, <1>3, <2>1 DEF Counter
<1>5. AfterFailure(counter) = IF WindowExpired(counter) THEN FirstFailure ELSE more
  BY DEF AfterFailure, failures, locked
<1> HIDE DEF more
<1> QED
  BY <1>2, <1>3, <1>4, <1>5, NoCounterLocks DEF Locks

LEMMA OlderCounterLocks ==
    ASSUME NEW counter \in Counter, Locks(counter)
    PROVE  /\ OlderCounter(counter) \in Counter /\ Locks(OlderCounter(counter))
           /\ counter.left > 1 => OlderCounter(counter).locked
<1> DEFINE left == IF counter.left < 0 THEN counter.left ELSE counter.left - 1
           age == IF counter.age > LockTime THEN counter.age ELSE counter.age + 1
           older == [counter EXCEPT !.left = left, !.age = age]
<1>1. counter.left \in -1 .. LockTime /\ counter.age \in 0 .. LockTime + 1
  BY DEF Counter
<1>2. /\ left \in -1 .. LockTime /\ age \in 0 .. LockTime + 1
      /\ left >= 0 => counter.left >= 0
      /\ counter.left > 1 => left > 0 /\ counter.left >= 0
  BY <1>1, LockoutAssumption
<1> HIDE DEF left, age
<1>3. /\ older \in Counter /\ older.left = left /\ older.locked = counter.locked
      /\ older.failures = counter.failures
  BY <1>2 DEF Counter
<1>4. OlderCounter(counter) = IF WindowExpired(older) /\ Allowed(older) THEN NoCounter ELSE older
  BY DEF OlderCounter, left, age
<1> HIDE DEF older
<1>5. counter.left > 1 => ~Allowed(older)
  BY <1>2, <1>3 DEF Allowed, Locks
<1> QED
  BY <1>2, <1>3, <1>4, <1>5, NoCounterLocks DEF Locks

LEMMA LockoutStart == LockoutInit => LocksInv
BY NoCounterLocks DEF LockoutInit, NothingFailed, LocksInv

\* A step leaves counters that stand, and a lock that has time to run only as LocksLast says.
LockGoesOn ==
    \A k \in LockoutKeys :
         locks[k].left > 1 /\ ~locks'[k].locked
           => \/ locks'[k] = NoCounter /\ \E l \in Logins : LockEnds(l, k)
              \/ locks[k].age > LockTime /\ \E l \in Logins : LockEnds(l, k)
              \/ locks # lockFile

LEMMA LockoutStep == LocksInv /\ [LockoutNext]_lockoutVars => LocksInv' /\ LockGoesOn
<1> SUFFICES ASSUME LocksInv, [LockoutNext]_lockoutVars PROVE LocksInv' /\ LockGoesOn
  OBVIOUS
<1> USE DEF LocksInv
<1>0. \A k \in LockoutKeys : /\ locks[k].left \in -1 .. LockTime /\ locks[k] \in Counter
                             /\ locks[k].left > 1 => locks[k].left >= 0 /\ locks[k].locked = TRUE
  BY LockoutAssumption DEF Counter, Locks
<1>1. ASSUME UNCHANGED <<locks, lockFile>>, login' \in [Logins -> Addresses \cup {NoAddress}]
      PROVE  LocksInv' /\ LockGoesOn
  BY <1>0, <1>1 DEF LockGoesOn, Locks
<1>2. ASSUME NEW l \in Logins, NEW a \in Addresses, LetIn(l, a) PROVE LocksInv' /\ LockGoesOn
  BY <1>1, <1>2 DEF LetIn
<1>3. ASSUME NEW l \in Logins, LoginGivesUp(l) PROVE LocksInv' /\ LockGoesOn
  BY <1>1, <1>3 DEF LoginGivesUp
<1>4. CASE UNCHANGED lockoutVars
  BY <1>1, <1>4 DEF lockoutVars
\* An answer touches the counters of the call's address and of the account.
<1>5. ASSUME NEW l \in Logins, LoginFails(l) \/ LoginSucceeds(l)
      PROVE  /\ login' \in [Logins -> Addresses \cup {NoAddress}]
             /\ \A k \in {login[l], Account} : LockEnds(l, k)
             /\ lockFile' \in {locks', lockFile}
  BY <1>5 DEF LoginFails, LoginSucceeds, LockEnds, Persists
<1>6. ASSUME NEW l \in Logins, LoginFails(l) PROVE LocksInv' /\ LockGoesOn
  <2>1. locks' = [k \in LockoutKeys |-> IF k \in {login[l], Account} THEN AfterFailure(locks[k])
                                        ELSE locks[k]]
    BY <1>6 DEF LoginFails
  <2>2. /\ locks' \in [LockoutKeys -> Counter]
        /\ \A k \in LockoutKeys : Locks(locks'[k])
    BY <2>1, AfterFailureLocks
  <2>3. LocksInv'
    BY <1>5, <1>6, <2>2 DEF Locks
  <2>4. LockGoesOn
    <3> SUFFICES ASSUME NEW k \in LockoutKeys, locks[k].left > 1, ~locks'[k].locked
                 PROVE  locks[k].age > LockTime /\ LockEnds(l, k)
      BY DEF LockGoesOn
    <3>1. k \in {login[l], Account} /\ locks'[k] = AfterFailure(locks[k])
      BY <1>0, <2>1
    <3>2. WindowExpired(locks[k])
      BY <1>0, <3>1, AfterFailureLocks
    <3>3. locks[k].failures = MaxFailures /\ ~(locks[k].left < 0)
      BY <1>0, LockoutAssumption DEF Locks
    <3> QED
      BY <1>5, <1>6, <3>1, <3>2, <3>3, LockoutAssumption DEF WindowExpired
  <2> QED
    BY <2>3, <2>4
<1>7. ASSUME NEW l \in Logins, LoginSucceeds(l) PROVE LocksInv' /\ LockGoesOn
  <2>1. locks' = [k \in LockoutKeys |-> IF k \in {login[l], Account} THEN NoCounter
                                        ELSE locks[k]]
    BY <1>7 DEF LoginSucceeds
  <2>2. /\ locks' \in [LockoutKeys -> Counter]
        /\ \A k \in LockoutKeys : Locks(locks'[k])
    BY <2>1, NoCounterLocks
  <2>3. LocksInv'
    BY <1>5, <1>7, <2>2 DEF Locks
  <2>4. LockGoesOn
    BY <1>0, <1>5, <1>7, <2>1 DEF LockGoesOn
  <2> QED
    BY <2>3, <2>4
<1>8. CASE RestartServer
  <2>1. locks' = lockFile /\ lockFile' = lockFile
        /\ login' \in [Logins -> Addresses \cup {NoAddress}]
    BY <1>8 DEF RestartServer
  <2>2. LockGoesOn
    BY <1>0, <2>1 DEF LockGoesOn
  <2> QED
    BY <2>1, <2>2 DEF Locks
<1>9. CASE LookAgain
  BY <1>1, <1>9 DEF LookAgain
<1>10. CASE LockoutTick
  <2>1. /\ locks' = [k \in LockoutKeys |-> OlderCounter(locks[k])]
        /\ lockFile' = [k \in LockoutKeys |-> OlderCounter(lockFile[k])] /\ login' = login
    BY <1>10 DEF LockoutTick
  <2>2. LockGoesOn
    BY <1>0, <2>1, OlderCounterLocks DEF LockGoesOn
  <2>3. /\ locks' \in [LockoutKeys -> Counter] /\ lockFile' \in [LockoutKeys -> Counter]
        /\ \A k \in LockoutKeys : Locks(locks'[k]) /\ Locks(lockFile'[k])
    BY <2>1, OlderCounterLocks
  <2> QED
    BY <2>1, <2>2, <2>3 DEF Locks
<1> QED
  BY <1>2, <1>3, <1>4, <1>6, <1>7, <1>8, <1>9, <1>10 DEF LockoutNext

LEMMA LocksLastLong == LockoutSpec => LocksLast
<1>1. LocksInv /\ [LockoutNext]_lockoutVars => LocksInv' /\ [LockGoesOn]_lockoutVars
  BY LockoutStep
<1> QED
  BY <1>1, LockoutStart, PTL DEF LockoutSpec, LocksLast, LockGoesOn

PeriodTypes == period \in [age : 0 .. LockTime, failures : Nat]

LEMMA PeriodTypesStep == PeriodTypes /\ [LockoutNext]_lockoutVars => PeriodTypes'
<1> SUFFICES ASSUME PeriodTypes, [LockoutNext]_lockoutVars PROVE PeriodTypes'
  OBVIOUS
<1>1. /\ PeriodBegins \in [age : 0 .. LockTime, failures : Nat]
      /\ period.failures + 1 \in Nat
      /\ period.age < LockTime => period.age + 1 \in 0 .. LockTime
  BY LockoutAssumption DEF PeriodTypes, PeriodBegins
<1>2. \/ period' = period \/ period' = PeriodBegins
      \/ period' = [period EXCEPT !.failures = @ + 1]
      \/ period.age < LockTime /\ period' = [period EXCEPT !.age = @ + 1]
  BY DEF LockoutNext, LetIn, LoginFails, LoginSucceeds, LoginGivesUp, RestartServer, LockoutTick,
         LookAgain, lockoutVars
<1> QED
  BY <1>1, <1>2 DEF PeriodTypes

\* Counters and calls have their types for any number of addresses and logins under way, and
\* failures are counted in every period (recordLoginFailure, login-lockout.ts:76).
THEOREM LockoutTypesStay == LockoutSpec => []LockoutTypeOK
<1>1. LockoutInit => PeriodTypes
  BY LockoutAssumption DEF LockoutInit, PeriodBegins, PeriodTypes
<1>2. LocksInv /\ PeriodTypes => LockoutTypeOK
  BY DEF LocksInv, LockoutTypeOK, PeriodTypes
<1>3. LocksInv /\ [LockoutNext]_lockoutVars => LocksInv'
  BY LockoutStep
<1> QED
  BY <1>1, <1>2, <1>3, PeriodTypesStep, LockoutStart, PTL DEF LockoutSpec

\* What a failure makes of a counter: it counts up to MaxFailures, and locks with the last.
Full(counter) == counter.locked = (counter.failures = MaxFailures)

LEMMA OneFailureMore ==
    ASSUME NEW n \in 0 .. MaxFailures
    PROVE  Min({n + 1, MaxFailures}) = IF n < MaxFailures THEN n + 1 ELSE MaxFailures
<1> DEFINE S == {n + 1, MaxFailures}
           least == IF n < MaxFailures THEN n + 1 ELSE MaxFailures
<1>1. n + 1 \in Nat /\ MaxFailures \in Nat
  BY LockoutAssumption
<1>2. least \in S /\ \A y \in S : least <= y
  BY <1>1
<1>3. \A x \in S : (\A y \in S : x <= y) => x = least
  BY <1>1, <1>2
<1>4. Min(S) \in S /\ \A y \in S : Min(S) <= y
  BY <1>2 DEF Min
<1> QED
  BY <1>3, <1>4

LEMMA FailureCounts ==
    ASSUME NEW counter \in Counter, Full(counter)
    PROVE  LET new == AfterFailure(counter)
               more == IF counter.failures < MaxFailures THEN counter.failures + 1
                       ELSE MaxFailures
           IN  /\ Full(new)
               /\ WindowExpired(counter) => new = FirstFailure
               /\ ~WindowExpired(counter) =>
                    /\ new.failures = more /\ new.age = counter.age
                    /\ new.left = IF more = MaxFailures THEN LockTime ELSE -1
<1> DEFINE more == IF counter.failures < MaxFailures THEN counter.failures + 1
                   ELSE MaxFailures
           locked == more >= MaxFailures
           new == [counter EXCEPT !.failures = more, !.locked = locked,
                                  !.left = IF locked THEN LockTime ELSE -1]
<1>1. counter.failures \in 0 .. MaxFailures
  BY DEF Counter
<1>2. AfterFailure(counter) = IF WindowExpired(counter) THEN FirstFailure ELSE new
  BY <1>1, OneFailureMore DEF AfterFailure
<1>3. more \in Nat /\ (locked <=> more = MaxFailures)
  BY <1>1, LockoutAssumption
<1>4. /\ new.failures = more /\ new.age = counter.age /\ new.locked = locked
      /\ new.left = IF locked THEN LockTime ELSE -1
  BY DEF Counter
<1>5. Full(FirstFailure)
  BY LockoutAssumption DEF Full, FirstFailure, NoCounter
<1> HIDE DEF new, locked
<1> QED
  BY <1>2, <1>3, <1>4, <1>5 DEF Full, locked

\* How many wrong answers the first of two windows can leave behind it.
OfFirst == MaxFailures + Cardinality(Logins) - 3

\* n wrong answers of a period that is w old fit to the account's counter, when i calls are
\* under way: those of the window that began before the period, one of which it counts from
\* before; those of one that began in it; and, once it has locked, those of the calls let in.
Fits(counter, n, w, i) ==
    /\ counter.failures = 0 => n <= OfFirst
    /\ counter.failures > 0 /\ ~counter.locked =>
         \/ n <= counter.failures - 1
         \/ counter.age <= w /\ n <= OfFirst + counter.failures
    /\ counter.locked /\ n # 0 =>
         /\ counter.left >= LockTime - w
         /\ n + i <= OfFirst + 1 \/ (counter.age <= w /\ n + i <= FailureBound)

LEMMA SomeLogins == /\ Cardinality(Logins) \in Nat \ {0} /\ OfFirst \in Nat
                    /\ FailureBound = OfFirst + MaxFailures + Cardinality(Logins) - 1
<1>1. Cardinality(Logins) \in Nat /\ Cardinality(Logins) # 0
  BY LockoutAssumption, FS_CardinalityType, FS_EmptySet
<1> QED
  BY <1>1, LockoutAssumption DEF OfFirst, FailureBound

LEMMA FitsIsBounded ==
    ASSUME NEW counter \in Counter, Full(counter), NEW n \in Nat, NEW w \in Nat, NEW i \in Nat,
           Fits(counter, n, w, i)
    PROVE  n <= FailureBound
BY SomeLogins, LockoutAssumption DEF Fits, Full, Counter

LEMMA FailureFits ==
    ASSUME NEW counter \in Counter, Full(counter), Locks(counter), NEW n \in Nat,
           NEW w \in Nat, w < LockTime, NEW i \in 1 .. Cardinality(Logins),
           Fits(counter, n, w, i)
    PROVE  Fits(AfterFailure(counter), n + 1, w, i - 1)
<1>1. /\ counter.failures \in 0 .. MaxFailures /\ counter.locked \in BOOLEAN
      /\ counter.left \in -1 .. LockTime /\ counter.age \in 0 .. LockTime + 1
  BY DEF Counter
<1>0. counter.locked <=> counter.failures = MaxFailures
  BY <1>1 DEF Full
<1>2. CASE WindowExpired(counter)
  <2>1. /\ AfterFailure(counter).failures = 1 /\ ~AfterFailure(counter).locked
        /\ AfterFailure(counter).age = 0
    BY <1>2, FailureCounts DEF FirstFailure, NoCounter
  <2>2. n <= OfFirst
    <3>1. CASE counter.failures = 0
      BY <3>1 DEF Fits
    <3>2. CASE counter.failures # 0 /\ ~counter.locked
      BY <1>0, <1>1, <1>2, <3>2, SomeLogins, LockoutAssumption
         DEF Fits, WindowExpired, OfFirst
    <3>3. CASE counter.failures # 0 /\ counter.locked
      BY <1>1, <1>2, <3>3, SomeLogins, LockoutAssumption DEF Fits, WindowExpired
    <3> QED
      BY <3>1, <3>2, <3>3
  <2> QED
    BY <2>1, <2>2, SomeLogins DEF Fits
<1>3. CASE ~WindowExpired(counter)
  <2> DEFINE more == IF counter.failures < MaxFailures THEN counter.failures + 1
                     ELSE MaxFailures
  <2>1. /\ AfterFailure(counter).failures = more /\ AfterFailure(counter).age = counter.age
        /\ AfterFailure(counter).left = IF more = MaxFailures THEN LockTime ELSE -1
    BY <1>3, FailureCounts
  <2>7. AfterFailure(counter).locked <=> more = MaxFailures
    BY <2>1, FailureCounts DEF Full
  <2> HIDE DEF more
  <2>6. more = IF counter.failures < MaxFailures THEN counter.failures + 1 ELSE MaxFailures
    BY DEF more
  <2>2. counter.failures > 0
    BY <1>1, <1>3 DEF WindowExpired
  <2>3. CASE counter.locked
    <3>1. /\ AfterFailure(counter).locked /\ AfterFailure(counter).left = LockTime
          /\ AfterFailure(counter).failures = MaxFailures
      BY <1>0, <1>1, <2>1, <2>3, <2>6, <2>7, LockoutAssumption
    <3>2. CASE n = 0
      BY <3>1, <3>2, SomeLogins, LockoutAssumption DEF Fits, OfFirst
    <3>3. CASE n # 0
      BY <2>1, <2>3, <3>1, <3>3, SomeLogins, LockoutAssumption DEF Fits
    <3> QED
      BY <3>2, <3>3
  <2>4. CASE ~counter.locked /\ more = MaxFailures
    <3>1. /\ AfterFailure(counter).locked /\ AfterFailure(counter).left = LockTime
          /\ AfterFailure(counter).failures = MaxFailures /\ counter.failures = MaxFailures - 1
      BY <1>0, <1>1, <2>1, <2>4, <2>6, <2>7, LockoutAssumption
    <3>2. \/ n <= MaxFailures - 2
          \/ counter.age <= w /\ n <= OfFirst + MaxFailures - 1
      BY <2>2, <2>4, <3>1, LockoutAssumption DEF Fits
    <3>3. \/ n + 1 + (i - 1) <= OfFirst + 1
          \/ counter.age <= w /\ n + 1 + (i - 1) <= FailureBound
      BY <3>2, SomeLogins, LockoutAssumption DEF OfFirst
    <3> QED
      BY <2>1, <3>1, <3>3, LockoutAssumption DEF Fits
  <2>5. CASE ~counter.locked /\ more # MaxFailures
    BY <1>0, <1>1, <2>1, <2>2, <2>5, <2>6, <2>7, SomeLogins, LockoutAssumption DEF Fits
  <2> QED
    BY <2>3, <2>4, <2>5
<1> QED
  BY <1>2, <1>3

LEMMA OlderFits ==
    ASSUME NEW counter \in Counter, Full(counter), Locks(counter), NEW n \in Nat,
           NEW w \in Nat, w + 1 < LockTime, NEW i \in Nat, Fits(counter, n, w, i)
    PROVE  Fits(OlderCounter(counter), n, w + 1, i)
<1> DEFINE left == IF counter.left < 0 THEN counter.left ELSE counter.left - 1
           age == IF counter.age > LockTime THEN counter.age ELSE counter.age + 1
           older == [counter EXCEPT !.left = left, !.age = age]
<1>1. /\ counter.failures \in 0 .. MaxFailures /\ counter.locked \in BOOLEAN
      /\ counter.left \in -1 .. LockTime /\ counter.age \in 0 .. LockTime + 1
  BY DEF Counter
<1>2. /\ older.failures = counter.failures /\ older.locked = counter.locked
      /\ older.left = left /\ older.age = age
  BY DEF Counter
<1>3. OlderCounter(counter) = IF WindowExpired(older) /\ Allowed(older) THEN NoCounter ELSE older
  BY DEF OlderCounter
<1> HIDE DEF older
<1>4. n <= OfFirst => Fits(NoCounter, n, w + 1, i)
  BY DEF Fits, NoCounter
<1>9. counter.locked <=> counter.failures = MaxFailures
  BY <1>1 DEF Full
<1>5. CASE counter.failures = 0
  <2>1. OlderCounter(counter) = NoCounter
    BY <1>1, <1>2, <1>3, <1>5, LockoutAssumption DEF WindowExpired, Allowed, Full
  <2> QED
    BY <1>4, <1>5, <2>1 DEF Fits
<1>6. CASE counter.failures # 0 /\ ~counter.locked
  <2>1. CASE n <= counter.failures - 1
    <3>1. Fits(older, n, w + 1, i)
      BY <1>1, <1>2, <1>6, <2>1, LockoutAssumption DEF Fits
    <3>2. n <= OfFirst
      BY <1>1, <1>6, <1>9, <2>1, SomeLogins, LockoutAssumption DEF OfFirst
    <3> QED
      BY <1>3, <1>4, <3>1, <3>2
  <2>2. CASE counter.age <= w /\ n <= OfFirst + counter.failures
    <3>1. age = counter.age + 1 /\ ~WindowExpired(older)
      BY <1>1, <1>2, <1>6, <2>2, LockoutAssumption DEF WindowExpired
    <3>2. Fits(older, n, w + 1, i)
      BY <1>1, <1>2, <1>6, <2>2, <3>1, LockoutAssumption DEF Fits
    <3> QED
      BY <1>3, <3>1, <3>2
  <2> QED
    BY <1>1, <1>6, <2>1, <2>2 DEF Fits
<1>7. CASE counter.failures # 0 /\ counter.locked /\ n = 0
  <2>1. Fits(older, n, w + 1, i)
    BY <1>2, <1>7 DEF Fits
  <2> QED
    BY <1>3, <1>4, <1>7, <2>1, SomeLogins
<1>8. CASE counter.failures # 0 /\ counter.locked /\ n # 0
  <2>1. /\ counter.left >= LockTime - w
        /\ n + i <= OfFirst + 1 \/ (counter.age <= w /\ n + i <= FailureBound)
    BY <1>8 DEF Fits
  <2>2. left >= LockTime - (w + 1) /\ left > 0 /\ (counter.age <= w => age <= w + 1)
    BY <1>1, <2>1, LockoutAssumption
  <2>3. ~Allowed(older)
    BY <1>2, <1>8, <2>2 DEF Allowed
  <2>4. Fits(older, n, w + 1, i)
    BY <1>2, <1>8, <2>1, <2>2 DEF Fits
  <2> QED
    BY <1>3, <2>3, <2>4
<1> QED
  BY <1>5, <1>6, <1>7, <1>8

LEMMA FitsOtherwise ==
    ASSUME NEW counter \in Counter, NEW w \in Nat, w < LockTime, NEW i \in Nat
    PROVE  /\ Fits(counter, 0, w, i)
           /\ \A n \in Nat, j \in Nat :
                Fits(counter, n, w, i) /\ (j <= i \/ Allowed(counter)) => Fits(counter, n, w, j)
<1>1. /\ counter.failures \in 0 .. MaxFailures /\ counter.left \in -1 .. LockTime
  BY DEF Counter
<1>2. Fits(counter, 0, w, i)
  BY <1>1, SomeLogins DEF Fits
<1>3. ASSUME NEW n \in Nat, NEW j \in Nat, Fits(counter, n, w, i), j <= i
      PROVE  Fits(counter, n, w, j)
  BY <1>3, SomeLogins, LockoutAssumption DEF Fits
<1>4. ASSUME NEW n \in Nat, NEW j \in Nat, Fits(counter, n, w, i), Allowed(counter)
      PROVE  Fits(counter, n, w, j)
  BY <1>1, <1>4, LockoutAssumption DEF Fits, Allowed
<1> QED
  BY <1>2, <1>3, <1>4

LEMMA OlderFull ==
    ASSUME NEW counter \in Counter, Full(counter)
    PROVE  Full(OlderCounter(counter))
<1>1. Full(NoCounter)
  BY LockoutAssumption DEF Full, NoCounter
<1> DEFINE older == [counter EXCEPT !.left = IF @ < 0 THEN @ ELSE @ - 1,
                                    !.age = IF @ > LockTime THEN @ ELSE @ + 1]
<1>2. older.failures = counter.failures /\ older.locked = counter.locked
  BY DEF Counter
<1>3. OlderCounter(counter) \in {older, NoCounter}
  BY DEF OlderCounter
<1> HIDE DEF older
<1> QED
  BY <1>1, <1>2, <1>3 DEF Full

\* The calls let in, which the lock cannot call back.
UnderWay == {l \in Logins : login[l] # NoAddress}

BoundInv ==
    /\ PeriodTypes
    /\ \A k \in LockoutKeys : Full(locks[k]) /\ Full(lockFile[k])
    /\ period.failures <= FailureBound
    /\ period.age < LockTime =>
         Fits(locks[Account], period.failures, period.age, Cardinality(UnderWay))

LEMMA UnderWayCounts == Cardinality(UnderWay) \in 0 .. Cardinality(Logins)
<1>1. UnderWay \subseteq Logins
  BY DEF UnderWay
<1> QED
  BY <1>1, LockoutAssumption, FS_Subset, FS_CardinalityType

LEMMA BoundStarts == LockoutInit => BoundInv
<1> SUFFICES ASSUME LockoutInit PROVE BoundInv
  OBVIOUS
<1>1. period = PeriodBegins /\ PeriodTypes
  BY LockoutAssumption DEF LockoutInit, PeriodBegins, PeriodTypes
<1>2. Full(NoCounter)
  BY LockoutAssumption DEF Full, NoCounter
<1>3. \A k \in LockoutKeys : locks[k] = NoCounter /\ lockFile[k] = NoCounter
  BY DEF LockoutInit, NothingFailed
<1>4. locks[Account] = NoCounter
  BY <1>3 DEF LockoutKeys
<1>5. Fits(NoCounter, 0, 0, Cardinality(UnderWay))
  BY FitsOtherwise, NoCounterLocks, UnderWayCounts, LockoutAssumption
<1>6. 0 <= FailureBound
  BY SomeLogins, LockoutAssumption
<1> QED
  BY <1>1, <1>2, <1>3, <1>4, <1>5, <1>6 DEF BoundInv, PeriodBegins

LEMMA BoundStep == LocksInv /\ BoundInv /\ [LockoutNext]_lockoutVars => BoundInv'
<1> SUFFICES ASSUME LocksInv, BoundInv, [LockoutNext]_lockoutVars PROVE BoundInv'
  OBVIOUS
<1>1. PeriodTypes' /\ LocksInv'
  BY PeriodTypesStep, LockoutStep DEF BoundInv
<1>2. /\ Account \in LockoutKeys /\ locks[Account] \in Counter /\ locks'[Account] \in Counter
      /\ Full(locks[Account]) /\ Locks(locks[Account])
  BY <1>1 DEF LockoutKeys, LocksInv, BoundInv
<1>3. /\ period.age \in Nat /\ period.failures \in Nat /\ period.age <= LockTime
      /\ period'.age \in Nat /\ period'.failures \in Nat
  BY <1>1, LockoutAssumption DEF PeriodTypes, BoundInv
<1>4. /\ Cardinality(UnderWay) \in 0 .. Cardinality(Logins)
      /\ Cardinality(UnderWay)' \in 0 .. Cardinality(Logins)
      /\ Cardinality(Logins) \in Nat
  <2>1. Cardinality(UnderWay) \in 0 .. Cardinality(Logins)
    BY UnderWayCounts
  <2>2. Cardinality(UnderWay)' \in 0 .. Cardinality(Logins)
    <3>1. UnderWay' \subseteq Logins
      BY DEF UnderWay
    <3> QED
      BY <3>1, LockoutAssumption, FS_Subset, FS_CardinalityType
  <2> QED
    BY <2>1, <2>2, SomeLogins
\* A period that begins has no answers yet.
<1>5. ASSUME period' = PeriodBegins, \A k \in LockoutKeys : Full(locks'[k]) /\ Full(lockFile'[k])
      PROVE  BoundInv'
  <2>1. Fits(locks'[Account], 0, 0, Cardinality(UnderWay)')
    BY <1>2, <1>4, FitsOtherwise, LockoutAssumption
  <2> QED
    BY <1>1, <1>5, <2>1, SomeLogins, LockoutAssumption DEF BoundInv, PeriodBegins
\* Calls come and go without an answer.
<1>6. ASSUME UNCHANGED <<locks, lockFile, period>>,
             Cardinality(UnderWay)' <= Cardinality(UnderWay) \/ Allowed(locks[Account])
      PROVE  BoundInv'
  <2>1. period.age < LockTime =>
          Fits(locks[Account], period.failures, period.age, Cardinality(UnderWay)')
    BY <1>2, <1>3, <1>4, <1>6, FitsOtherwise DEF BoundInv
  <2> QED
    BY <1>1, <1>6, <2>1 DEF BoundInv
<1>7. CASE UNCHANGED lockoutVars
  <2>1. UnderWay' = UnderWay
    BY <1>7 DEF lockoutVars, UnderWay
  <2> QED
    BY <1>4, <1>6, <1>7, <2>1 DEF lockoutVars
<1>8. ASSUME NEW l \in Logins, NEW a \in Addresses, LetIn(l, a) PROVE BoundInv'
  BY <1>6, <1>8 DEF LetIn
<1>9. ASSUME NEW l \in Logins, LoginGivesUp(l) PROVE BoundInv'
  <2>1. UnderWay' = UnderWay \ {l} /\ l \in UnderWay
    BY <1>9 DEF LoginGivesUp, UnderWay, LocksInv
  <2>2. Cardinality(UnderWay)' = Cardinality(UnderWay) - 1
    BY <2>1, FS_RemoveElement, FS_Subset, LockoutAssumption DEF UnderWay
  <2> QED
    BY <1>4, <1>6, <1>9, <2>2 DEF LoginGivesUp
<1>10. ASSUME NEW l \in Logins, LoginFails(l) PROVE BoundInv'
  <2>1. /\ locks' = [k \in LockoutKeys |-> IF k \in {login[l], Account}
                                           THEN AfterFailure(locks[k]) ELSE locks[k]]
        /\ lockFile' \in {locks', lockFile}
    BY <1>10 DEF LoginFails, Persists
  <2>2. \A k \in LockoutKeys : Full(locks'[k]) /\ Full(lockFile'[k])
    BY <2>1, FailureCounts DEF LocksInv, BoundInv
  <2>3. locks'[Account] = AfterFailure(locks[Account])
    BY <1>2, <2>1
  <2>4. UnderWay' = UnderWay \ {l} /\ l \in UnderWay
    BY <1>10 DEF LoginFails, UnderWay, LocksInv
  <2>5. /\ Cardinality(UnderWay)' = Cardinality(UnderWay) - 1
        /\ Cardinality(UnderWay) \in 1 .. Cardinality(Logins)
    <3>1. Cardinality(UnderWay)' = Cardinality(UnderWay) - 1
      BY <2>4, FS_RemoveElement, FS_Subset, LockoutAssumption DEF UnderWay
    <3> QED
      BY <1>4, <3>1
  <2>6. CASE period.age < LockTime
    <3>1. period'.age = period.age /\ period'.failures = period.failures + 1
      BY <1>10, <2>6 DEF LoginFails, PeriodTypes, BoundInv
    <3>2. Fits(AfterFailure(locks[Account]), period.failures + 1, period.age,
               Cardinality(UnderWay) - 1)
      BY <1>2, <1>3, <2>5, <2>6, FailureFits DEF BoundInv
    <3>3. Fits(locks[Account], period.failures, period.age, Cardinality(UnderWay))'
      BY <2>3, <2>5, <3>1, <3>2
    <3>4. period'.failures <= FailureBound
      BY <1>2, <1>3, <1>4, <2>2, <2>3, <2>5, <3>1, <3>2, FitsIsBounded
    <3> QED
      BY <1>1, <2>2, <3>3, <3>4 DEF BoundInv
  <2>7. CASE ~(period.age < LockTime)
    <3>1. period' = period
      BY <1>10, <2>7 DEF LoginFails
    <3> QED
      BY <1>1, <2>2, <2>7, <3>1 DEF BoundInv
  <2> QED
    BY <2>6, <2>7
<1>11. ASSUME NEW l \in Logins, LoginSucceeds(l) PROVE BoundInv'
  <2>1. /\ locks' = [k \in LockoutKeys |-> IF k \in {login[l], Account} THEN NoCounter
                                           ELSE locks[k]]
        /\ lockFile' \in {locks', lockFile} /\ period' = PeriodBegins
    BY <1>11 DEF LoginSucceeds, Persists
  <2>2. Full(NoCounter)
    BY LockoutAssumption DEF Full, NoCounter
  <2>3. \A k \in LockoutKeys : Full(locks'[k]) /\ Full(lockFile'[k])
    BY <2>1, <2>2 DEF BoundInv
  <2> QED
    BY <1>5, <2>1, <2>3
<1>12. CASE RestartServer
  <2>1. /\ locks' = lockFile /\ lockFile' = lockFile
        /\ \A k \in LockoutKeys : Full(locks'[k]) /\ Full(lockFile'[k])
    BY <1>12 DEF RestartServer, BoundInv
  <2>2. CASE period' = PeriodBegins
    BY <1>5, <2>1, <2>2
  <2>3. CASE locks = lockFile /\ period' = period
    <3>1. UnderWay' = {}
      BY <1>12 DEF RestartServer, UnderWay
    <3>2. Cardinality(UnderWay)' <= Cardinality(UnderWay)
      BY <1>4, <3>1, FS_EmptySet
    <3> QED
      BY <1>6, <2>1, <2>3, <3>2
  <2> QED
    BY <1>12, <2>2, <2>3 DEF RestartServer
<1>13. CASE LockoutTick
  <2>1. /\ locks' = [k \in LockoutKeys |-> OlderCounter(locks[k])]
        /\ lockFile' = [k \in LockoutKeys |-> OlderCounter(lockFile[k])] /\ login' = login
    BY <1>13 DEF LockoutTick
  <2>2. \A k \in LockoutKeys : Full(locks'[k]) /\ Full(lockFile'[k])
    BY <2>1, OlderFull DEF LocksInv, BoundInv
  <2>3. locks'[Account] = OlderCounter(locks[Account]) /\ UnderWay' = UnderWay
    BY <1>2, <2>1 DEF UnderWay
  <2>4. period'.failures = period.failures
        /\ period'.age = IF period.age < LockTime THEN period.age + 1 ELSE period.age
    BY <1>13 DEF LockoutTick, PeriodTypes, BoundInv
  <2>5. period'.age < LockTime =>
          Fits(OlderCounter(locks[Account]), period.failures, period.age + 1,
               Cardinality(UnderWay)) /\ period'.age = period.age + 1
    BY <1>2, <1>3, <1>4, <2>4, OlderFits, LockoutAssumption DEF BoundInv
  <2>6. (period.age < LockTime =>
           Fits(locks[Account], period.failures, period.age, Cardinality(UnderWay)))'
    BY <2>3, <2>4, <2>5
  <2> QED
    BY <1>1, <2>2, <2>4, <2>6 DEF BoundInv
<1>14. CASE LookAgain
  BY <1>5, <1>14 DEF LookAgain, BoundInv
<1> QED
  BY <1>7, <1>8, <1>9, <1>10, <1>11, <1>12, <1>13, <1>14 DEF LockoutNext

\* Wrong answers for an account are bounded in every period of the lock's length, by two windows
\* and the calls let in before each has locked, whatever the addresses, the order of answers
\* and the restarts (recordLoginFailure, login-lockout.ts:79).
THEOREM WrongAnswersAreBounded == LockoutSpec => []FailuresBounded
<1>1. BoundInv => FailuresBounded
  BY DEF BoundInv, FailuresBounded
<1>2. LocksInv /\ BoundInv /\ [LockoutNext]_lockoutVars => (LocksInv /\ BoundInv)'
  BY LockoutStep, BoundStep
<1> QED
  BY <1>1, <1>2, LockoutStart, BoundStarts, PTL DEF LockoutSpec

\* The lockout, for any number of addresses, logins under way and restarts: a lock ends early only
\* by a right answer, by a restart that did not find it in the file, or by a failure that was under
\* way when the window ended, and wrong answers are bounded all the same (login-lockout.ts:70, 79).
THEOREM LocksAreKept == LockoutSpec => LockoutHolds
BY LocksLastLong, WrongAnswersAreBounded, PTL DEF LockoutHolds

--------------------------------------------------------------------------------
\* Two-factor codes

TotpRows == [enabled : BOOLEAN, secret : Nat, codes : [batch : Nat, left : SUBSET BackupCodes]]

TotpTypes ==
    /\ totp \in TotpRows
    /\ totpCall \in [TotpCalls -> [pc : {"idle", "setup", "confirm", "disable", "login"},
                                   read : TotpRows, entered : Entries, new : Nat,
                                   stale : BOOLEAN]]
    /\ secrets \in Nat /\ batches \in Nat
    /\ spent \subseteq Nat \X BackupCodes

\* The batch a confirmation is about to hand out is nobody's yet.
NewBatch(c) ==
    totpCall[c].pc = "confirm" =>
        /\ totpCall[c].new \in 1 .. batches /\ totpCall[c].new # totp.codes.batch
        /\ \A code \in BackupCodes : <<totpCall[c].new, code>> \notin spent
        /\ \A d \in TotpCalls \ {c} :
             totpCall[d].pc = "confirm" => totpCall[d].new # totpCall[c].new

\* No code of the row has been spent, no batch is beyond the confirmations, and a login
\* holds a code that was left when it read the row.
CodesInv ==
    /\ TotpTypes
    /\ totp.codes.batch <= batches
    /\ \A s \in spent : s[1] <= batches
    /\ \A code \in totp.codes.left : <<totp.codes.batch, code>> \notin spent
    /\ \A c \in TotpCalls :
         /\ NewBatch(c)
         /\ totpCall[c].pc = "login" =>
              /\ totpCall[c].entered \in BackupCodes
              /\ totpCall[c].entered \in totpCall[c].read.codes.left

LEMMA CodesInit == TwoFactorInit => CodesInv
<1>1. Off \in TotpRows /\ Off.codes.left = {} /\ Off.codes.batch = 0
  BY DEF Off, TotpRows, NoBatch, NoSecret
<1>2. NoTotpCall \in [pc : {"idle", "setup", "confirm", "disable", "login"},
                      read : TotpRows, entered : Entries, new : Nat, stale : BOOLEAN]
      /\ NoTotpCall.pc = "idle"
  BY <1>1 DEF NoTotpCall, Entries
<1> QED
  BY <1>1, <1>2 DEF TwoFactorInit, CodesInv, TotpTypes, NewBatch

\* A handler reads the row and waits: the record of its call.
LEMMA TotpWaits ==
    ASSUME TotpTypes, NEW c \in TotpCalls, NEW pc \in {"setup", "confirm", "disable", "login"},
           NEW entered \in Entries, NEW new \in Nat, Waits(c, pc, entered, new)
    PROVE  /\ totpCall' \in [TotpCalls -> [pc : {"idle", "setup", "confirm", "disable", "login"},
                                           read : TotpRows, entered : Entries, new : Nat,
                                           stale : BOOLEAN]]
           /\ totpCall'[c].pc = pc /\ totpCall'[c].entered = entered /\ totpCall'[c].new = new
           /\ totpCall'[c].read = totp
           /\ \A d \in TotpCalls \ {c} : totpCall'[d] = totpCall[d]
BY DEF TotpTypes, Waits

\* A handler writes the row: what the other calls have read and entered stays.
LEMMA TotpWrites ==
    ASSUME TotpTypes, NEW c \in TotpCalls, NEW row \in TotpRows, Writes(c, row)
    PROVE  /\ totp' = row
           /\ totpCall' \in [TotpCalls -> [pc : {"idle", "setup", "confirm", "disable", "login"},
                                           read : TotpRows, entered : Entries, new : Nat,
                                           stale : BOOLEAN]]
           /\ totpCall'[c].pc = "idle"
           /\ \A d \in TotpCalls : totpCall'[d].pc # "idle" =>
                /\ d # c /\ totpCall'[d].pc = totpCall[d].pc
                /\ totpCall'[d].read = totpCall[d].read /\ totpCall'[d].new = totpCall[d].new
                /\ totpCall'[d].entered = totpCall[d].entered
<1>1. NoTotpCall \in [pc : {"idle", "setup", "confirm", "disable", "login"},
                      read : TotpRows, entered : Entries, new : Nat, stale : BOOLEAN]
      /\ NoTotpCall.pc = "idle"
  BY DEF NoTotpCall, Entries, Off, TotpRows, NoBatch, NoSecret
<1>2. \A d \in TotpCalls : [totpCall[d] EXCEPT !.stale = TRUE] \in
          [pc : {"idle", "setup", "confirm", "disable", "login"},
           read : TotpRows, entered : Entries, new : Nat, stale : BOOLEAN]
  BY DEF TotpTypes
<1>3. totpCall' \in [TotpCalls -> [pc : {"idle", "setup", "confirm", "disable", "login"},
                                   read : TotpRows, entered : Entries, new : Nat,
                                   stale : BOOLEAN]]
  BY <1>1, <1>2 DEF Writes
<1> QED
  BY <1>1, <1>3 DEF Writes, TotpTypes

LEMMA CodesStep == CodesInv /\ [TwoFactorNext]_totpVars => CodesInv'
<1> SUFFICES ASSUME CodesInv, [TwoFactorNext]_totpVars PROVE CodesInv'
  OBVIOUS
<1>0. "totp" \in Entries /\ BackupCodes \subseteq Entries /\ TotpTypes
  BY DEF Entries, CodesInv
<1>1. ASSUME NEW c \in TotpCalls, SetupRead(c) \/ DisableRead(c) \/ LoginRead(c) PROVE CodesInv'
  <2>1. UNCHANGED <<totp, batches, spent>> /\ secrets' \in Nat
    BY <1>0, <1>1 DEF SetupRead, DisableRead, LoginRead, TotpTypes
  <2>2. PICK pc \in {"setup", "disable", "login"}, entered \in Entries, new \in Nat :
           /\ Waits(c, pc, entered, new)
           /\ pc = "login" => entered \in BackupCodes /\ entered \in totp.codes.left
    BY <1>0, <1>1 DEF SetupRead, DisableRead, LoginRead, CodeLeft, TotpTypes
  <2>3. /\ totpCall'[c].pc = pc /\ totpCall'[c].entered = entered /\ totpCall'[c].read = totp
        /\ \A d \in TotpCalls \ {c} : totpCall'[d] = totpCall[d]
    BY <1>0, <2>2, TotpWaits
  <2>4. TotpTypes'
    BY <1>0, <2>1, <2>2, TotpWaits DEF TotpTypes
  <2>5. \A d \in TotpCalls : NewBatch(d)'
    BY <2>1, <2>2, <2>3 DEF CodesInv, NewBatch
  <2> QED
    BY <2>1, <2>2, <2>3, <2>4, <2>5 DEF CodesInv
<1>2. ASSUME NEW c \in TotpCalls, ConfirmRead(c) PROVE CodesInv'
  <2>1. UNCHANGED <<totp, secrets, spent>> /\ batches' = batches + 1
        /\ Waits(c, "confirm", "totp", batches + 1) /\ batches + 1 \in Nat
    BY <1>0, <1>2 DEF ConfirmRead, TotpTypes
  <2>2. \A d \in TotpCalls : totpCall[d].pc = "confirm" => totpCall[d].new \in Nat
    BY <1>0 DEF TotpTypes
  <2>3. \A s \in spent : s[1] \in Nat
    BY <1>0 DEF TotpTypes
  <2>4. totp.codes.batch \in Nat
    BY <1>0 DEF TotpTypes, TotpRows
  <2>5. TotpTypes'
    BY <1>0, <2>1, TotpWaits DEF TotpTypes
  <2>6. \A d \in TotpCalls : NewBatch(d)'
    BY <1>0, <2>1, <2>2, <2>3, <2>4, TotpWaits DEF CodesInv, TotpTypes, NewBatch
  <2> QED
    BY <1>0, <2>1, <2>3, <2>4, <2>5, <2>6, TotpWaits DEF CodesInv, TotpTypes
<1>3. ASSUME NEW c \in TotpCalls, SetupWrite(c) \/ DisableWrite(c) PROVE CodesInv'
  <2>1. PICK row \in TotpRows : Writes(c, row) /\ row.codes.left = {} /\ row.codes.batch = 0
    <3>1. NoBatch \in [batch : Nat, left : SUBSET BackupCodes] /\ NoBatch.left = {}
          /\ NoBatch.batch = 0
      BY DEF NoBatch
    <3>2. /\ Off \in TotpRows /\ Off.codes = NoBatch
          /\ PendingRow(totpCall[c].new) \in TotpRows /\ PendingRow(totpCall[c].new).codes = NoBatch
      BY <1>0, <3>1 DEF PendingRow, Off, NoSecret, TotpRows, TotpTypes
    <3> QED
      BY <1>3, <3>1, <3>2 DEF SetupWrite, DisableWrite
  <2>2. UNCHANGED <<secrets, batches, spent>>
    BY <1>3 DEF SetupWrite, DisableWrite
  <2> QED
    BY <1>0, <2>1, <2>2, TotpWrites DEF CodesInv, TotpTypes, NewBatch
<1>4. ASSUME NEW c \in TotpCalls, ConfirmWrite(c) PROVE CodesInv'
  <2> DEFINE row == EnabledRow(totp, totpCall[c].new)
  <2>1. /\ row \in TotpRows /\ row.codes.batch = totpCall[c].new /\ row.codes.left = BackupCodes
    BY <1>0 DEF EnabledRow, TotpRows, TotpTypes
  <2>2. Writes(c, row) /\ totpCall[c].pc = "confirm" /\ UNCHANGED <<secrets, batches, spent>>
    BY <1>4 DEF ConfirmWrite
  <2> HIDE DEF row
  <2> QED
    BY <1>0, <2>1, <2>2, TotpWrites DEF CodesInv, TotpTypes, NewBatch
<1>5. ASSUME NEW c \in TotpCalls, LoginConsume(c) PROVE CodesInv'
  <2> DEFINE call == totpCall[c]
             less == call.read.codes.left \ {call.entered}
             row == [totp EXCEPT !.codes.left = less]
  <2>1. /\ call.pc = "login" /\ UNCHANGED <<secrets, batches>>
        /\ totpCall' = [totpCall EXCEPT ![c] = NoTotpCall]
        /\ \/ /\ StillTheHashes(c) /\ totp' = row
              /\ spent' = spent \cup {<<call.read.codes.batch, call.entered>>}
           \/ UNCHANGED <<totp, spent>>
    BY <1>5 DEF LoginConsume
  <2>2. call.read \in TotpRows /\ call.entered \in BackupCodes /\ less \subseteq BackupCodes
    BY <1>0, <2>1 DEF CodesInv, TotpTypes, TotpRows
  <2>3. row \in TotpRows /\ row.codes.batch = totp.codes.batch /\ row.codes.left = less
    BY <1>0, <2>2 DEF TotpTypes, TotpRows
  <2>4. NoTotpCall \in [pc : {"idle", "setup", "confirm", "disable", "login"},
                        read : TotpRows, entered : Entries, new : Nat, stale : BOOLEAN]
        /\ NoTotpCall.pc = "idle"
    BY DEF NoTotpCall, Entries, Off, TotpRows, NoBatch, NoSecret
  <2>5. totpCall'[c].pc = "idle" /\ \A d \in TotpCalls \ {c} : totpCall'[d] = totpCall[d]
    BY <1>0, <2>1, <2>4 DEF TotpTypes
  <2>6. CASE UNCHANGED <<totp, spent>>
    BY <1>0, <2>1, <2>4, <2>5, <2>6 DEF CodesInv, TotpTypes, NewBatch
  <2>7. CASE /\ StillTheHashes(c) /\ totp' = row
             /\ spent' = spent \cup {<<call.read.codes.batch, call.entered>>}
    <3>1. call.read.codes = totp.codes
      BY <2>7 DEF StillTheHashes
    <3> DEFINE pair == <<totp.codes.batch, call.entered>>
    <3>2. spent' = spent \cup {pair} /\ pair \in Nat \X BackupCodes
          /\ pair[1] = totp.codes.batch
      BY <1>0, <2>2, <2>7, <3>1 DEF TotpTypes, TotpRows
    <3>3. /\ totp'.codes.batch = totp.codes.batch
          /\ totp'.codes.left = totp.codes.left \ {call.entered}
      BY <2>3, <2>7, <3>1
    <3>4. TotpTypes'
      BY <1>0, <2>1, <2>3, <2>4, <2>7, <3>2 DEF TotpTypes
    <3> HIDE DEF row, less
    <3>5. \A code \in totp'.codes.left : <<totp'.codes.batch, code>> \notin spent'
      BY <3>2, <3>3 DEF CodesInv
    <3>6. \A d \in TotpCalls : NewBatch(d)'
      BY <2>1, <2>5, <3>2, <3>3 DEF CodesInv, NewBatch
    <3> QED
      BY <2>1, <2>5, <3>2, <3>3, <3>4, <3>5, <3>6 DEF CodesInv
  <2> QED
    BY <2>1, <2>6, <2>7
<1>6. CASE UNCHANGED totpVars
  BY <1>6 DEF totpVars, CodesInv, TotpTypes, NewBatch
<1> QED
  BY <1>1, <1>2, <1>3, <1>4, <1>5, <1>6 DEF TwoFactorNext

\* A backup code lets one login in, for any number of logins that enter it at the same time
\* and whatever set-ups, confirmations and disablings run beside them (the updateMany of
\* POST /login/totp, modules/auth/index.ts:267).
THEOREM BackupCodeCountsOnce == TwoFactorSpec => CodeCountsOnce
<1>1. CodesInv /\ [TwoFactorNext]_totpVars =>
        [\A c \in TotpCalls :
           totpCall[c].pc = "login" /\ totpCall'[c].pc = "idle" /\ StillTheHashes(c)
             => <<totpCall[c].read.codes.batch, totpCall[c].entered>> \notin spent]_totpVars
  BY DEF CodesInv, StillTheHashes
<1> QED
  BY <1>1, CodesInit, CodesStep, PTL DEF TwoFactorSpec, CodeCountsOnce

\* A confirmation that nobody has overtaken finds the secret it has confirmed.
ConfirmedInv ==
    /\ EnabledIsConfirmed
    /\ \A c \in TotpCalls :
         totpCall[c].pc = "confirm" /\ ~totpCall[c].stale => totp.secret \in confirmed

LEMMA ConfirmedStep ==
    CodesInv /\ ConfirmedInv /\ [TwoFactorNext]_totpVars => ConfirmedInv'
<1> SUFFICES ASSUME CodesInv, ConfirmedInv, [TwoFactorNext]_totpVars PROVE ConfirmedInv'
  OBVIOUS
<1> USE DEF ConfirmedInv, EnabledIsConfirmed
<1>1. totpCall \in [TotpCalls -> [pc : {"idle", "setup", "confirm", "disable", "login"},
                                  read : TotpRows, entered : Entries, new : Nat,
                                  stale : BOOLEAN]] /\ totp \in TotpRows
  BY DEF CodesInv, TotpTypes
\* A row that is read and not written.
<1>2. ASSUME NEW c \in TotpCalls, UNCHANGED <<totp, overtaken>>,
             \A d \in TotpCalls \ {c} : totpCall'[d] = totpCall[d],
             confirmed \subseteq confirmed',
             totpCall'[c].pc # "confirm" \/ totp.secret \in confirmed'
      PROVE  ConfirmedInv'
  BY <1>2
<1>3. ASSUME NEW c \in TotpCalls, SetupRead(c) \/ DisableRead(c) \/ LoginRead(c)
      PROVE  ConfirmedInv'
  <2>1. PICK pc \in {"setup", "disable", "login"} :
          totpCall'[c].pc = pc /\ \A d \in TotpCalls \ {c} : totpCall'[d] = totpCall[d]
    BY <1>1, <1>3 DEF SetupRead, DisableRead, LoginRead, Waits
  <2> QED
    BY <1>2, <1>3, <2>1 DEF SetupRead, DisableRead, LoginRead
<1>4. ASSUME NEW c \in TotpCalls, ConfirmRead(c) PROVE ConfirmedInv'
  <2>1. \A d \in TotpCalls \ {c} : totpCall'[d] = totpCall[d]
    BY <1>1, <1>4 DEF ConfirmRead, Waits
  <2> QED
    BY <1>2, <1>4, <2>1 DEF ConfirmRead
\* A row that is written makes every other call stale.
<1>5. ASSUME NEW c \in TotpCalls, NEW row, Writes(c, row), UNCHANGED confirmed,
             ~totpCall[c].stale /\ row.enabled => row.secret \in confirmed /\ row.codes.batch # 0
      PROVE  ConfirmedInv'
  <2>1. \A d \in TotpCalls : totpCall'[d].pc = "confirm" => totpCall'[d].stale
    BY <1>1, <1>5 DEF Writes, NoTotpCall
  <2>2. totp' = row /\ (~overtaken' => ~totpCall[c].stale)
    BY <1>5 DEF Writes
  <2> QED
    BY <1>5, <2>1, <2>2
<1>6. ASSUME NEW c \in TotpCalls, SetupWrite(c) \/ DisableWrite(c) PROVE ConfirmedInv'
  <2>1. ~PendingRow(totpCall[c].new).enabled /\ ~Off.enabled
    BY DEF PendingRow, Off
  <2> QED
    BY <1>5, <1>6, <2>1 DEF SetupWrite, DisableWrite
<1>7. ASSUME NEW c \in TotpCalls, ConfirmWrite(c) PROVE ConfirmedInv'
  <2> DEFINE row == EnabledRow(totp, totpCall[c].new)
  <2>1. row.secret = totp.secret /\ row.codes.batch = totpCall[c].new
    BY <1>1 DEF EnabledRow, TotpRows
  <2>2. totpCall[c].new # 0
    BY <1>7 DEF ConfirmWrite, CodesInv, NewBatch
  <2>3. Writes(c, row) /\ UNCHANGED confirmed /\ totpCall[c].pc = "confirm"
    BY <1>7 DEF ConfirmWrite
  <2> HIDE DEF row
  <2> QED
    BY <1>5, <2>1, <2>2, <2>3
<1>8. ASSUME NEW c \in TotpCalls, LoginConsume(c) PROVE ConfirmedInv'
  <2>1. /\ totp'.secret = totp.secret /\ totp'.enabled = totp.enabled
        /\ totp'.codes.batch = totp.codes.batch
    BY <1>1, <1>8 DEF LoginConsume, TotpRows
  <2>2. \A d \in TotpCalls : totpCall'[d].pc = "confirm" => totpCall'[d] = totpCall[d]
    BY <1>1, <1>8 DEF LoginConsume, NoTotpCall
  <2>3. UNCHANGED <<confirmed, overtaken>>
    BY <1>8 DEF LoginConsume
  <2> QED
    BY <2>1, <2>2, <2>3
<1>9. CASE UNCHANGED totpVars
  BY <1>9 DEF totpVars
<1> QED
  BY <1>3, <1>4, <1>6, <1>7, <1>8, <1>9 DEF TwoFactorNext

\* The second factor, for any number of calls that cross: a backup code lets one login in, and an
\* account that has it enabled has a secret that its owner has confirmed, and codes handed out for
\* it, unless a set-up, confirmation or disabling was overtaken (auth/index.ts:267, 365).
THEOREM SecondFactorHolds == TwoFactorSpec => CodesHold
<1>1. TwoFactorInit => ConfirmedInv
  BY DEF TwoFactorInit, ConfirmedInv, EnabledIsConfirmed, Off, NoTotpCall
<1>2. ConfirmedInv => EnabledIsConfirmed
  BY DEF ConfirmedInv
<1>3. TwoFactorSpec => []EnabledIsConfirmed
  BY <1>1, <1>2, CodesInit, CodesStep, ConfirmedStep, PTL DEF TwoFactorSpec
<1> QED
  BY <1>3, BackupCodeCountsOnce, PTL DEF CodesHold

\* Types: the codes

CallsOfCodes == [pc : {"idle", "setup", "confirm", "disable", "login"}, read : RowType,
                 entered : Entries, new : Nat, stale : BOOLEAN]

\* What a confirmation is about to hand out, and a set-up to write, is in range.
CodesInRange ==
    /\ TwoFactorTypeOK
    /\ \A c \in TotpCalls :
         /\ totpCall[c].pc = "setup" => totpCall[c].new \in 1 .. MaxSecrets
         /\ totpCall[c].pc = "confirm" => totpCall[c].new \in 1 .. MaxBatches
         /\ totpCall[c].pc = "login" =>
              /\ totpCall[c].entered \in BackupCodes
              /\ totpCall[c].read.codes.batch # 0
    /\ totp.codes.batch = 0 => totp.codes.left = {}

LEMMA OffHasType == Off \in RowType /\ NoTotpCall \in CallsOfCodes /\ NoTotpCall.pc = "idle"
                    /\ Off.codes = NoBatch
<1>1. 0 \in 0 .. MaxSecrets /\ 0 \in 0 .. MaxBatches
  BY TwoFactorAssumption
<1>2. Off \in RowType /\ Off.codes = NoBatch
  BY <1>1 DEF Off, NoBatch, NoSecret, RowType
<1> QED
  BY <1>2 DEF NoTotpCall, CallsOfCodes, Entries

\* A call has read the row and waits.
LEMMA WaitsInRange ==
    ASSUME CodesInRange, NEW c \in TotpCalls, NEW pc \in {"setup", "confirm", "disable", "login"},
           NEW entered \in Entries, NEW new \in Nat, Waits(c, pc, entered, new),
           pc = "setup" => new \in 1 .. MaxSecrets, pc = "confirm" => new \in 1 .. MaxBatches,
           pc = "login" => entered \in BackupCodes /\ entered \in totp.codes.left,
           UNCHANGED <<totp, spent, overtaken>>,
           secrets' \in 0 .. MaxSecrets, batches' \in 0 .. MaxBatches,
           confirmed' \subseteq 1 .. MaxSecrets
    PROVE  CodesInRange'
<1> DEFINE call == [pc |-> pc, read |-> totp, entered |-> entered, new |-> new, stale |-> FALSE]
<1>1. call \in CallsOfCodes
  BY DEF CodesInRange, TwoFactorTypeOK, CallsOfCodes
<1>2. \A d \in TotpCalls : totpCall'[d] = IF d = c THEN call ELSE totpCall[d]
  BY DEF Waits, CodesInRange, TwoFactorTypeOK
<1>3. TwoFactorTypeOK'
  BY <1>1 DEF Waits, CodesInRange, TwoFactorTypeOK, CallsOfCodes
<1>4. \A d \in TotpCalls :
         /\ totpCall'[d].pc = "setup" => totpCall'[d].new \in 1 .. MaxSecrets
         /\ totpCall'[d].pc = "confirm" => totpCall'[d].new \in 1 .. MaxBatches
         /\ totpCall'[d].pc = "login" =>
              /\ totpCall'[d].entered \in BackupCodes
              /\ totpCall'[d].read.codes.batch # 0
  BY <1>2 DEF CodesInRange
<1> QED
  BY <1>3, <1>4 DEF CodesInRange

LEMMA WritesInRange ==
    ASSUME CodesInRange, NEW c \in TotpCalls, NEW row \in RowType, Writes(c, row),
           row.codes.batch = 0 => row.codes.left = {},
           UNCHANGED <<secrets, batches, confirmed, spent>>
    PROVE  CodesInRange'
<1>1. \A d \in TotpCalls : /\ totpCall[d] \in CallsOfCodes
                           /\ [totpCall[d] EXCEPT !.stale = TRUE] \in CallsOfCodes
  BY DEF CodesInRange, TwoFactorTypeOK, CallsOfCodes
<1>2. totpCall' \in [TotpCalls -> CallsOfCodes]
  BY <1>1, OffHasType DEF Writes
<1>3. overtaken' \in BOOLEAN
  <2>1. totpCall[c].stale \in BOOLEAN /\ overtaken \in BOOLEAN
    BY <1>1 DEF CallsOfCodes, CodesInRange, TwoFactorTypeOK
  <2> QED
    BY <2>1 DEF Writes
<1>4. TwoFactorTypeOK'
  BY <1>2, <1>3 DEF Writes, CodesInRange, TwoFactorTypeOK, CallsOfCodes
<1>5. \A d \in TotpCalls : totpCall'[d].pc # "idle" =>
        /\ totpCall'[d].pc = totpCall[d].pc /\ totpCall'[d].new = totpCall[d].new
        /\ totpCall'[d].read = totpCall[d].read /\ totpCall'[d].entered = totpCall[d].entered
  BY <1>1, OffHasType DEF Writes, CallsOfCodes
<1>6. \A d \in TotpCalls :
         /\ totpCall'[d].pc = "setup" => totpCall'[d].new \in 1 .. MaxSecrets
         /\ totpCall'[d].pc = "confirm" => totpCall'[d].new \in 1 .. MaxBatches
         /\ totpCall'[d].pc = "login" =>
              /\ totpCall'[d].entered \in BackupCodes
              /\ totpCall'[d].read.codes.batch # 0
  BY <1>5 DEF CodesInRange
<1> QED
  BY <1>4, <1>6 DEF CodesInRange, Writes

LEMMA CodesStayInRange == CodesInRange /\ [TwoFactorNext]_totpVars => CodesInRange'
<1> SUFFICES ASSUME CodesInRange, [TwoFactorNext]_totpVars PROVE CodesInRange'
  OBVIOUS
<1>0. /\ "totp" \in Entries /\ BackupCodes \subseteq Entries /\ totp \in RowType
      /\ totp.secret \in 0 .. MaxSecrets
      /\ secrets \in 0 .. MaxSecrets /\ batches \in 0 .. MaxBatches
      /\ confirmed \subseteq 1 .. MaxSecrets
  BY DEF Entries, CodesInRange, TwoFactorTypeOK, RowType
<1>1. ASSUME NEW c \in TotpCalls, SetupRead(c) PROVE CodesInRange'
  <2>1. secrets + 1 \in 1 .. MaxSecrets /\ secrets + 1 \in 0 .. MaxSecrets /\ secrets + 1 \in Nat
    BY <1>0, <1>1, TwoFactorAssumption DEF SetupRead
  <2> QED
    BY <1>0, <1>1, <2>1, WaitsInRange DEF SetupRead
<1>2. ASSUME NEW c \in TotpCalls, ConfirmRead(c) PROVE CodesInRange'
  <2>1. batches + 1 \in 1 .. MaxBatches /\ batches + 1 \in 0 .. MaxBatches /\ batches + 1 \in Nat
    BY <1>0, <1>2, TwoFactorAssumption DEF ConfirmRead
  <2>2. totp.secret \in 1 .. MaxSecrets
    BY <1>0, <1>2, TwoFactorAssumption DEF ConfirmRead, NoSecret
  <2> QED
    BY <1>0, <1>2, <2>1, <2>2, WaitsInRange DEF ConfirmRead
<1>3. ASSUME NEW c \in TotpCalls, DisableRead(c) \/ LoginRead(c) PROVE CodesInRange'
  <2>1. PICK pc \in {"disable", "login"}, entered \in Entries :
          /\ Waits(c, pc, entered, 0)
          /\ pc = "login" => entered \in BackupCodes /\ entered \in totp.codes.left
          /\ UNCHANGED <<totp, secrets, batches, confirmed, spent, overtaken>>
    BY <1>0, <1>3 DEF DisableRead, LoginRead, CodeLeft
  <2> QED
    BY <1>0, <2>1, WaitsInRange
<1>4. ASSUME NEW c \in TotpCalls, SetupWrite(c) PROVE CodesInRange'
  <2> DEFINE row == PendingRow(totpCall[c].new)
  <2>1. totpCall[c].new \in 0 .. MaxSecrets
    BY <1>4, TwoFactorAssumption DEF SetupWrite, CodesInRange
  <2>2. row \in RowType /\ row.codes = NoBatch
    BY <2>1, TwoFactorAssumption DEF PendingRow, RowType, NoBatch
  <2>3. row.codes.left = {}
    BY <2>2 DEF NoBatch
  <2> HIDE DEF row
  <2> QED
    BY <1>4, <2>2, <2>3, WritesInRange DEF SetupWrite, row
<1>5. ASSUME NEW c \in TotpCalls, ConfirmWrite(c) PROVE CodesInRange'
  <2> DEFINE row == EnabledRow(totp, totpCall[c].new)
  <2>1. totpCall[c].new \in 0 .. MaxBatches /\ totpCall[c].new # 0
    BY <1>5, TwoFactorAssumption DEF ConfirmWrite, CodesInRange
  <2>2. row \in RowType /\ row.codes.batch # 0
    BY <1>0, <2>1 DEF EnabledRow, RowType
  <2> HIDE DEF row
  <2> QED
    BY <1>5, <2>2, WritesInRange DEF ConfirmWrite, row
<1>6. ASSUME NEW c \in TotpCalls, DisableWrite(c) PROVE CodesInRange'
  <2>1. Off.codes.left = {}
    BY OffHasType DEF NoBatch
  <2> QED
    BY <1>6, <2>1, OffHasType, WritesInRange DEF DisableWrite
<1>7. ASSUME NEW c \in TotpCalls, LoginConsume(c) PROVE CodesInRange'
  <2> DEFINE call == totpCall[c]
  <2>1. /\ call \in CallsOfCodes /\ call.read \in RowType /\ call.entered \in BackupCodes
        /\ call.read.codes.batch # 0
    BY <1>7 DEF CodesInRange, TwoFactorTypeOK, CallsOfCodes, LoginConsume
  <2>2. call.read.codes.batch \in 1 .. MaxBatches /\ call.read.codes.left \subseteq BackupCodes
    <3>1. call.read.codes.batch \in 0 .. MaxBatches /\ call.read.codes.left \subseteq BackupCodes
      BY <2>1 DEF RowType
    <3> QED
      BY <2>1, <3>1, TwoFactorAssumption
  <2> DEFINE left == call.read.codes.left \ {call.entered}
  <2>3. [totp EXCEPT !.codes.left = left] \in RowType
    BY <1>0, <2>2 DEF RowType
  <2>4. totpCall' \in [TotpCalls -> CallsOfCodes]
    BY <1>7, OffHasType DEF LoginConsume, CodesInRange, TwoFactorTypeOK, CallsOfCodes
  <2>5. totp' \in RowType /\ spent' \subseteq (1 .. MaxBatches) \X BackupCodes
    <3>1. spent \subseteq (1 .. MaxBatches) \X BackupCodes
      BY DEF CodesInRange, TwoFactorTypeOK
    <3>2. CASE StillTheHashes(c)
      <4>1. totp' = [totp EXCEPT !.codes.left = left]
            /\ spent' = spent \cup {<<call.read.codes.batch, call.entered>>}
        BY <1>7, <3>2 DEF LoginConsume
      <4>2. <<call.read.codes.batch, call.entered>> \in (1 .. MaxBatches) \X BackupCodes
        BY <2>1, <2>2
      <4> QED
        BY <2>3, <3>1, <4>1, <4>2
    <3>3. CASE ~StillTheHashes(c)
      BY <1>0, <1>7, <3>1, <3>3 DEF LoginConsume
    <3> QED
      BY <3>2, <3>3
  <2>6. totp'.codes.batch = 0 => totp'.codes.left = {}
    <3>1. CASE StillTheHashes(c)
      <4>1. totp'.codes.batch = totp.codes.batch /\ totp.codes = call.read.codes
        BY <1>0, <1>7, <3>1 DEF LoginConsume, RowType, StillTheHashes
      <4> QED
        BY <2>1, <4>1
    <3>2. CASE ~StillTheHashes(c)
      BY <1>7, <3>2 DEF LoginConsume, CodesInRange
    <3> QED
      BY <3>1, <3>2
  <2>7. \A d \in TotpCalls : totpCall'[d] = IF d = c THEN NoTotpCall ELSE totpCall[d]
    BY <1>7 DEF LoginConsume, CodesInRange, TwoFactorTypeOK
  <2>8. TwoFactorTypeOK'
    BY <1>7, <2>4, <2>5 DEF LoginConsume, CodesInRange, TwoFactorTypeOK, CallsOfCodes
  <2> QED
    BY <2>6, <2>7, <2>8, OffHasType DEF CodesInRange
<1>8. CASE UNCHANGED totpVars
  BY <1>8 DEF totpVars, CodesInRange, TwoFactorTypeOK
<1> QED
  BY <1>1, <1>2, <1>3, <1>4, <1>5, <1>6, <1>7, <1>8 DEF TwoFactorNext

\* Row and calls have their types for any number of calls: no secret and no batch is in use
\* that a set-up or a confirmation has not made (modules/auth/totp.ts:78).
THEOREM CodesTypesStay == TwoFactorSpec => []TwoFactorTypeOK
<1>1. TwoFactorInit => CodesInRange
  <2> SUFFICES ASSUME TwoFactorInit PROVE CodesInRange
    OBVIOUS
  <2>1. TwoFactorTypeOK
    <3>1. 0 \in 0 .. MaxSecrets /\ 0 \in 0 .. MaxBatches
      BY TwoFactorAssumption
    <3> QED
      BY <3>1, OffHasType DEF TwoFactorInit, TwoFactorTypeOK, CallsOfCodes
  <2>2. totp.codes.left = {}
    BY OffHasType DEF TwoFactorInit, NoBatch
  <2> QED
    BY <2>1, <2>2, OffHasType DEF TwoFactorInit, CodesInRange
<1>2. CodesInRange => TwoFactorTypeOK
  BY DEF CodesInRange
<1> QED
  BY <1>1, <1>2, CodesStayInRange, PTL DEF TwoFactorSpec

--------------------------------------------------------------------------------
\* Signing in

\* Before the page has loaded there is the request for the status or the user, and no other.
Phase(p, w) ==
    /\ ~ p.loaded => /\ ~ p.user /\ ~ p.expired /\ p.memory = NoSession
                     /\ \A r \in WebRequests : w[r].kind \in {"none", "status", "me"}
    /\ p.loaded => \A r \in WebRequests : w[r].kind \notin {"status", "me"}
    /\ \A r, q \in WebRequests :
         /\ w[r].kind \in {"status", "me"} /\ w[q].kind \in {"status", "me"} => r = q
         /\ w[r].kind \in {"login", "totp"} /\ w[q].kind \in {"login", "totp"} => r = q
    /\ \A r \in WebRequests :
         /\ w[r].kind \in {"me", "refresh", "disable", "logout"} => p.authEnabled
         /\ w[r].answer = "refused" => w[r].kind \in ForSession

\* What holds as long as the page tracks its session: with the login form shown, every answer
\* to the app is older than the form.
FormOf(p) == p.loaded /\ p.authEnabled /\ ~ p.user
Tracks(p, w, c, on) ==
    /\ p.memory # NoSession => c \in {p.memory, NoSession}
    /\ p.loaded /\ ~ p.authEnabled => ~ on
    /\ p.expired => FormOf(p)
    /\ \A r \in WebRequests :
         /\ w[r].kind = "status" /\ w[r].answer = "off" => ~ on
         /\ w[r].kind = "call" /\ w[r].answer = "refused" => on
         /\ w[r].kind \in {"call", "refresh", "disable", "logout"} /\ FormOf(p) => w[r].late
         /\ w[r].kind \in {"login", "totp"} => FormOf(p)

SignInIInv ==
    /\ SignInTypeOK
    /\ Phase(page, web)
    /\ Tracking => Tracks(page, web, cookie, authOn)

PageStates == [loaded : BOOLEAN, authEnabled : BOOLEAN, user : BOOLEAN,
               memory : Sessions \cup {NoSession}, expired : BOOLEAN, form : {"password", "totp"}]
WebRequestStates == [kind : Kinds \cup {"none"}, with : Sessions \cup {NoSession},
                  answer : Answers, late : BOOLEAN]

LEMMA NoWebRequestHasType ==
    /\ NoWebRequest \in WebRequestStates /\ NoWebRequest.kind = "none"
    /\ NoWebRequest.answer = "none"
BY DEF NoWebRequest, WebRequestStates, Answers

LEMMA NewPageHasType == NewPage \in PageStates
BY DEF NewPage, PageStates

\* A page that is opened.
LEMMA OpenedStands ==
    ASSUME NEW p, p = NewPage, NEW w, NEW r \in WebRequests, NEW c, NEW on,
           w = [q \in WebRequests |-> IF q = r THEN [NoWebRequest EXCEPT !.kind = "status"]
                                      ELSE NoWebRequest]
    PROVE  /\ p \in PageStates /\ w \in [WebRequests -> WebRequestStates]
           /\ Phase(p, w) /\ Tracks(p, w, c, on)
<1>1. PICK s : s = [NoWebRequest EXCEPT !.kind = "status"]
  OBVIOUS
<1>2. s \in WebRequestStates /\ s.kind = "status" /\ s.answer = "none"
  BY <1>1 DEF NoWebRequest, WebRequestStates, Answers, Kinds
<1>3. /\ w \in [WebRequests -> WebRequestStates]
      /\ \A q \in WebRequests : /\ w[q].answer = "none"
                                /\ q # r => w[q].kind = "none"
                                /\ q = r => w[q].kind = "status"
  BY <1>1, <1>2, NoWebRequestHasType
<1>4. /\ p \in PageStates /\ ~p.loaded /\ ~p.authEnabled /\ ~p.user /\ ~p.expired
      /\ p.memory = NoSession
  BY DEF NewPage, PageStates
<1>5. Phase(p, w)
  BY <1>3, <1>4 DEF Phase
<1>6. Tracks(p, w, c, on)
  BY <1>3, <1>4 DEF Tracks, FormOf
<1> QED
  BY <1>3, <1>4, <1>5, <1>6

LEMMA SignInStart == SignInInit => SignInIInv
<1> SUFFICES ASSUME SignInInit PROVE SignInIInv
  OBVIOUS
<1>1. PICK r \in WebRequests :
        web = [q \in WebRequests |-> IF q = r THEN [NoWebRequest EXCEPT !.kind = "status"]
                                     ELSE NoWebRequest]
  BY DEF SignInInit
<1>2. page = NewPage
  BY DEF SignInInit
<1>3. /\ page \in PageStates /\ web \in [WebRequests -> WebRequestStates]
      /\ Phase(page, web) /\ Tracks(page, web, cookie, authOn)
  BY <1>1, <1>2, OpenedStands
<1>4. SignInTypeOK
  <2>1. begun \in 0 .. MaxSessions /\ valid \subseteq Sessions
    BY SignInAssumption DEF SignInInit
  <2> QED
    BY <1>3, <2>1 DEF SignInInit, SignInTypeOK, PageStates, WebRequestStates
<1> QED
  BY <1>3, <1>4 DEF SignInIInv

LEMMA SignInTypes ==
    SignInTypeOK <=>
      /\ authOn \in BOOLEAN /\ valid \subseteq Sessions /\ begun \in 0 .. MaxSessions
      /\ cookie \in Sessions \cup {NoSession} /\ page \in PageStates
      /\ web \in [WebRequests -> WebRequestStates] /\ missed \in BOOLEAN /\ crossed \in BOOLEAN
BY DEF SignInTypeOK, PageStates, WebRequestStates

\* Requests of which some are over and others have become late.
Fewer(w, v) ==
    \A r \in WebRequests :
       \/ v[r].kind \in {"none", "farewell"} /\ v[r].answer = "none"
       \/ v[r].kind = w[r].kind /\ v[r].answer = w[r].answer /\ (w[r].late => v[r].late)

LEMMA OverIsFewer ==
    ASSUME NEW w \in [WebRequests -> WebRequestStates], w = web, NEW r \in WebRequests,
           NEW v, v = Over(r)
    PROVE  /\ v \in [WebRequests -> WebRequestStates] /\ Fewer(w, v)
           /\ v[r].kind = "none" /\ \A q \in WebRequests \ {r} : v[q] = w[q]
BY NoWebRequestHasType DEF Over, Fewer

LEMMA OutdatedIsFewer ==
    ASSUME NEW w \in [WebRequests -> WebRequestStates], NEW v, v = Outdated(w)
    PROVE  /\ v \in [WebRequests -> WebRequestStates] /\ Fewer(w, v)
           /\ \A q \in WebRequests : /\ v[q].kind # "none" => v[q].late /\ v[q].kind = w[q].kind
                                     /\ w[q].late => v[q] = w[q]
<1> SUFFICES ASSUME NEW q \in WebRequests
             PROVE  /\ v[q] \in WebRequestStates
                    /\ \/ v[q].kind = "none" /\ v[q].answer = "none"
                       \/ /\ v[q].kind = w[q].kind /\ v[q].answer = w[q].answer
                          /\ (w[q].late => v[q].late)
                    /\ v[q].kind # "none" => v[q].late /\ v[q].kind = w[q].kind
                    /\ w[q].late => v[q] = w[q]
  BY DEF Outdated, Fewer
<1>1. CASE w[q] = NoWebRequest
  BY <1>1, NoWebRequestHasType DEF Outdated, NoWebRequest
<1>2. CASE w[q] # NoWebRequest
  BY <1>2 DEF Outdated, WebRequestStates
<1> QED
  BY <1>1, <1>2

\* What is left to show of a page that is loaded when an answer has arrived.
LEMMA ArrivedStands ==
    ASSUME SignInIInv, NEW n \in PageStates, page' = n,
           NEW v \in [WebRequests -> WebRequestStates], web' = v,
           NEW d \in Sessions \cup {NoSession}, cookie' = d, UNCHANGED <<authOn, valid, begun>>,
           missed' \in BOOLEAN, crossed' \in BOOLEAN, Fewer(web, v),
           n.loaded, page.authEnabled => n.authEnabled,
           \A r \in WebRequests : v[r].kind \notin {"status", "me"},
           Tracking' => Tracks(n, v, d, authOn)
    PROVE  SignInIInv'
<1>1. SignInTypeOK'
  BY DEF SignInIInv, SignInTypeOK, PageStates, WebRequestStates
<1>2. \A r \in WebRequests :
        \/ v[r].kind \in {"none", "farewell"} /\ v[r].answer = "none"
        \/ v[r].kind = web[r].kind /\ v[r].answer = web[r].answer
  BY DEF Fewer
<1>3. Phase(page, web)
  BY DEF SignInIInv
<1>4. \A r, q \in WebRequests :
         v[r].kind \in {"login", "totp"} /\ v[q].kind \in {"login", "totp"} => r = q
  BY <1>2, <1>3 DEF Phase
<1>5. \A r \in WebRequests :
         /\ v[r].kind \in {"me", "refresh", "disable", "logout"} => n.authEnabled
         /\ v[r].answer = "refused" => v[r].kind \in ForSession
  BY <1>2, <1>3 DEF Phase
<1>6. Phase(n, v)
  BY <1>4, <1>5 DEF Phase
<1> QED
  BY <1>1, <1>6 DEF SignInIInv

LEMMA FewerTrack ==
    ASSUME NEW p, NEW w, NEW v, NEW n, NEW c, NEW d, NEW on,
           Tracks(p, w, c, on), Fewer(w, v),
           n.memory # NoSession => d \in {n.memory, NoSession},
           n.loaded /\ ~ n.authEnabled => ~ on, n.expired => FormOf(n),
           \A r \in WebRequests : /\ v[r].kind \in {"login", "totp"} => FormOf(n)
                                  /\ v[r].kind \in {"call", "refresh", "disable", "logout"}
                                        /\ FormOf(n) => v[r].late
    PROVE  Tracks(n, v, d, on)
BY DEF Fewer, Tracks

\* One request less, and nothing else that matters.
LEMMA OneLessTracks ==
    ASSUME NEW p \in PageStates, NEW n \in PageStates, NEW w, NEW v, NEW c, NEW on,
           NEW r \in WebRequests, Tracks(p, w, c, on),
           n.loaded = p.loaded, n.authEnabled = p.authEnabled, n.user = p.user,
           n.expired = p.expired, n.memory \in {p.memory, NoSession},
           v[r].kind = "none", \A q \in WebRequests \ {r} : v[q] = w[q]
    PROVE  Tracks(n, v, c, on)
<1>1. FormOf(n) <=> FormOf(p)
  BY DEF FormOf
<1>2. \A q \in WebRequests : q = r \/ v[q] = w[q]
  OBVIOUS
<1>3. \A q \in WebRequests :
         /\ v[q].kind = "status" /\ v[q].answer = "off" => ~ on
         /\ v[q].kind = "call" /\ v[q].answer = "refused" => on
         /\ v[q].kind \in {"call", "refresh", "disable", "logout"} /\ FormOf(n) => v[q].late
         /\ v[q].kind \in {"login", "totp"} => FormOf(n)
  <2> SUFFICES ASSUME NEW q \in WebRequests
               PROVE  /\ v[q].kind = "status" /\ v[q].answer = "off" => ~ on
                      /\ v[q].kind = "call" /\ v[q].answer = "refused" => on
                      /\ v[q].kind \in {"call", "refresh", "disable", "logout"} /\ FormOf(n)
                            => v[q].late
                      /\ v[q].kind \in {"login", "totp"} => FormOf(n)
    OBVIOUS
  <2>1. CASE q = r
    BY <2>1
  <2>2. CASE v[q] = w[q]
    BY <1>1, <2>2 DEF Tracks
  <2> QED
    BY <1>2, <2>1, <2>2
<1>4. /\ n.memory # NoSession => c \in {n.memory, NoSession}
      /\ n.loaded /\ ~ n.authEnabled => ~ on
      /\ n.expired => FormOf(n)
  BY <1>1 DEF Tracks
<1> QED
  BY <1>3, <1>4 DEF Tracks

\* What an answer finds.
LEMMA FoundByAnswers ==
    ASSUME SignInIInv
    PROVE  /\ page \in PageStates /\ web \in [WebRequests -> WebRequestStates]
           /\ cookie \in Sessions \cup {NoSession} /\ missed \in BOOLEAN /\ crossed \in BOOLEAN
           /\ authOn \in BOOLEAN /\ begun \in 0 .. MaxSessions /\ valid \subseteq Sessions
           /\ Phase(page, web) /\ (Tracking => Tracks(page, web, cookie, authOn))
BY SignInTypes DEF SignInIInv

\* The status or the user arrives: there is no other request.
LEMMA LoadingArrives ==
    ASSUME SignInIInv, NEW r \in WebRequests, StatusArrives(r) \/ MeArrives(r),
           UNCHANGED <<authOn, valid, begun>>
    PROVE  SignInIInv'
<1>0. /\ page \in PageStates /\ web \in [WebRequests -> WebRequestStates]
      /\ cookie \in Sessions \cup {NoSession} /\ missed \in BOOLEAN /\ crossed \in BOOLEAN
      /\ Phase(page, web) /\ (Tracking => Tracks(page, web, cookie, authOn))
  BY FoundByAnswers
<1>1. /\ web[r].kind \in {"status", "me"} /\ cookie' = cookie /\ missed' \in BOOLEAN
      /\ (missed => missed') /\ crossed' = (crossed \/ web[r].late)
  BY <1>0 DEF StatusArrives, MeArrives, Arrived
<1>2. /\ ~page.loaded /\ ~page.user /\ ~page.expired /\ page.memory = NoSession
      /\ \A q \in WebRequests \ {r} : web[q].kind = "none"
  BY <1>0, <1>1 DEF Phase
<1>3. crossed' \in BOOLEAN /\ (Tracking' => Tracking)
  BY <1>0, <1>1 DEF WebRequestStates, Tracking
<1>4. PICK over : over = Over(r)
  OBVIOUS
<1>5. /\ over \in [WebRequests -> WebRequestStates] /\ Fewer(web, over)
      /\ \A q \in WebRequests : over[q].kind = "none"
  BY <1>0, <1>2, <1>4, OverIsFewer
<1>6. CASE StatusArrives(r) /\ web[r].answer = "ok"
  <2>1. page' = [page EXCEPT !.authEnabled = TRUE] /\ web' = [web EXCEPT ![r] = Asking("me")]
    BY <1>6 DEF StatusArrives, Arrived
  <2>2. PICK s : s = Asking("me")
    OBVIOUS
  <2>3. s \in WebRequestStates /\ s.kind = "me" /\ s.answer = "none"
    BY <1>0, <2>2 DEF Asking, NoWebRequest, ForSession, Credential, WebRequestStates, PageStates,
                      Answers, Kinds
  <2>4. PICK n, v : n = page' /\ v = web'
    OBVIOUS
  <2>5. /\ n \in PageStates /\ ~n.loaded /\ n.authEnabled /\ ~n.user /\ ~n.expired
        /\ n.memory = NoSession
    BY <1>0, <1>2, <2>1, <2>4 DEF PageStates
  <2>6. /\ v \in [WebRequests -> WebRequestStates] /\ v[r].kind = "me" /\ v[r].answer = "none"
        /\ \A q \in WebRequests \ {r} : v[q].kind = "none" /\ v[q].answer = web[q].answer
    BY <1>0, <1>2, <2>1, <2>2, <2>3, <2>4
  <2>7. \A q \in WebRequests : v[q].answer = "refused" => v[q].kind \in ForSession
    BY <1>0, <1>2, <2>6 DEF Phase
  <2>8. Phase(n, v)
    BY <2>5, <2>6, <2>7 DEF Phase
  <2>9. Tracks(n, v, cookie, authOn)
    BY <2>5, <2>6 DEF Tracks, FormOf
  <2>10. SignInTypeOK'
    BY <1>0, <1>1, <1>3, <2>4, <2>5, <2>6 DEF SignInIInv, SignInTypeOK, PageStates, WebRequestStates
  <2> QED
    BY <1>1, <2>4, <2>8, <2>9, <2>10 DEF SignInIInv
<1>7. CASE StatusArrives(r) /\ web[r].answer # "ok"
  <2>1. PICK n : n = page'
    OBVIOUS
  <2>2. /\ n \in PageStates /\ n.loaded /\ n.authEnabled = page.authEnabled /\ ~n.user
        /\ ~n.expired /\ n.memory = NoSession
    BY <1>0, <1>2, <1>7, <2>1 DEF StatusArrives, Arrived, PageStates
  <2>3. web' = over
    BY <1>4, <1>7 DEF StatusArrives, Arrived
  <2>4. Tracking' => ~authOn
    BY <1>0, <1>3, <1>7 DEF StatusArrives, Arrived, Tracking, Tracks
  <2>5. Tracking' => Tracks(n, over, cookie, authOn)
    BY <1>5, <2>2, <2>4 DEF Tracks
  <2> QED
    BY <1>0, <1>1, <1>3, <1>5, <2>1, <2>2, <2>3, <2>5, ArrivedStands
<1>8. CASE MeArrives(r)
  <2>0. web[r].kind = "me" /\ page.authEnabled
    BY <1>0, <1>8 DEF MeArrives, Arrived, Phase
  <2>1. PICK n : n = page'
    OBVIOUS
  <2>2. /\ n \in PageStates /\ n.loaded /\ n.authEnabled /\ n.memory = NoSession
        /\ (n.expired => ~n.user)
    BY ZenonT(30), <1>0, <1>2, <1>8, <2>0, <2>1 DEF MeArrives, Notified, PageStates
  <2>3. PICK v : v = web'
    OBVIOUS
  <2>4. /\ v \in [WebRequests -> WebRequestStates] /\ Fewer(web, v)
        /\ \A q \in WebRequests : v[q].kind \in {"none", "farewell"}
    <3>1. CASE v = over
      BY <1>5, <3>1
    <3>2. CASE v # over
      <4>1. PICK s : s = [NoWebRequest EXCEPT !.kind = "farewell"]
        OBVIOUS
      <4>2. s \in WebRequestStates /\ s.kind = "farewell" /\ s.answer = "none"
        BY <4>1 DEF NoWebRequest, WebRequestStates, Answers, Kinds
      <4>3. PICK o : o = Outdated(web)
        OBVIOUS
      <4>4. /\ o \in [WebRequests -> WebRequestStates] /\ Fewer(web, o)
            /\ \A q \in WebRequests : o[q].kind # "none" => o[q].kind = web[q].kind
        BY <1>0, <4>3, OutdatedIsFewer
      <4>5. v = [o EXCEPT ![r] = s]
        BY <1>4, <1>8, <2>3, <3>2, <4>1, <4>3 DEF MeArrives, Notified
      <4> QED
        BY <1>2, <4>2, <4>4, <4>5 DEF Fewer
    <3> QED
      BY <3>1, <3>2
  <2>5. Tracking' => Tracks(n, v, cookie, authOn)
    <3>1. n.expired => FormOf(n)
      BY <2>2 DEF FormOf
    <3>2. \A q \in WebRequests : v[q].kind \notin {"status", "call", "login", "totp", "refresh",
                                                 "disable", "logout"}
      BY <2>4
    <3> QED
      BY <2>2, <3>1, <3>2 DEF Tracks
  <2>6. \A q \in WebRequests : v[q].kind \notin {"status", "me"}
    BY <2>4
  <2> QED
    BY <1>0, <1>1, <1>3, <2>1, <2>2, <2>3, <2>4, <2>5, <2>6, ArrivedStands
<1> QED
  BY <1>6, <1>7, <1>8

\* A session is refused, or said to be.
LEMMA RefusalStands ==
    ASSUME SignInIInv, NEW r \in WebRequests, web[r].kind \in {"call", "refresh", "disable"},
           Notified(r, page), UNCHANGED <<authOn, valid, begun, cookie>>, missed' \in BOOLEAN,
           crossed' \in BOOLEAN, Tracking' => Tracking /\ web[r].answer = "refused"
    PROVE  SignInIInv'
<1>0. /\ page \in PageStates /\ web \in [WebRequests -> WebRequestStates]
      /\ cookie \in Sessions \cup {NoSession}
      /\ Phase(page, web) /\ (Tracking => Tracks(page, web, cookie, authOn))
  BY FoundByAnswers
<1>1. page.loaded /\ \A q \in WebRequests : web[q].kind \notin {"status", "me"}
  BY <1>0 DEF Phase
<1>2. Tracking' => page.authEnabled /\ Tracks(page, web, cookie, authOn)
  BY <1>0, <1>1 DEF Phase, Tracks
<1>3. PICK n, v : n = page' /\ v = web'
  OBVIOUS
<1>4. CASE ~ HasSign \/ page.expired
  <2>1. n = [page EXCEPT !.memory = NoSession] /\ v = Over(r)
    BY <1>3, <1>4 DEF Notified
  <2>2. /\ n \in PageStates /\ n.loaded /\ n.authEnabled = page.authEnabled
        /\ n.user = page.user /\ n.expired = page.expired /\ n.memory = NoSession
    BY <1>0, <1>1, <2>1 DEF PageStates
  <2>3. /\ v \in [WebRequests -> WebRequestStates] /\ Fewer(web, v)
        /\ v[r].kind = "none" /\ \A q \in WebRequests \ {r} : v[q] = web[q]
    BY <1>0, <2>1, OverIsFewer
  <2>4. Tracking' => Tracks(n, v, cookie, authOn)
    <3>1. /\ n.loaded = page.loaded /\ n.authEnabled = page.authEnabled
              /\ n.user = page.user /\ n.expired = page.expired
              /\ n.memory \in {page.memory, NoSession}
              /\ v[r].kind = "none" /\ \A q \in WebRequests \ {r} : v[q] = web[q]
      BY <1>0, <1>1, <2>2, <2>3 DEF PageStates
    <3>2. ASSUME Tracks(page, web, cookie, authOn) PROVE Tracks(n, v, cookie, authOn)
      BY <1>0, <2>2, <3>1, <3>2, OneLessTracks
    <3> QED
      BY <1>2, <3>2
  <2>5. \A q \in WebRequests : v[q].kind \notin {"status", "me"}
    BY <1>1, <2>3
  <2> QED
    BY <1>0, <1>3, <2>2, <2>3, <2>4, <2>5, ArrivedStands
<1>5. CASE ~(~ HasSign \/ page.expired)
  <2>1. PICK s : s = [NoWebRequest EXCEPT !.kind = "farewell"]
    OBVIOUS
  <2>2. s \in WebRequestStates /\ s.kind = "farewell" /\ s.answer = "none"
    BY <2>1 DEF NoWebRequest, WebRequestStates, Answers, Kinds
  <2>3. PICK o : o = Outdated(web)
    OBVIOUS
  <2>4. /\ o \in [WebRequests -> WebRequestStates] /\ Fewer(web, o)
        /\ \A q \in WebRequests : o[q].kind # "none" => o[q].late /\ o[q].kind = web[q].kind
    BY <1>0, <2>3, OutdatedIsFewer
  <2>5. /\ n = [page EXCEPT !.memory = NoSession, !.expired = TRUE, !.user = FALSE]
        /\ v = [o EXCEPT ![r] = s]
    BY <1>3, <1>5, <2>1, <2>3 DEF Notified
  <2>6. /\ n \in PageStates /\ n.loaded /\ n.authEnabled = page.authEnabled /\ ~n.user
        /\ n.expired /\ n.memory = NoSession
    BY <1>0, <1>1, <2>5 DEF PageStates
  <2>7. /\ v \in [WebRequests -> WebRequestStates] /\ Fewer(web, v)
        /\ \A q \in WebRequests : v[q].kind \notin {"none", "farewell"} =>
             v[q].late /\ v[q].kind = web[q].kind
    BY <2>2, <2>4, <2>5 DEF Fewer
  <2>8. Tracking' => Tracks(n, v, cookie, authOn)
    <3>1. SUFFICES ASSUME Tracking' PROVE Tracks(n, v, cookie, authOn)
      OBVIOUS
    <3>2. FormOf(n)
      BY <1>2, <2>6, <3>1 DEF FormOf
    <3> QED
      BY <1>2, <2>6, <2>7, <3>1, <3>2, FewerTrack
  <2>9. \A q \in WebRequests : v[q].kind \notin {"status", "me"}
    BY <1>1, <2>7
  <2> QED
    BY <1>0, <1>3, <2>6, <2>7, <2>8, <2>9, ArrivedStands
<1> QED
  BY <1>4, <1>5

LEMMA CallAnswersStand ==
    ASSUME SignInIInv, NEW r \in WebRequests, CallArrives(r), UNCHANGED <<authOn, valid, begun>>
    PROVE  SignInIInv'
<1>0. /\ page \in PageStates /\ web \in [WebRequests -> WebRequestStates]
      /\ cookie \in Sessions \cup {NoSession} /\ missed \in BOOLEAN /\ crossed \in BOOLEAN
      /\ Phase(page, web) /\ (Tracking => Tracks(page, web, cookie, authOn))
  BY FoundByAnswers
<1>1. /\ web[r].kind \in {"call", "refresh", "disable"} /\ cookie' = cookie
      /\ missed' \in BOOLEAN /\ (missed => missed') /\ crossed' = (crossed \/ web[r].late)
  BY <1>0 DEF CallArrives, Arrived
<1>2. crossed' \in BOOLEAN /\ (Tracking' => Tracking /\ ~web[r].late)
  BY <1>0, <1>1 DEF WebRequestStates, Tracking
<1>3. page.loaded /\ \A q \in WebRequests : web[q].kind \notin {"status", "me"}
  BY <1>0, <1>1 DEF Phase
<1>4. CASE Notified(r, page) /\ web[r].answer = "refused"
  BY <1>1, <1>2, <1>4, RefusalStands
<1>5. CASE Notified(r, page) /\ missed'
  BY <1>1, <1>2, <1>5, RefusalStands DEF Tracking
<1>6. CASE /\ web' = Over(r) /\ missed' = missed
           /\ \/ page' = page
              \/ page' = [page EXCEPT !.user = TRUE] /\ web[r].kind = "refresh"
  <2>1. PICK n, v : n = page' /\ v = web'
    OBVIOUS
  <2>2. /\ v \in [WebRequests -> WebRequestStates] /\ Fewer(web, v)
        /\ v[r].kind = "none" /\ \A q \in WebRequests \ {r} : v[q] = web[q]
    BY <1>0, <1>6, <2>1, OverIsFewer
  <2>3. n \in PageStates /\ n.loaded /\ n.authEnabled = page.authEnabled
        /\ n.expired = page.expired /\ n.memory = page.memory
    BY <1>0, <1>3, <1>6, <2>1 DEF PageStates
  <2>4. Tracking' => n.user = page.user
    <3>1. CASE page' = page
      BY <2>1, <3>1
    <3>2. CASE page' = [page EXCEPT !.user = TRUE] /\ web[r].kind = "refresh"
      <4>1. page.authEnabled
        BY <1>0, <3>2 DEF Phase
      <4>2. Tracking' => page.user
        BY <1>0, <1>2, <1>3, <3>2, <4>1 DEF Tracks, FormOf
      <4> QED
        BY <1>0, <2>1, <3>2, <4>2 DEF PageStates
    <3> QED
      BY <1>6, <3>1, <3>2
  <2>5. Tracking' => Tracks(n, v, cookie, authOn)
    <3> SUFFICES ASSUME Tracking' PROVE Tracks(n, v, cookie, authOn)
      OBVIOUS
    <3>1. /\ n.loaded = page.loaded /\ n.authEnabled = page.authEnabled
              /\ n.user = page.user /\ n.expired = page.expired
              /\ n.memory \in {page.memory, NoSession}
              /\ v[r].kind = "none" /\ \A q \in WebRequests \ {r} : v[q] = web[q]
      BY <1>0, <1>3, <2>2, <2>3, <2>4 DEF PageStates
    <3>2. Tracks(page, web, cookie, authOn)
      BY <1>0, <1>2
    <3> QED
      BY <1>0, <2>3, <3>1, <3>2, OneLessTracks
  <2>6. \A q \in WebRequests : v[q].kind \notin {"status", "me"}
    BY <1>3, <2>2
  <2>7. missed' \in BOOLEAN
    BY <1>1
  <2> QED
    BY <1>0, <1>1, <1>2, <2>1, <2>2, <2>3, <2>5, <2>6, <2>7, ArrivedStands
<1> QED
  BY <1>4, <1>5, <1>6 DEF CallArrives, Arrived

LEMMA LoginStands ==
    ASSUME SignInIInv, NEW r \in WebRequests, LoginArrives(r), UNCHANGED <<authOn, valid, begun>>
    PROVE  SignInIInv'
<1>0. /\ page \in PageStates /\ web \in [WebRequests -> WebRequestStates]
      /\ cookie \in Sessions \cup {NoSession} /\ missed \in BOOLEAN /\ crossed \in BOOLEAN
      /\ Phase(page, web) /\ (Tracking => Tracks(page, web, cookie, authOn))
  BY FoundByAnswers
<1>1. /\ web[r].kind \in {"login", "totp"} /\ missed' = missed
      /\ crossed' = (crossed \/ web[r].late)
  BY DEF LoginArrives, Arrived
<1>2. crossed' \in BOOLEAN /\ missed' \in BOOLEAN /\ (Tracking' => Tracking)
  BY <1>0, <1>1 DEF WebRequestStates, Tracking
<1>3. page.loaded /\ \A q \in WebRequests : web[q].kind \notin {"status", "me"}
  BY <1>0, <1>1 DEF Phase
<1>4. PICK over : over = Over(r)
  OBVIOUS
<1>5. /\ over \in [WebRequests -> WebRequestStates] /\ Fewer(web, over)
      /\ over[r].kind = "none" /\ \A q \in WebRequests \ {r} : over[q] = web[q]
  BY <1>0, <1>4, OverIsFewer
<1>6. PICK n, v, d : n = page' /\ v = web' /\ d = cookie'
  OBVIOUS
<1>7. CASE cookie' = web[r].with /\ page' = LoggedIn(r) /\ web' = Outdated(Over(r))
  <2>1. /\ v \in [WebRequests -> WebRequestStates] /\ Fewer(over, v)
        /\ \A q \in WebRequests : v[q].kind # "none" => v[q].late /\ v[q].kind = over[q].kind
    BY <1>4, <1>5, <1>6, <1>7, OutdatedIsFewer
  <2>2. Fewer(web, v)
    BY <1>5, <2>1 DEF Fewer
  <2>3. /\ n \in PageStates /\ n.loaded /\ n.authEnabled /\ n.user /\ ~n.expired
        /\ n.memory = web[r].with /\ d = web[r].with /\ d \in Sessions \cup {NoSession}
    BY <1>0, <1>3, <1>6, <1>7 DEF LoggedIn, PageStates, WebRequestStates
  <2>4. \A q \in WebRequests : v[q].kind \notin {"status", "me", "login", "totp"}
    <3> SUFFICES ASSUME NEW q \in WebRequests
                 PROVE  v[q].kind \notin {"status", "me", "login", "totp"}
      OBVIOUS
    <3>1. over[q].kind \notin {"status", "me", "login", "totp"}
      BY <1>0, <1>1, <1>3, <1>5 DEF Phase
    <3> QED
      BY <2>1, <3>1
  <2>5. Tracking' => Tracks(n, v, d, authOn)
    BY <1>0, <1>2, <2>2, <2>3, <2>4, FewerTrack DEF FormOf
  <2>6. \A q \in WebRequests : v[q].kind \notin {"status", "me"}
    BY <2>4
  <2> QED
    BY <1>2, <1>6, <2>1, <2>2, <2>3, <2>5, <2>6, ArrivedStands
<1>8. CASE /\ cookie' = cookie /\ web' = Over(r)
           /\ page' = page \/ \E form \in {"totp", page.form} : page' = [page EXCEPT !.form = form]
  <2>1. /\ n \in PageStates /\ n.loaded /\ n.authEnabled = page.authEnabled
        /\ n.user = page.user /\ n.expired = page.expired /\ n.memory = page.memory
    BY <1>0, <1>3, <1>6, <1>8 DEF PageStates
  <2>2. v = over /\ d = cookie
    BY <1>4, <1>6, <1>8
  <2>3. Tracking' => Tracks(n, over, cookie, authOn)
    <3>1. /\ n.loaded = page.loaded /\ n.authEnabled = page.authEnabled
              /\ n.user = page.user /\ n.expired = page.expired
              /\ n.memory \in {page.memory, NoSession}
              /\ over[r].kind = "none" /\ \A q \in WebRequests \ {r} : over[q] = web[q]
      BY <1>0, <1>3, <1>5, <2>1 DEF PageStates
    <3>2. ASSUME Tracks(page, web, cookie, authOn) PROVE Tracks(n, over, cookie, authOn)
      BY <1>0, <2>1, <3>1, <3>2, OneLessTracks
    <3> QED
      BY <1>0, <1>2, <3>2
  <2>4. \A q \in WebRequests : over[q].kind \notin {"status", "me"}
    BY <1>3, <1>5
  <2>5. page' = n /\ web' = over /\ cookie' = cookie
    BY <1>6, <2>2
  <2> QED
    BY <1>0, <1>2, <1>5, <2>1, <2>3, <2>4, <2>5, ArrivedStands
<1> QED
  BY <1>7, <1>8 DEF LoginArrives

LEMMA LeavingStands ==
    ASSUME SignInIInv, NEW r \in WebRequests, LogoutArrives(r) \/ FarewellArrives(r),
           UNCHANGED <<authOn, valid, begun>>
    PROVE  SignInIInv'
<1>0. /\ page \in PageStates /\ web \in [WebRequests -> WebRequestStates]
      /\ cookie \in Sessions \cup {NoSession} /\ missed \in BOOLEAN /\ crossed \in BOOLEAN
      /\ Phase(page, web) /\ (Tracking => Tracks(page, web, cookie, authOn))
  BY FoundByAnswers
<1>1. /\ web[r].kind \in {"logout", "farewell"} /\ missed' = missed
      /\ crossed' = (crossed \/ web[r].late) /\ cookie' \in {cookie, NoSession}
  BY DEF LogoutArrives, FarewellArrives, Arrived
<1>2. crossed' \in BOOLEAN /\ missed' \in BOOLEAN /\ (Tracking' => Tracking)
  BY <1>0, <1>1 DEF WebRequestStates, Tracking
<1>3. page.loaded /\ \A q \in WebRequests : web[q].kind \notin {"status", "me"}
  BY <1>0, <1>1 DEF Phase
<1>4. PICK over : over = Over(r)
  OBVIOUS
<1>5. /\ over \in [WebRequests -> WebRequestStates] /\ Fewer(web, over)
      /\ over[r].kind = "none" /\ \A q \in WebRequests \ {r} : over[q] = web[q]
  BY <1>0, <1>4, OverIsFewer
<1>6. PICK n, v, d : n = page' /\ v = web' /\ d = cookie'
  OBVIOUS
<1>7. d \in Sessions \cup {NoSession} /\ d \in {cookie, NoSession}
  BY <1>0, <1>1, <1>6
<1>8. CASE LogoutArrives(r)
  <2>0. page.authEnabled
    BY <1>0, <1>8 DEF LogoutArrives, Arrived, Phase
  <2>1. /\ v \in [WebRequests -> WebRequestStates] /\ Fewer(over, v)
        /\ \A q \in WebRequests : v[q].kind # "none" => v[q].late /\ v[q].kind = over[q].kind
    BY <1>4, <1>5, <1>6, <1>8, OutdatedIsFewer DEF LogoutArrives
  <2>2. Fewer(web, v)
    BY <1>5, <2>1 DEF Fewer
  <2>3. /\ n \in PageStates /\ n.loaded /\ n.authEnabled /\ ~n.user /\ n.memory = NoSession
    BY <1>0, <1>3, <1>6, <1>8, <2>0 DEF LogoutArrives, PageStates
  <2>4. \A q \in WebRequests : v[q].kind \notin {"status", "me"}
    BY <1>3, <1>5, <2>1
  <2>5. Tracking' => Tracks(n, v, d, authOn)
    BY <1>0, <1>2, <2>1, <2>2, <2>3, FewerTrack DEF FormOf
  <2> QED
    BY <1>2, <1>6, <1>7, <2>1, <2>2, <2>3, <2>4, <2>5, ArrivedStands
<1>9. CASE FarewellArrives(r)
  <2>1. n = page /\ v = over
    BY <1>4, <1>6, <1>9 DEF FarewellArrives
  <2>2. Tracking' => Tracks(page, over, d, authOn)
    BY <1>0, <1>2, <1>5, <1>7 DEF Tracks
  <2>3. \A q \in WebRequests : over[q].kind \notin {"status", "me"}
    BY <1>3, <1>5
  <2>4. page' = page /\ web' = over /\ cookie' = d
    BY <1>6, <2>1
  <2> QED
    BY <1>0, <1>2, <1>3, <1>5, <1>7, <2>2, <2>3, <2>4, ArrivedStands
<1> QED
  BY <1>8, <1>9

\* A request is sent, or answered on the server.
LEMMA PageRequestsStand ==
    ASSUME SignInIInv, NEW r \in WebRequests, NEW s \in WebRequestStates,
           web' = [web EXCEPT ![r] = s],
           UNCHANGED <<authOn, cookie, page, missed, crossed>>,
           valid' \subseteq Sessions, begun' \in 0 .. MaxSessions,
           s.answer = "refused" => s.kind \in ForSession,
           s.kind = "call" /\ s.answer = "refused" => authOn,
           s.kind = "status" /\ s.answer = "off" => ~authOn,
           \/ s.kind = web[r].kind /\ s.late = web[r].late
           \/ s.kind = "call" /\ ShowsApp
           \/ s.kind \in {"refresh", "disable", "logout"} /\ ShowsApp /\ page.authEnabled
           \/ s.kind \in {"login", "totp"} /\ ShowsForm /\ Under({"login", "totp"}) = {}
    PROVE  SignInIInv'
<1>0. /\ page \in PageStates /\ web \in [WebRequests -> WebRequestStates]
      /\ cookie \in Sessions \cup {NoSession} /\ missed \in BOOLEAN /\ crossed \in BOOLEAN
      /\ authOn \in BOOLEAN /\ Phase(page, web) /\ (Tracking => Tracks(page, web, cookie, authOn))
  BY FoundByAnswers
<1>1. PICK v : v = [web EXCEPT ![r] = s]
  OBVIOUS
<1>2. /\ v \in [WebRequests -> WebRequestStates] /\ v[r] = s /\ web' = v
      /\ \A q \in WebRequests \ {r} : v[q] = web[q]
  BY <1>0, <1>1
<1>3. SignInTypeOK'
  BY <1>0, <1>2 DEF SignInIInv, SignInTypeOK, PageStates, WebRequestStates
<1>4. CASE s.kind = web[r].kind /\ s.late = web[r].late
  <2>1. \A q \in WebRequests : v[q].kind = web[q].kind /\ v[q].late = web[q].late
    BY <1>2, <1>4
  <2>2. Phase(page, v)
    <3>1. \A q \in WebRequests : v[q].answer = "refused" => v[q].kind \in ForSession
      BY <1>0, <1>2 DEF Phase
    <3> QED
      BY <1>0, <2>1, <3>1 DEF Phase
  <2>3. Tracking => Tracks(page, v, cookie, authOn)
    BY <1>0, <1>2, <2>1 DEF Tracks
  <2> QED
    BY <1>2, <1>3, <2>2, <2>3 DEF SignInIInv, Tracking
<1>5. CASE /\ page.loaded
           /\ \/ s.kind = "call" /\ ~FormOf(page)
              \/ s.kind \in {"refresh", "disable", "logout"} /\ ~FormOf(page) /\ page.authEnabled
              \/ /\ s.kind \in {"login", "totp"} /\ FormOf(page)
                 /\ \A q \in WebRequests : web[q].kind \notin {"login", "totp"}
  <2>1. \A q, p \in WebRequests :
           v[q].kind \in {"login", "totp"} /\ v[p].kind \in {"login", "totp"} => q = p
    BY <1>0, <1>2, <1>5 DEF Phase
  <2>2. \A q \in WebRequests :
          /\ v[q].kind \notin {"status", "me"}
          /\ v[q].kind \in {"me", "refresh", "disable", "logout"} => page.authEnabled
          /\ v[q].answer = "refused" => v[q].kind \in ForSession
    <3> SUFFICES ASSUME NEW q \in WebRequests
                 PROVE /\ v[q].kind \notin {"status", "me"}
                       /\ v[q].kind \in {"me", "refresh", "disable", "logout"}
                             => page.authEnabled
                       /\ v[q].answer = "refused" => v[q].kind \in ForSession
      OBVIOUS
    <3>1. CASE q = r
      BY <1>2, <1>5, <3>1
    <3>2. CASE q # r
      BY <1>0, <1>2, <1>5, <3>2 DEF Phase
    <3> QED
      BY <3>1, <3>2
  <2>3. Phase(page, v)
    BY <1>5, <2>1, <2>2 DEF Phase
  <2>4. Tracking => Tracks(page, v, cookie, authOn)
    <3> SUFFICES ASSUME Tracking PROVE Tracks(page, v, cookie, authOn)
      OBVIOUS
    <3>1. Tracks(page, web, cookie, authOn)
      BY <1>0
    <3>2. ASSUME NEW q \in WebRequests
          PROVE /\ v[q].kind = "status" /\ v[q].answer = "off" => ~ authOn
                /\ v[q].kind = "call" /\ v[q].answer = "refused" => authOn
                /\ v[q].kind \in {"call", "refresh", "disable", "logout"} /\ FormOf(page)
                      => v[q].late
                /\ v[q].kind \in {"login", "totp"} => FormOf(page)
      <4>1. CASE q = r
        BY <1>2, <1>5, <4>1
      <4>2. CASE q # r
        BY <1>2, <3>1, <4>2 DEF Tracks
      <4> QED
        BY <4>1, <4>2
    <3> QED
      BY <3>1, <3>2 DEF Tracks
  <2> QED
    BY <1>2, <1>3, <2>3, <2>4 DEF SignInIInv, Tracking
<1> QED
  BY <1>4, <1>5 DEF ShowsApp, ShowsForm, FormOf, Under

LEMMA SendingStands ==
    ASSUME SignInIInv, NEW r \in WebRequests,
           SubmitsForm(r) \/ \E kind \in Kinds : UsesApp(r, kind) \/ UsesAccount(r, kind)
    PROVE  SignInIInv'
<1>0. /\ page \in PageStates /\ cookie \in Sessions \cup {NoSession}
      /\ begun \in 0 .. MaxSessions /\ valid \subseteq Sessions
  BY FoundByAnswers
<1>1. PICK kind \in Kinds :
        /\ Sends(r, kind)
        /\ \/ kind = "call" /\ ShowsApp
           \/ kind \in {"refresh", "disable", "logout"} /\ ShowsApp /\ page.authEnabled
           \/ kind \in {"login", "totp"} /\ ShowsForm /\ Under({"login", "totp"}) = {}
  BY DEF SubmitsForm, UsesApp, UsesAccount, Kinds
<1>2. PICK s : s = Asking(kind)
  OBVIOUS
<1>3. s \in WebRequestStates /\ s.kind = kind /\ s.answer = "none"
  BY <1>0, <1>2 DEF Asking, NoWebRequest, Credential, WebRequestStates, PageStates, Answers
<1>4. /\ web' = [web EXCEPT ![r] = s]
      /\ UNCHANGED <<authOn, cookie, page, missed, crossed, valid, begun>>
  BY <1>1, <1>2 DEF Sends
<1>5. \/ s.kind = "call" /\ ShowsApp
      \/ s.kind \in {"refresh", "disable", "logout"} /\ ShowsApp /\ page.authEnabled
      \/ s.kind \in {"login", "totp"} /\ ShowsForm /\ Under({"login", "totp"}) = {}
  BY <1>1, <1>3
<1>6. /\ valid' \subseteq Sessions /\ begun' \in 0 .. MaxSessions
      /\ UNCHANGED <<authOn, cookie, page, missed, crossed>> /\ s.answer = "none"
  BY <1>0, <1>3, <1>4
<1> QED
  BY <1>3, <1>4, <1>5, <1>6, PageRequestsStand

LEMMA AnsweredStands ==
    ASSUME SignInIInv, NEW r \in WebRequests, ServerAnswers(r)
    PROVE  SignInIInv'
<1>0. /\ page \in PageStates /\ web \in [WebRequests -> WebRequestStates]
      /\ begun \in 0 .. MaxSessions /\ valid \subseteq Sessions /\ authOn \in BOOLEAN
  BY FoundByAnswers
<1>1. UNCHANGED <<authOn, cookie, page, missed, crossed>>
  BY DEF ServerAnswers
<1>2. PICK answer \in Answers, with \in Sessions \cup {NoSession} :
        /\ web' = [web EXCEPT ![r] = [web[r] EXCEPT !.answer = answer, !.with = with]]
        /\ valid' \subseteq Sessions /\ begun' \in 0 .. MaxSessions
        /\ answer = "refused" => web[r].kind \in ForSession /\ (web[r].kind = "call" => authOn)
        /\ answer = "off" => ~authOn
  <2>1. CASE /\ web[r].kind \in {"login", "totp"} /\ begun < MaxSessions
             /\ begun' = begun + 1 /\ valid' = valid \cup {begun + 1}
             /\ web' = [web EXCEPT ![r] = [web[r] EXCEPT !.answer = "ok", !.with = begun + 1]]
    <3>1. begun + 1 \in Sessions /\ begun + 1 \in 0 .. MaxSessions
      BY <1>0, <2>1, SignInAssumption DEF Sessions
    <3>2. "ok" \in Answers
      BY DEF Answers
    <3>3. valid' \subseteq Sessions /\ begun' \in 0 .. MaxSessions
      BY <1>0, <2>1, <3>1
    <3> QED
      BY <2>1, <3>1, <3>2, <3>3
  <2>2. CASE \E answer \in Answers :
               /\ web' = [web EXCEPT ![r] = [web[r] EXCEPT !.answer = answer, !.with = NoSession]]
               /\ UNCHANGED <<valid, begun>>
               /\ answer = "refused" =>
                    web[r].kind \in ForSession /\ (web[r].kind = "call" => authOn)
               /\ answer = "off" => ~authOn
    BY <1>0, <2>2
  <2> QED
    BY <2>1, <2>2
    DEF ServerAnswers, SessionAnswer, SessionAnswerAlways, Answers, ForSession
<1>3. PICK s : s = [web[r] EXCEPT !.answer = answer, !.with = with]
  OBVIOUS
<1>4. s \in WebRequestStates /\ s.kind = web[r].kind /\ s.late = web[r].late /\ s.answer = answer
  BY <1>0, <1>2, <1>3 DEF WebRequestStates
<1>5. web' = [web EXCEPT ![r] = s]
  BY <1>0, <1>2, <1>3
<1>6. /\ s.answer = "refused" => s.kind \in ForSession
      /\ s.kind = "call" /\ s.answer = "refused" => authOn
      /\ s.kind = "status" /\ s.answer = "off" => ~authOn
  BY <1>2, <1>4
<1> QED
  BY <1>1, <1>2, <1>4, <1>5, <1>6, PageRequestsStand

\* Sessions and cookies end, other pages log in and out, the switch is turned.
LEMMA WorldStands ==
    ASSUME SignInIInv,
           GoesBack \/ CookieEnds \/ OtherPage \/ SwitchTurned \/ \E s \in Sessions : SessionEnds(s)
    PROVE  SignInIInv'
<1>0. /\ page \in PageStates /\ web \in [WebRequests -> WebRequestStates]
      /\ cookie \in Sessions \cup {NoSession} /\ missed \in BOOLEAN /\ crossed \in BOOLEAN
      /\ authOn \in BOOLEAN /\ begun \in 0 .. MaxSessions /\ valid \subseteq Sessions
      /\ Phase(page, web) /\ (Tracking => Tracks(page, web, cookie, authOn))
  BY FoundByAnswers
<1>1. /\ web' = web /\ missed' \in BOOLEAN /\ crossed' \in BOOLEAN
      /\ page' = page \/ page' = [page EXCEPT !.form = "password"]
  BY <1>0 DEF GoesBack, CookieEnds, OtherPage, SwitchTurned, SessionEnds
<1>2. /\ page' \in PageStates /\ page'.loaded = page.loaded
      /\ page'.authEnabled = page.authEnabled /\ page'.user = page.user
      /\ page'.expired = page.expired /\ page'.memory = page.memory
  BY <1>0, <1>1 DEF PageStates
<1>3. begun' \in 0 .. MaxSessions /\ valid' \subseteq Sessions
      /\ cookie' \in Sessions \cup {NoSession} /\ authOn' \in BOOLEAN
  <2>1. CASE OtherPage
    <3>1. NoSession \in Sessions \cup {NoSession}
      OBVIOUS
    <3>2. begun < MaxSessions => begun + 1 \in 0 .. MaxSessions /\ begun + 1 \in Sessions
      BY <1>0, SignInAssumption DEF Sessions
    <3> QED
      BY <1>0, <2>1, <3>1, <3>2 DEF OtherPage
  <2>2. CASE GoesBack \/ CookieEnds \/ SwitchTurned \/ \E s \in Sessions : SessionEnds(s)
    BY <1>0, <2>2 DEF GoesBack, CookieEnds, SwitchTurned, SessionEnds
  <2> QED
    BY <2>1, <2>2
<1>4. SignInTypeOK'
  BY <1>0, <1>1, <1>2, <1>3 DEF SignInTypeOK, PageStates, WebRequestStates
<1>5. Phase(page', web)
  BY <1>0, <1>2 DEF Phase
<1>6. Tracking' => Tracking /\ authOn' = authOn /\ cookie' \in {cookie, NoSession}
  BY DEF GoesBack, CookieEnds, OtherPage, SwitchTurned, SessionEnds, Tracking
<1>7. Tracking' => Tracks(page', web, cookie', authOn')
  BY <1>0, <1>2, <1>6 DEF Tracks, FormOf
<1> QED
  BY <1>1, <1>4, <1>5, <1>7 DEF SignInIInv

LEMMA OpeningStands ==
    ASSUME SignInIInv, OpenPage
    PROVE  SignInIInv'
<1>1. PICK r \in WebRequests :
        web' = [q \in WebRequests |-> IF q = r THEN [NoWebRequest EXCEPT !.kind = "status"]
                                      ELSE NoWebRequest]
  BY DEF OpenPage
<1>2. PICK n, v : n = page' /\ v = web'
  OBVIOUS
<1>3. n = NewPage
  BY <1>2 DEF OpenPage
<1>4. /\ n \in PageStates /\ v \in [WebRequests -> WebRequestStates]
      /\ Phase(n, v) /\ Tracks(n, v, cookie, authOn)
  BY <1>1, <1>2, <1>3, OpenedStands
<1>5. UNCHANGED <<authOn, valid, begun, cookie>> /\ missed' = FALSE /\ crossed' = FALSE
  BY DEF OpenPage
<1>6. SignInTypeOK'
  BY <1>2, <1>4, <1>5 DEF SignInIInv, SignInTypeOK, PageStates, WebRequestStates
<1> QED
  BY <1>2, <1>4, <1>5, <1>6 DEF SignInIInv

LEMMA SignInStepStands ==
    ASSUME SignInIInv, [SignInNext]_signInVars
    PROVE  SignInIInv'
<1>1. CASE UNCHANGED signInVars
  BY <1>1 DEF signInVars, SignInIInv, SignInTypeOK, Phase, Tracks, FormOf, Tracking
<1>2. CASE OpenPage \/ GoesBack \/ CookieEnds \/ OtherPage \/ SwitchTurned
           \/ \E s \in Sessions : SessionEnds(s)
  BY <1>2, OpeningStands, WorldStands
<1>3. CASE \E r \in WebRequests :
             SubmitsForm(r) \/ \E kind \in Kinds : UsesApp(r, kind) \/ UsesAccount(r, kind)
  BY <1>3, SendingStands
<1>4. CASE \E r \in WebRequests : ServerAnswers(r)
  BY <1>4, AnsweredStands
<1>5. CASE \E r \in WebRequests : AnswerArrives(r)
  BY <1>5, LoadingArrives, CallAnswersStand, LoginStands, LeavingStands DEF AnswerArrives
<1> QED
  BY <1>1, <1>2, <1>3, <1>4, <1>5 DEF SignInNext

--------------------------------------------------------------------------------
\* What the steps do

LEMMA PagesKeepOneSession ==
    ASSUME SignInIInv, Tracking
    PROVE  OneSession
BY FoundByAnswers DEF Tracks, OneSession

LEMMA LeavingIsTold ==
    ASSUME SignInIInv, SignInNext, Tracking'
    PROVE  LeavesApp
<1> SUFFICES ASSUME page.user, ~page'.user
             PROVE  \/ page' = NewPage
                    \/ \E r \in WebRequests : web[r].kind = "logout" \/ web[r].answer = "refused"
  BY DEF LeavesApp
<1>0. page \in PageStates
  BY FoundByAnswers
<1>1. CASE OpenPage
  BY <1>1 DEF OpenPage
<1>2. CASE \/ GoesBack \/ CookieEnds \/ OtherPage \/ SwitchTurned
           \/ (\E s \in Sessions : SessionEnds(s))
           \/ \E r \in WebRequests :
                \/ \E kind \in Kinds : UsesApp(r, kind) \/ UsesAccount(r, kind)
                \/ SubmitsForm(r) \/ ServerAnswers(r)
  <2>1. page' = page \/ page' = [page EXCEPT !.form = "password"]
    BY <1>2 DEF GoesBack, CookieEnds, OtherPage, SwitchTurned, SessionEnds, UsesApp, UsesAccount,
                SubmitsForm, Sends, ServerAnswers
  <2> QED
    BY <1>0, <2>1 DEF PageStates
<1>3. CASE \E r \in WebRequests : AnswerArrives(r)
  <2>1. PICK r \in WebRequests : AnswerArrives(r)
    BY <1>3
  <2>2. CASE StatusArrives(r)
    BY <1>0, <2>2 DEF StatusArrives, PageStates
  <2>3. CASE MeArrives(r)
    BY <1>0, <2>3 DEF MeArrives, Arrived, PageStates
  <2>4. CASE CallArrives(r)
    BY <1>0, <2>4 DEF CallArrives, Arrived, PageStates, Tracking
  <2>5. CASE LoginArrives(r)
    BY <1>0, <2>5 DEF LoginArrives, LoggedIn, PageStates
  <2>6. CASE LogoutArrives(r) \/ FarewellArrives(r)
    BY <1>0, <2>6 DEF LogoutArrives, FarewellArrives, Arrived
  <2> QED
    BY <2>1, <2>2, <2>3, <2>4, <2>5, <2>6 DEF AnswerArrives
<1> QED
  BY <1>1, <1>2, <1>3 DEF SignInNext

\* A refusal that the page is told of while it tracks its session.
LEMMA NotifiedShowsForm ==
    ASSUME SignInIInv, Tracking, HasSign, NEW q \in WebRequests, NEW p \in PageStates,
           Notified(q, p), p.loaded, p.expired = page.expired, p.authEnabled = page.authEnabled,
           p.user => page.user, page.authEnabled
    PROVE  page'.loaded /\ page'.authEnabled /\ ~page'.user
<1>1. page.expired => ~page.user
  BY FoundByAnswers DEF Tracks, FormOf
<1>2. CASE page.expired
  <2>1. page' = [p EXCEPT !.memory = NoSession]
    BY <1>2 DEF Notified
  <2> QED
    BY <1>1, <1>2, <2>1 DEF PageStates
<1>3. CASE ~page.expired
  <2>1. page' = [p EXCEPT !.memory = NoSession, !.expired = TRUE, !.user = FALSE]
    BY <1>3 DEF Notified
  <2> QED
    BY <2>1 DEF PageStates
<1> QED
  BY <1>2, <1>3

LEMMA RefusalsShowForm ==
    ASSUME SignInIInv, SignInNext, Tracking'
    PROVE  RefusedShowsForm
<1> SUFFICES ASSUME NEW r \in WebRequests, web[r].answer = "refused", web'[r] # web[r],
                    page' # NewPage, HasSign
             PROVE  page'.loaded /\ page'.authEnabled /\ ~page'.user
  BY DEF RefusedShowsForm
<1>0. /\ page \in PageStates /\ web \in [WebRequests -> WebRequestStates]
      /\ Phase(page, web) /\ (Tracking => Tracks(page, web, cookie, authOn))
  BY FoundByAnswers
<1>1. web[r].kind \in ForSession
  BY <1>0 DEF Phase
<1>2. PICK q \in WebRequests : AnswerArrives(q)
  <2>1. ~OpenPage
    BY DEF OpenPage
  <2>2. web[r] # NoWebRequest
    BY DEF NoWebRequest
  <2>3. ASSUME NEW q \in WebRequests,
               \/ \E kind \in Kinds : UsesApp(q, kind) \/ UsesAccount(q, kind)
               \/ SubmitsForm(q) \/ ServerAnswers(q)
        PROVE  FALSE
    <3>1. q # r
      BY <2>2, <2>3 DEF UsesApp, UsesAccount, SubmitsForm, Sends, ServerAnswers
    <3>2. web'[r] = web[r]
      BY <1>0, <2>3, <3>1 DEF UsesApp, UsesAccount, SubmitsForm, Sends, ServerAnswers
    <3> QED
      BY <3>2
  <2>4. ~(GoesBack \/ CookieEnds \/ OtherPage \/ SwitchTurned
          \/ \E s \in Sessions : SessionEnds(s))
    BY DEF GoesBack, CookieEnds, OtherPage, SwitchTurned, SessionEnds
  <2> QED
    BY <2>1, <2>3, <2>4 DEF SignInNext
<1>3. Tracking /\ ~web[q].late /\ Tracks(page, web, cookie, authOn)
  <2>1. crossed' = (crossed \/ web[q].late) /\ (missed => missed')
    BY <1>2 DEF AnswerArrives, StatusArrives, MeArrives, CallArrives, LoginArrives,
                LogoutArrives, FarewellArrives, Arrived
  <2> QED
    BY <1>0, <2>1 DEF Tracking
<1>4. CASE StatusArrives(q)
  <2>1. r # q /\ ~page.loaded
    BY <1>0, <1>4 DEF StatusArrives, Arrived, Phase
  <2>2. web'[r] = web[r]
    BY <1>0, <1>4, <2>1 DEF StatusArrives, Over
  <2> QED
    BY <2>2
<1>5. CASE MeArrives(q)
  <2>1. /\ web[q].kind = "me" /\ page.authEnabled /\ ~page.user
        /\ \A k \in WebRequests \ {q} : web[k].kind = "none"
    BY <1>0, <1>5 DEF MeArrives, Arrived, Phase
  <2>2. r = q
    BY <1>1, <2>1 DEF ForSession
  <2>3. PICK p : p = [page EXCEPT !.loaded = TRUE, !.user = FALSE]
    OBVIOUS
  <2>4. /\ p \in PageStates /\ p.loaded /\ p.expired = page.expired
        /\ p.authEnabled = page.authEnabled /\ ~p.user
    BY <1>0, <2>3 DEF PageStates
  <2>5. Notified(q, p)
    BY <1>5, <2>2, <2>3 DEF MeArrives, Arrived
  <2> QED
    BY <1>3, <2>1, <2>4, <2>5, NotifiedShowsForm
<1>6. CASE CallArrives(q)
  <2>1. web[q].kind \in {"call", "refresh", "disable"}
    BY <1>6 DEF CallArrives, Arrived
  <2>2. page.loaded
    BY <1>0, <2>1 DEF Phase
  <2>3. CASE Notified(q, page) /\ web[q].answer = "refused"
    <3>1. page.authEnabled
      BY <1>0, <1>3, <2>1, <2>2, <2>3 DEF Phase, Tracks
    <3> QED
      BY <1>0, <1>3, <2>2, <2>3, <3>1, NotifiedShowsForm
  <2>4. CASE web' = Over(q) /\ web[q].answer # "refused"
    <3>1. r # q
      BY <2>4
    <3>2. web'[r] = web[r]
      BY <1>0, <2>4, <3>1 DEF Over
    <3> QED
      BY <3>2
  <2> QED
    BY <1>6, <2>3, <2>4 DEF CallArrives, Arrived, Tracking
<1>7. CASE LoginArrives(q) \/ LogoutArrives(q) \/ FarewellArrives(q)
  <2>0. web[q].answer # "refused" /\ r # q
    BY <1>7 DEF LoginArrives, LogoutArrives, FarewellArrives, Arrived
  <2>1. page.loaded
    BY <1>0, <1>7 DEF LoginArrives, LogoutArrives, FarewellArrives, Arrived, Phase
  <2>2. web[r].kind \in {"call", "refresh", "disable"}
    BY <1>0, <1>1, <2>1 DEF Phase, ForSession
  <2>3. PICK over : over = Over(q)
    OBVIOUS
  <2>4. over \in [WebRequests -> WebRequestStates] /\ over[r] = web[r]
    BY <1>0, <2>0, <2>3, OverIsFewer
  <2>5. web' \in {over, Outdated(over)}
    BY <1>7, <2>3 DEF LoginArrives, LogoutArrives, FarewellArrives
  <2>6. ~web[r].late /\ web' = Outdated(over)
    <3>1. web' = Outdated(over)
      BY <2>4, <2>5
    <3>2. over[r].late => web'[r] = over[r]
      BY <2>4, <3>1, OutdatedIsFewer
    <3> QED
      BY <2>4, <3>1, <3>2
  <2>7. ~LoginArrives(q)
    <3>1. SUFFICES ASSUME LoginArrives(q) PROVE FALSE
      OBVIOUS
    <3>2. web[q].kind \in {"login", "totp"}
      BY <3>1 DEF LoginArrives, Arrived
    <3>3. FormOf(page)
      BY <1>3, <3>2 DEF Tracks
    <3> QED
      BY <1>3, <2>2, <2>6, <3>3 DEF Tracks
  <2>8. CASE LogoutArrives(q)
    <3>1. web[q].kind = "logout" /\ page' = [page EXCEPT !.memory = NoSession, !.user = FALSE]
      BY <2>8 DEF LogoutArrives, Arrived
    <3>2. page.authEnabled
      BY <1>0, <3>1 DEF Phase
    <3> QED
      BY <1>0, <2>1, <3>1, <3>2 DEF PageStates
  <2>9. CASE FarewellArrives(q)
    <3>1. web' = over
      BY <2>3, <2>9 DEF FarewellArrives
    <3> QED
      BY <2>4, <3>1
  <2> QED
    BY <1>7, <2>7, <2>8, <2>9
<1> QED
  BY <1>2, <1>4, <1>5, <1>6, <1>7 DEF AnswerArrives

\* However many requests a page has under way, whatever other pages do and whenever sessions end:
\* unless an answer came after a login, a logout or the end of a session it preceded, the page
\* shows the session its browser has, leaves the app only when told to, and shows the login form
\* whenever its session is refused (notifyUnauthorized, auth.ts:41; auth-provider.tsx:189).
THEOREM SignInStaysTrue == SignInSpec => SignInIsTrue
<1>1. SignInIInv /\ [SignInNext]_signInVars => SignInIInv'
  BY SignInStepStands
<1>2. SignInIInv /\ SignInIInv' /\ [SignInNext]_signInVars =>
        [Tracking' => OneSession' /\ LeavesApp /\ RefusedShowsForm]_signInVars
  <2> SUFFICES ASSUME SignInIInv, SignInIInv', SignInNext, Tracking'
               PROVE  OneSession' /\ LeavesApp /\ RefusedShowsForm
    OBVIOUS
  <2>1. OneSession'
    BY DEF SignInIInv, Tracks, OneSession
  <2> QED
    BY <2>1, LeavingIsTold, RefusalsShowForm
<1> QED
  BY <1>1, <1>2, SignInStart, PTL DEF SignInSpec, SignInIsTrue

\* The page's state, its requests and the sessions keep their types (auth-provider.tsx:189).
THEOREM SignInTypesStay == SignInSpec => []SignInTypeOK
<1>1. SignInIInv /\ [SignInNext]_signInVars => SignInIInv'
  BY SignInStepStands
<1>2. SignInIInv => SignInTypeOK
  BY DEF SignInIInv
<1> QED
  BY <1>1, <1>2, SignInStart, PTL DEF SignInSpec

--------------------------------------------------------------------------------
\* Together

\* An instance of the six is one of each: what is proved of a part alone holds of it there.
THEOREM AccessIsItsParts ==
    AccessSpec => /\ AccountsSpec /\ LockoutSpec /\ TwoFactorSpec
                  /\ SettingsSpec /\ DockerSpec /\ SignInSpec
<1>1. AccessInit => /\ AccountsInit /\ LockoutInit /\ TwoFactorInit
                    /\ SettingsInit /\ DockerInit /\ SignInInit
  BY DEF AccessInit
<1>2. [AccessNext]_accessVars => [AccountsNext]_accountsVars
  BY DEF AccessNext, accessVars
<1>3. [AccessNext]_accessVars => [LockoutNext]_lockoutVars
  BY DEF AccessNext, accessVars
<1>4. [AccessNext]_accessVars => [TwoFactorNext]_totpVars
  BY DEF AccessNext, accessVars
<1>5. [AccessNext]_accessVars => [SettingsNext]_settingsVars
  BY DEF AccessNext, accessVars
<1>6. [AccessNext]_accessVars => [DockerNext]_dockerVars
  BY DEF AccessNext, accessVars
<1>7. [AccessNext]_accessVars => [SignInNext]_signInVars
  BY DEF AccessNext, accessVars
<1> QED
  BY <1>1, <1>2, <1>3, <1>4, <1>5, <1>6, <1>7, PTL
     DEF AccessSpec, AccountsSpec, LockoutSpec, TwoFactorSpec, SettingsSpec, DockerSpec,
         SignInSpec

\* The state of each part has its types, whichever of them runs (MCAccess composes the parts
\* of session-guard.ts:6 to auth-provider.tsx:182).
THEOREM AccessTypesStay == AccessSpec => []AccessTypeOK
<1>1. AccessInit => part \in Parts
  BY DEF AccessInit
<1>2. part \in Parts /\ [AccessNext]_accessVars => (part \in Parts)'
  BY DEF AccessNext, accessVars
<1>3. /\ part \in Parts /\ AccountsTypeOK /\ LockoutTypeOK /\ TwoFactorTypeOK
      /\ SettingsTypeOK /\ DockerTypeOK /\ SignInTypeOK
      => AccessTypeOK
  BY DEF AccessTypeOK
<1>4. AccessSpec => [](part \in Parts)
  BY <1>1, <1>2, PTL DEF AccessSpec
<1> QED
  BY <1>3, <1>4, AccessIsItsParts, AccountsTypesStay, LockoutTypesStay, CodesTypesStay,
     SettingsTypesStay, DockerTypesStay, SignInTypesStay, PTL

\* Together, too, each part keeps what it promises (settings.service.ts:61,
\* dockerode-client.ts:102, session-guard.ts:6, login-lockout.ts:10, totp.ts:78,
\* auth-provider.tsx:182).
COROLLARY AccessHolds ==
    AccessSpec => /\ []SettingsTakeEffect /\ []DockerIsFollowed /\ RightsHold /\ LockoutHolds
                  /\ CodesHold /\ SignInIsTrue
BY AccessIsItsParts, SettingsApply, DockerFollowed, RightsAreHeld, LocksAreKept,
   SecondFactorHolds, SignInStaysTrue, PTL
================================================================================
